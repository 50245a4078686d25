--------------------------- MODULE HostLedgerProofs ---------------------------
(***************************************************************************)
(* Proofs about the host-memory ledger of JPEG sessions.                   *)
(*                                                                         *)
(* Every step of the sessions is a step of the authority or leaves it      *)
(* alone (StepImplements), so the authority's own inductive invariant      *)
(* holds here as well.  LedgerInv adds who is where (one thread behind     *)
(* each gate, one reservation for the transaction it runs), what that      *)
(* transaction replaces and holds, and the books of each session.  The     *)
(* authority honours every commit of a transaction that kept to its bytes, *)
(* which is why the ledger may store its totals before it knows the        *)
(* answer.                                                                 *)
(***************************************************************************)
EXTENDS HostLedger, HostBudgetProofs

\* The thread has the gate of its session.
Inside(t) == pc[t] \in {"in", "work", "commit", "admit", "reserve"}

LedgerTypes ==
    /\ active \in [Owners -> Nat] /\ cacheRetained \in [Owners -> Nat]
    /\ cache \in [Owners -> Nat]
    /\ poisoned \in [Owners -> {"no", "yes"}]
    /\ broken \in [Owners -> {"no", "yes"}]
    /\ gone \in [Owners -> {"no", "yes"}]
    /\ gate \in [Owners -> Threads \cup {NoThread}]
    /\ holder \in [Leases -> Owners \cup {NoSession}]
    /\ size \in [Leases -> 0..Cap]
    /\ pc \in [Threads -> {"idle", "gate", "in", "work", "commit", "admit",
                           "reserve"}]
    /\ op \in [Threads -> Operations \cup {"none", "drop"}]
    /\ at \in [Threads -> Owners \cup {NoSession}]
    /\ job \in [Threads -> Leases \cup {NoLease}]
    /\ request \in [Threads -> 0..Cap]

\* What the position of a call says about its arguments.
Calls ==
    \A t \in Threads :
        /\ pc[t] = "idle" <=> op[t] = "none"
        /\ pc[t] = "idle" <=> at[t] = NoSession
        /\ op[t] = "drop" <=> job[t] # NoLease
        /\ op[t] = "drop" => pc[t] \in {"gate", "in"} /\ holder[job[t]] = at[t]
        /\ pc[t] = "work" => op[t] \in {"resolve", "allocate"}
        /\ pc[t] = "commit" => op[t] \in {"resolve", "allocate"}
        /\ pc[t] = "admit" => op[t] \in {"resolve", "allocate"}
        /\ pc[t] = "commit" /\ op[t] = "allocate" => Bound(at[t])
        /\ pc[t] \in {"admit", "reserve"} /\ op[t] = "allocate"
              => ~Bound(at[t])
        /\ pc[t] \in {"idle", "gate", "in", "work"} => request[t] = 0
        /\ pc[t] \in {"commit", "admit"} /\ op[t] = "resolve" => request[t] = 0

\* One thread to a gate, and none in a ledger whose gate is broken.
Gates ==
    /\ \A t \in Threads : Inside(t) => gate[at[t]] = t
    /\ \A s \in Owners : gate[s] # NoThread =>
          at[gate[s]] = s /\ Inside(gate[s])
    /\ \A s \in Owners : broken[s] = "yes" => gate[s] = NoThread

\* No two calls drop the same lease, a lease nobody has has no bytes, and a
\* session without clones has no cache and is only dropping leases.
Drops ==
    /\ \A t, u \in Threads : t # u /\ job[t] # NoLease => job[t] # job[u]
    /\ \A l \in Leases : holder[l] = NoSession => size[l] = 0
    /\ \A s \in Owners : gone[s] = "yes" =>
          cache[s] = 0 /\ \A t \in Threads : at[t] = s => op[t] = "drop"

\* The thread runs a transaction, for which a bound session has reserved.
Transacting(t) == pc[t] \in {"work", "commit"}

\* A bound session has a reservation exactly while its transaction runs, and
\* the authority knows what it replaces and what it holds.
Reservations ==
    /\ \A s \in Owners : s \in open <=>
          Bound(s) /\ gate[s] # NoThread /\ Transacting(gate[s])
    /\ \A t \in Threads : Transacting(t) /\ Bound(at[t]) =>
          IF op[t] = "resolve"
          THEN /\ excluded[at[t]] = cacheRetained[at[t]]
               /\ working[at[t]] = cache[at[t]]
          ELSE excluded[at[t]] = 0 /\ working[at[t]] = request[t]

LeasedBy(s) == [l \in Leases |-> IF holder[l] = s THEN size[l] ELSE 0]

\* The books of a session: leases, cache and charge.
SessionBooks ==
    \A s \in Owners :
        /\ Leased(s) <= active[s]
        /\ broken[s] = "no" => active[s] = Leased(s)
        /\ \/ cache[s] = cacheRetained[s] \/ gone[s] = "yes"
           \/ /\ gate[s] # NoThread /\ pc[gate[s]] = "commit"
              /\ op[gate[s]] = "resolve"
        /\ Bound(s) => bytes[s] = cacheRetained[s] + active[s]

\* No session goes past the cap on its own.
SessionCap ==
    /\ \A s \in Owners : cache[s] + active[s] <= Cap
                         /\ cacheRetained[s] + active[s] <= Cap
    /\ \A t \in Threads : Inside(t) =>
          cache[at[t]] + active[at[t]] + request[t] <= Cap

\* The inductive invariant of the sessions and the authority.
LedgerInv ==
    /\ BudgetInv
    /\ LedgerTypes
    /\ Calls
    /\ Gates
    /\ Drops
    /\ Reservations
    /\ SessionBooks
    /\ SessionCap
    /\ PoisonedOnlyByPanic

-----------------------------------------------------------------------------
(* What the invariant says about one call                                  *)

\* The types that the other proofs need, in one place.
LEMMA Kinds ==
    ASSUME LedgerInv
    PROVE  /\ Cap \in Nat /\ 0..Cap \subseteq Bytes
           /\ registered \subseteq Owners /\ open \subseteq registered
           /\ bytes \in [Owners -> 0..Cap] /\ reserved \in [Owners -> 0..Cap]
           /\ excluded \in [Owners -> 0..Cap] /\ working \in [Owners -> Nat]
           /\ NoThread \notin Threads /\ NoSession \notin Owners
           /\ NoLease \notin Leases
  BY BudgetAssumption, LedgerAssumption DEF LedgerInv, BudgetInv, TypeOK

\* A session's charge and its headroom fit the cap together.
LEMMA ChargeAndHeadroom ==
    ASSUME LedgerInv
    PROVE  \A s \in Owners : bytes[s] + reserved[s] <= Cap
<1>1. \A s \in Owners : /\ bytes[s] <= auth.external
                          /\ reserved[s] <= auth.provisional
  BY NoUnderflow DEF LedgerInv
<1>2. /\ auth.external \in Nat /\ auth.pinned \in Nat
      /\ auth.provisional \in Nat
      /\ auth.external + auth.pinned + auth.provisional <= Cap
  BY DEF LedgerInv, BudgetInv, TypeOK, HostBudgetState, WithinCap, Admitted
<1> QED
  BY <1>1, <1>2, Kinds

\* The thread behind the gate of a session has it to itself.
LEMMA Alone ==
    ASSUME LedgerInv, NEW t \in Threads, Inside(t)
    PROVE  /\ at[t] \in Owners /\ gate[at[t]] = t
           /\ broken[at[t]] = "no" /\ poisoned[at[t]] = "no"
           /\ active[at[t]] = Leased(at[t])
           /\ \A u \in Threads \ {t} : Inside(u) => at[u] # at[t]
           /\ op[t] # "drop" => gone[at[t]] = "no"
           /\ op[t] # "drop" /\ ~(pc[t] = "commit" /\ op[t] = "resolve")
                => cache[at[t]] = cacheRetained[at[t]]
           /\ Bound(at[t]) =>
                bytes[at[t]] = cacheRetained[at[t]] + active[at[t]]
           /\ at[t] \in open <=> Bound(at[t]) /\ Transacting(t)
           /\ cache[at[t]] + active[at[t]] + request[t] <= Cap
           /\ cacheRetained[at[t]] + active[at[t]] <= Cap
           /\ cache[at[t]] \in Nat /\ active[at[t]] \in Nat
           /\ cacheRetained[at[t]] \in Nat /\ request[t] \in Nat
<1>1. at[t] \in Owners /\ gate[at[t]] = t /\ t # NoThread
  BY Kinds DEF LedgerInv, LedgerTypes, Calls, Gates, Inside
<1>2. broken[at[t]] = "no" /\ poisoned[at[t]] = "no"
  BY <1>1 DEF LedgerInv, LedgerTypes, Gates, PoisonedOnlyByPanic
<1>3. \A u \in Threads \ {t} : Inside(u) => at[u] # at[t]
  BY <1>1 DEF LedgerInv, Gates
<1>4. op[t] # "drop" => gone[at[t]] = "no"
  BY <1>1 DEF LedgerInv, LedgerTypes, Drops
<1>5. /\ active[at[t]] = Leased(at[t])
      /\ op[t] # "drop" /\ ~(pc[t] = "commit" /\ op[t] = "resolve")
           => cache[at[t]] = cacheRetained[at[t]]
      /\ Bound(at[t]) => bytes[at[t]] = cacheRetained[at[t]] + active[at[t]]
  BY <1>1, <1>2, <1>4 DEF LedgerInv, SessionBooks
<1>6. at[t] \in open <=> Bound(at[t]) /\ Transacting(t)
  BY <1>1 DEF LedgerInv, Reservations
<1>7. /\ cache[at[t]] + active[at[t]] + request[t] <= Cap
      /\ cacheRetained[at[t]] + active[at[t]] <= Cap
      /\ cache[at[t]] \in Nat /\ active[at[t]] \in Nat
      /\ cacheRetained[at[t]] \in Nat /\ request[t] \in Nat
  BY <1>1, Kinds DEF LedgerInv, LedgerTypes, SessionCap
<1> QED
  BY <1>1, <1>2, <1>3, <1>4, <1>5, <1>6, <1>7

\* A transaction of a bound session is what the authority was told of.
LEMMA Told ==
    ASSUME LedgerInv, NEW t \in Threads, Transacting(t), Bound(at[t])
    PROVE  /\ Inside(t) /\ at[t] \in open /\ op[t] \in {"resolve", "allocate"}
           /\ op[t] = "resolve" =>
                /\ excluded[at[t]] = cacheRetained[at[t]]
                /\ working[at[t]] = cache[at[t]]
                /\ (bytes[at[t]] - excluded[at[t]]) + working[at[t]]
                     = cache[at[t]] + active[at[t]]
           /\ op[t] = "allocate" =>
                /\ excluded[at[t]] = 0 /\ working[at[t]] = request[t]
                /\ (bytes[at[t]] - excluded[at[t]]) + working[at[t]]
                     = cache[at[t]] + active[at[t]] + request[t]
<1>1. Inside(t) /\ op[t] \in {"resolve", "allocate"}
  BY DEF LedgerInv, Calls, Transacting, Inside
<1>2. at[t] \in open
  BY <1>1, Alone
<1>3. CASE op[t] = "resolve"
  <2>1. /\ excluded[at[t]] = cacheRetained[at[t]]
        /\ working[at[t]] = cache[at[t]]
    BY <1>3 DEF LedgerInv, Reservations
  <2> QED
    BY <1>1, <1>2, <1>3, <2>1, Alone
<1>4. CASE op[t] = "allocate"
  <2>1. excluded[at[t]] = 0 /\ working[at[t]] = request[t]
    BY <1>4 DEF LedgerInv, Reservations
  <2>2. cache[at[t]] = cacheRetained[at[t]]
    BY <1>1, <1>4, Alone
  <2> QED
    BY <1>1, <1>2, <1>4, <2>1, <2>2, Alone
<1> QED
  BY <1>1, <1>3, <1>4

\* The authority refuses no commit of a transaction.
LEMMA Committed ==
    ASSUME LedgerInv, NEW t \in Threads, Transacting(t), Bound(at[t]),
           NEW n \in Nat, Commit(at[t], n),
           n <= (bytes[at[t]] - excluded[at[t]]) + working[at[t]]
    PROVE  bytes' = [bytes EXCEPT ![at[t]] = n]
<1>1. BudgetInv /\ at[t] \in open
  BY Told DEF LedgerInv
<1> QED
  BY <1>1, CommitGranted

-----------------------------------------------------------------------------
(* The sum of the leases of a session                                      *)

\* A sum of leases is a natural number and covers each lease.
LEMMA LeasedBounds ==
    ASSUME LedgerTypes, NEW s \in Owners
    PROVE  /\ Leased(s) \in Nat
           /\ \A l \in Leases : holder[l] = s => size[l] <= Leased(s)
<1> DEFINE f == LeasedBy(s)
<1>1. IsFiniteSet(Leases) /\ Cap \in Nat
  BY BudgetAssumption, LedgerAssumption
<1>2. f \in [Leases -> 0..Cap] /\ f \in [Leases -> Nat]
  BY <1>1 DEF LedgerTypes, LeasedBy
<1>3. \A l \in Leases : holder[l] = s => f[l] = size[l]
  BY DEF LeasedBy
<1>4. Leased(s) = Total(f, Cap)
  BY DEF Leased, LeasedBy
<1> HIDE DEF f
<1>5. Total(f, Cap) \in Nat
  BY <1>1, <1>2, TotalType
<1>6. \A l \in Leases : f[l] <= Total(f, Cap)
  BY <1>1, <1>2, TotalBounds
<1> QED
  BY <1>3, <1>4, <1>5, <1>6

\* A step that concerns one lease moves the sum by what it adds to it.
LEMMA LeasedMoves ==
    ASSUME LedgerTypes, LedgerTypes', NEW s \in Owners, NEW l \in Leases,
           \A m \in Leases \ {l} : holder'[m] = holder[m] /\ size'[m] = size[m]
    PROVE  Leased(s)' = (Leased(s) - LeasedBy(s)[l]) + LeasedBy(s)'[l]
<1> DEFINE f == LeasedBy(s)
<1>1. IsFiniteSet(Leases) /\ Cap \in Nat
  BY BudgetAssumption, LedgerAssumption
<1>2. f \in [Leases -> 0..Cap] /\ f' \in [Leases -> 0..Cap]
  BY <1>1 DEF LedgerTypes, LeasedBy
<1>3. \A m \in Leases \ {l} : f'[m] = f[m]
  BY DEF LeasedBy
<1>4. Leased(s) = Total(f, Cap) /\ Leased(s)' = Total(f', Cap)
  BY DEF Leased, LeasedBy
<1> HIDE DEF f
<1>5. Total(f', Cap) = (Total(f, Cap) - f[l]) + f'[l]
  BY <1>1, <1>2, <1>3, TotalUpdate
<1> QED
  BY <1>4, <1>5 DEF f

\* A lease is granted to a session.
LEMMA LeaseGranted ==
    ASSUME LedgerInv, LedgerTypes', NEW s \in Owners, NEW l \in Leases,
           NEW n \in Nat, holder[l] = NoSession, Granted(l, s, n)
    PROVE  /\ Leased(s)' = Leased(s) + n
           /\ \A r \in Owners \ {s} : Leased(r)' = Leased(r)
<1>1. /\ LedgerTypes /\ size[l] = 0 /\ NoSession \notin Owners
      /\ \A m \in Leases \ {l} : holder'[m] = holder[m] /\ size'[m] = size[m]
      /\ holder'[l] = s /\ size'[l] = n
  BY Kinds DEF LedgerInv, LedgerTypes, Drops, Granted
<1>2. /\ \A r \in Owners : LeasedBy(r)[l] = 0
      /\ LeasedBy(s)'[l] = n
      /\ \A r \in Owners \ {s} : LeasedBy(r)'[l] = 0
  BY <1>1 DEF LeasedBy
<1>3. \A r \in Owners :
          Leased(r)' = (Leased(r) - LeasedBy(r)[l]) + LeasedBy(r)'[l]
  BY <1>1, LeasedMoves
<1>4. \A r \in Owners : Leased(r) \in Nat
  BY <1>1, LeasedBounds
<1> QED
  BY <1>2, <1>3, <1>4

\* A lease of a session is dropped.
LEMMA LeaseDropped ==
    ASSUME LedgerInv, LedgerTypes', NEW s \in Owners, NEW l \in Leases,
           holder[l] = s,
           holder' = [holder EXCEPT ![l] = NoSession],
           size' = [size EXCEPT ![l] = 0]
    PROVE  /\ Leased(s)' = Leased(s) - size[l]
           /\ size[l] \in Nat /\ size[l] <= Leased(s) /\ Leased(s) \in Nat
           /\ \A r \in Owners \ {s} : Leased(r)' = Leased(r)
<1>1. /\ LedgerTypes /\ NoSession \notin Owners /\ size[l] \in Nat
      /\ \A m \in Leases \ {l} : holder'[m] = holder[m] /\ size'[m] = size[m]
      /\ holder'[l] = NoSession /\ size'[l] = 0
  BY Kinds DEF LedgerInv, LedgerTypes
<1>2. /\ LeasedBy(s)[l] = size[l]
      /\ \A r \in Owners : LeasedBy(r)'[l] = 0
      /\ \A r \in Owners \ {s} : LeasedBy(r)[l] = 0
  BY <1>1 DEF LeasedBy
<1>3. \A r \in Owners :
          Leased(r)' = (Leased(r) - LeasedBy(r)[l]) + LeasedBy(r)'[l]
  BY <1>1, LeasedMoves
<1>4. \A r \in Owners :
          /\ Leased(r) \in Nat
          /\ \A m \in Leases : holder[m] = r => size[m] <= Leased(r)
  BY <1>1, LeasedBounds
<1> QED
  BY <1>1, <1>2, <1>3, <1>4

\* A session without leases has no leased bytes.
LEMMA LeasedNothing ==
    ASSUME NEW s \in Owners, \A l \in Leases : holder[l] # s
    PROVE  Leased(s) = 0
<1>1. LeasedBy(s) \in [Leases -> {0}] /\ Cap \in Nat
  BY BudgetAssumption DEF LeasedBy
<1> QED
  BY <1>1, TotalZero DEF Leased, LeasedBy

\* The end of a transaction: the session's reservation is gone, its charge is
\* what was committed, and no other session notices.
LEMMA TransactionEnds ==
    ASSUME LedgerInv, NEW t \in Threads, Transacting(t), NEW n \in Nat,
           Bound(at[t]) =>
             n <= (bytes[at[t]] - excluded[at[t]]) + working[at[t]],
           IF Bound(at[t]) THEN Commit(at[t], n) ELSE UNCHANGED budgetVars
    PROVE  /\ registered' = registered /\ open' = open \ {at[t]}
           /\ Bound(at[t]) => bytes'[at[t]] = n
           /\ \A r \in Owners \ {at[t]} :
                bytes'[r] = bytes[r] /\ excluded'[r] = excluded[r]
                /\ working'[r] = working[r]
<1>1. at[t] \in Owners
  BY Alone DEF Transacting, Inside
<1>2. CASE Bound(at[t])
  <2>1. bytes' = [bytes EXCEPT ![at[t]] = n]
    BY <1>2, Committed
  <2> QED
    BY <1>1, <1>2, <2>1, Kinds DEF Commit, CloseReservation
<1>3. CASE ~Bound(at[t])
  BY <1>3, Kinds DEF budgetVars, Bound
<1> QED
  BY <1>2, <1>3

\* A session's charge is reconciled with n, or the session is not bound.
LEMMA Reconciled ==
    ASSUME LedgerInv, NEW s \in Owners, NEW n \in Nat,
           IF Bound(s) THEN Reconcile(s, n) ELSE UNCHANGED budgetVars
    PROVE  /\ UNCHANGED <<registered, open, excluded, working>>
           /\ Bound(s) => bytes'[s] = IF ReconcileOk(auth, bytes[s], n)
                                      THEN n ELSE bytes[s]
           /\ \A r \in Owners \ {s} : bytes'[r] = bytes[r]
  BY Kinds DEF Reconcile, budgetVars, Bound

\* A charge that does not grow is never refused.
LEMMA ShrinkGranted ==
    ASSUME LedgerInv, NEW s \in Owners, NEW n \in Nat, n <= bytes[s]
    PROVE  ReconcileOk(auth, bytes[s], n)
<1>1. bytes[s] <= auth.external
  BY NoUnderflow DEF LedgerInv
<1> QED
  BY <1>1, Kinds
     DEF LedgerInv, BudgetInv, TypeOK, HostBudgetState, ExactCharges,
         WithinCap,
         Admitted, ReconcileOk, ReconcileFits

-----------------------------------------------------------------------------
(* The refinement                                                          *)

\* What a call asks of the authority for a session it has the gate of.
LEMMA Asked ==
    ASSUME LedgerInv, NEW t \in Threads, Inside(t)
    PROVE  /\ cache[at[t]] \in Bytes /\ 0 \in Bytes
           /\ cache[at[t]] + active[at[t]] \in Bytes
           /\ cache[at[t]] + active[at[t]] + request[t] \in Bytes
           /\ cacheRetained[at[t]] + active[at[t]] \in Bytes
           /\ op[t] = "drop" /\ active[at[t]] >= size[job[t]] =>
                cacheRetained[at[t]] + active[at[t]] - size[job[t]] \in Bytes
<1>1. op[t] = "drop" => size[job[t]] \in Nat
  BY Kinds DEF LedgerInv, LedgerTypes, Calls
<1>2. /\ cache[at[t]] + active[at[t]] + request[t] <= Cap
      /\ cacheRetained[at[t]] + active[at[t]] <= Cap
      /\ cache[at[t]] \in Nat /\ active[at[t]] \in Nat
      /\ cacheRetained[at[t]] \in Nat /\ request[t] \in Nat
  BY Alone
<1> QED
  BY <1>1, <1>2, Kinds

\* Every step of a session is a step of the authority, or none.
LEMMA StepImplements ==
    ASSUME LedgerInv, [SessionNext]_sessionVars
    PROVE  [Next]_vars
<1>1. ASSUME UNCHANGED budgetVars PROVE [Next]_vars
  BY <1>1 DEF budgetVars, vars
<1>2. ASSUME UNCHANGED sessionVars PROVE [Next]_vars
  BY <1>2 DEF sessionVars, vars
<1>3. ASSUME NEW t \in Threads,
             \/ \E s \in Owners, what \in Operations : Enter(t, s, what)
             \/ \E l \in Leases : EnterDrop(t, l)
             \/ \E n \in 0..Cap : AdmitLease(t, n)
             \/ LockAllocations(t) \/ LockBroken(t)
      PROVE  [Next]_vars
  BY <1>1, <1>3 DEF Enter, EnterDrop, AdmitLease, LockAllocations, LockBroken
<1>4. ASSUME NEW t \in Threads, BeginTransaction(t) PROVE [Next]_vars
  <2>1. Inside(t)
    BY <1>4 DEF BeginTransaction, Inside
  <2>2. at[t] \in Owners /\ Replaced(t) \in Bytes
    BY <2>1, Alone, Asked DEF Replaced
  <2> QED
    BY <1>1, <1>4, <2>2 DEF BeginTransaction, Next
<1>5. ASSUME NEW t \in Threads, NEW n \in 0..Cap, Work(t, n) PROVE [Next]_vars
  <2>1. Inside(t)
    BY <1>5 DEF Work, Inside
  <2>2. at[t] \in Owners /\ n \in Bytes
    BY <2>1, Alone, Kinds
  <2> QED
    BY <1>1, <1>5, <2>2 DEF Work, Next
<1>6. ASSUME NEW t \in Threads, WorkFails(t) PROVE [Next]_vars
  <2>1. Inside(t)
    BY <1>6 DEF WorkFails, Inside
  <2>2. at[t] \in Owners /\ cache[at[t]] + active[at[t]] \in Bytes
    BY <2>1, Alone, Asked
  <2> QED
    BY <1>1, <1>6, <2>2 DEF WorkFails, Next
<1>7. ASSUME NEW t \in Threads, Panic(t) PROVE [Next]_vars
  <2>1. Inside(t)
    BY <1>7 DEF Panic, Inside
  <2>2. at[t] \in Owners
    BY <2>1, Alone
  <2> QED
    BY <1>1, <1>7, <2>2 DEF Panic, Next
<1>8. ASSUME NEW t \in Threads, CommitCache(t) PROVE [Next]_vars
  <2>1. Inside(t)
    BY <1>8 DEF CommitCache, Inside
  <2>2. at[t] \in Owners /\ cache[at[t]] + active[at[t]] \in Bytes
    BY <2>1, Alone, Asked
  <2> QED
    BY <1>1, <1>8, <2>2 DEF CommitCache, Next
<1>9. ASSUME NEW t \in Threads, NEW l \in Leases, CommitOwner(t, l)
      PROVE  [Next]_vars
  <2>1. Inside(t)
    BY <1>9 DEF CommitOwner, Inside
  <2>2. at[t] \in Owners /\ cache[at[t]] + active[at[t]] + request[t] \in Bytes
    BY <2>1, Alone, Asked
  <2> QED
    BY <1>9, <2>2 DEF CommitOwner, Next
<1>10. ASSUME NEW t \in Threads, NEW l \in Leases, Reserve(t, l)
       PROVE  [Next]_vars
  <2>1. Inside(t)
    BY <1>10 DEF Reserve, Inside
  <2>2. at[t] \in Owners /\ cache[at[t]] + active[at[t]] + request[t] \in Bytes
    BY <2>1, Alone, Asked
  <2> QED
    BY <1>1, <1>10, <2>2 DEF Reserve, Next
<1>11. ASSUME NEW t \in Threads, BindContext(t) PROVE [Next]_vars
  <2>1. Inside(t)
    BY <1>11 DEF BindContext, Inside
  <2>2. at[t] \in Owners /\ cacheRetained[at[t]] + active[at[t]] \in Bytes
    BY <2>1, Alone, Asked
  <2> QED
    BY <1>1, <1>11, <2>2 DEF BindContext, Next
<1>12. ASSUME NEW t \in Threads, DropLease(t) PROVE [Next]_vars
  <2>1. Inside(t) /\ op[t] = "drop"
    BY <1>12 DEF DropLease, Inside
  <2>2. /\ at[t] \in Owners
        /\ active[at[t]] >= size[job[t]] =>
             cacheRetained[at[t]] + active[at[t]] - size[job[t]] \in Bytes
    BY <2>1, Alone, Asked
  <2> QED
    BY <1>1, <1>12, <2>2 DEF DropLease, Next
<1>13. ASSUME NEW s \in Owners, DropClones(s) \/ DropLedger(s)
       PROVE  [Next]_vars
  BY <1>1, <1>13 DEF DropClones, DropLedger, Next
<1>14. ASSUME PinnedStep PROVE [Next]_vars
  BY <1>14 DEF PinnedStep, Next
<1> QED
  BY <1>2, <1>3, <1>4, <1>5, <1>6, <1>7, <1>8, <1>9, <1>10, <1>11, <1>12,
     <1>13, <1>14 DEF SessionNext

-----------------------------------------------------------------------------
(* One step of a session                                                   *)

\* A call begins.
LEMMA StepEnter ==
    ASSUME LedgerInv, BudgetInv', NEW t \in Threads, NEW s \in Owners, NEW
       what \in Operations, Enter(t, s, what)
    PROVE  LedgerInv'
<1>a. /\ pc[t] = "idle" /\ gone[s] = "no"
      /\ pc' = [pc EXCEPT ![t] = "gate"] /\ op' = [op EXCEPT ![t] = what]
      /\ at' = [at EXCEPT ![t] = s]
      /\ UNCHANGED <<registered, bytes, open, excluded, working, active,
                     cacheRetained, poisoned, gate, broken, cache, gone,
                     holder, size, job, request>>
  BY DEF Enter, Goto, budgetVars, ledgerVars, leaseVars
<1>b. \A r \in Owners : Leased(r)' = Leased(r)
  BY <1>a DEF Leased
<1>1. LedgerTypes'
  BY <1>a, <1>b, Kinds DEF LedgerInv, LedgerTypes, Operations
<1>2. Calls'
  BY <1>a, <1>b, Kinds DEF LedgerInv, LedgerTypes, Calls, Gates, Bound,
     Inside, Operations
<1>3. Gates'
  BY <1>a, <1>b, Kinds DEF LedgerInv, LedgerTypes, Calls, Gates, Inside
<1>4. Drops'
  BY <1>a, <1>b, Kinds DEF LedgerInv, LedgerTypes, Calls, Drops
<1>5. Reservations'
  BY <1>a, <1>b, Kinds DEF LedgerInv, LedgerTypes, Reservations, Transacting,
     Bound, Gates, Calls, Inside
<1>6. SessionBooks'
  BY <1>a, <1>b, Kinds DEF LedgerInv, LedgerTypes, SessionBooks, Bound, Gates,
     Inside
<1>7. SessionCap'
  BY <1>a, <1>b, Kinds DEF LedgerInv, LedgerTypes, SessionCap, Calls, Gates,
     Inside
<1>8. PoisonedOnlyByPanic'
  BY <1>a, <1>b, Kinds DEF LedgerInv, LedgerTypes, PoisonedOnlyByPanic
<1> QED
  BY <1>1, <1>2, <1>3, <1>4, <1>5, <1>6, <1>7, <1>8
     DEF LedgerInv

\* The drop of a lease begins, or ends at once in a poisoned ledger.
LEMMA StepEnterDrop ==
    ASSUME LedgerInv, BudgetInv', NEW t \in Threads, NEW l \in Leases,
       EnterDrop(t, l)
    PROVE  LedgerInv'
<1>a. /\ pc[t] = "idle" /\ holder[l] # NoSession
      /\ \A u \in Threads : job[u] # l
      /\ UNCHANGED <<registered, bytes, open, excluded, working, active,
                     cacheRetained, poisoned, gate, broken, cache, gone,
                     request>>
  BY DEF EnterDrop, budgetVars, ledgerVars
<1>b. \/ /\ pc' = [pc EXCEPT ![t] = "gate"] /\ op' = [op EXCEPT ![t] = "drop"]
         /\ at' = [at EXCEPT ![t] = holder[l]] /\ job' = [job EXCEPT ![t] = l]
         /\ UNCHANGED <<holder, size>>
      \/ /\ holder' = [holder EXCEPT ![l] = NoSession]
         /\ size' = [size EXCEPT ![l] = 0]
         /\ broken[holder[l]] = "yes"
         /\ UNCHANGED <<pc, op, at, job>>
  BY DEF EnterDrop, Goto, leaseVars, LedgerInv, LedgerTypes,
     PoisonedOnlyByPanic
<1>1. LedgerTypes'
  BY <1>a, <1>b, Kinds, SMTT(30) DEF LedgerInv, LedgerTypes, Operations
<1>2. Calls'
  BY <1>a, <1>b, Kinds DEF LedgerInv, LedgerTypes, Calls, Gates, Bound,
     Inside, Operations
<1>3. Gates'
  BY <1>a, <1>b, Kinds DEF LedgerInv, LedgerTypes, Calls, Gates, Inside
<1>4. Drops'
  <2>1. CASE /\ op' = [op EXCEPT ![t] = "drop"] /\ job' = [job EXCEPT ![t] = l]
            /\ at' = [at EXCEPT ![t] = holder[l]] /\ UNCHANGED <<holder, size>>
    BY <2>1, <1>a, Kinds DEF LedgerInv, LedgerTypes, Calls, Drops
  <2>2. CASE /\ holder' = [holder EXCEPT ![l] = NoSession]
            /\ size' = [size EXCEPT ![l] = 0] /\ UNCHANGED <<pc, op, at, job>>
    BY <2>2, <1>a, Kinds DEF LedgerInv, LedgerTypes, Calls, Drops
  <2> QED
    BY <1>b, <2>1, <2>2
<1>5. Reservations'
  BY <1>a, <1>b, Kinds DEF LedgerInv, LedgerTypes, Reservations, Transacting,
     Bound, Gates, Calls, Inside
<1>6. SessionBooks'
  <2>1. \A r \in Owners : /\ Leased(r)' <= Leased(r) /\ Leased(r)' \in Int
                          /\ (broken[r] = "no" => Leased(r)' = Leased(r))
    <3>1. CASE UNCHANGED <<holder, size>>
      <4>1. \A r \in Owners : Leased(r) \in Nat
        BY LeasedBounds DEF LedgerInv
      <4> QED
        BY <3>1, <4>1 DEF Leased
    <3>2. CASE /\ holder' = [holder EXCEPT ![l] = NoSession]
               /\ size' = [size EXCEPT ![l] = 0]
               /\ broken[holder[l]] = "yes"
      <4>1. PICK s \in Owners : s = holder[l]
        BY <1>a DEF LedgerInv, LedgerTypes
      <4>2. /\ Leased(s)' = Leased(s) - size[l] /\ size[l] \in Nat
            /\ Leased(s) \in Nat
            /\ \A r \in Owners \ {s} : Leased(r)' = Leased(r)
        BY <1>1, <3>2, <4>1, LeaseDropped
      <4>3. \A r \in Owners : Leased(r) \in Nat
        BY LeasedBounds DEF LedgerInv
      <4> QED
        BY <3>2, <4>1, <4>2, <4>3
    <3> QED
      BY <1>b, <3>1, <3>2
  <2>2. \A r \in Owners : Leased(r) \in Nat
    BY LeasedBounds DEF LedgerInv
  <2>3. \A r \in Owners : gate[r] # NoThread =>
            pc'[gate[r]] = pc[gate[r]] /\ op'[gate[r]] = op[gate[r]]
    BY <1>a, <1>b, Kinds DEF LedgerInv, LedgerTypes, Gates, Inside
  <2> QED
    BY <1>a, <2>1, <2>2, <2>3 DEF LedgerInv, LedgerTypes, SessionBooks, Bound
<1>7. SessionCap'
  BY <1>a, <1>b, Kinds DEF LedgerInv, LedgerTypes, SessionCap, Calls, Gates,
     Inside
<1>8. PoisonedOnlyByPanic'
  BY <1>a, <1>b, Kinds DEF LedgerInv, LedgerTypes, PoisonedOnlyByPanic
<1> QED
  BY <1>1, <1>2, <1>3, <1>4, <1>5, <1>6, <1>7, <1>8
     DEF LedgerInv

\* The gate is taken.
LEMMA StepLockAllocations ==
    ASSUME LedgerInv, BudgetInv', NEW t \in Threads, LockAllocations(t)
    PROVE  LedgerInv'
<1>a. /\ pc[t] = "gate" /\ gate[at[t]] = NoThread /\ broken[at[t]] = "no"
      /\ at[t] \in Owners
      /\ gate' = [gate EXCEPT ![at[t]] = t] /\ pc' = [pc EXCEPT ![t] = "in"]
      /\ UNCHANGED <<registered, bytes, open, excluded, working, active,
                     cacheRetained, poisoned, broken, cache, gone, holder,
                     size, op, at, job, request>>
  BY DEF LockAllocations, Goto, budgetVars, leaseVars, LedgerInv, LedgerTypes,
     Calls
<1>b. \A r \in Owners : Leased(r)' = Leased(r)
  BY <1>a DEF Leased
<1>1. LedgerTypes'
  BY <1>a, <1>b, Kinds DEF LedgerInv, LedgerTypes, Operations
<1>2. Calls'
  BY <1>a, <1>b, Kinds DEF LedgerInv, LedgerTypes, Calls, Gates, Bound,
     Inside, Operations
<1>3. Gates'
  BY <1>a, <1>b, Kinds DEF LedgerInv, LedgerTypes, Calls, Gates, Inside
<1>4. Drops'
  BY <1>a, <1>b, Kinds DEF LedgerInv, LedgerTypes, Calls, Drops
<1>5. Reservations'
  BY <1>a, <1>b, Kinds DEF LedgerInv, LedgerTypes, Reservations, Transacting,
     Bound, Gates, Calls, Inside
<1>6. SessionBooks'
  BY <1>a, <1>b, Kinds DEF LedgerInv, LedgerTypes, SessionBooks, Bound, Gates,
     Inside
<1>7. SessionCap'
  BY <1>a, <1>b, Kinds DEF LedgerInv, LedgerTypes, SessionCap, Calls, Gates,
     Inside
<1>8. PoisonedOnlyByPanic'
  BY <1>a, <1>b, Kinds DEF LedgerInv, LedgerTypes, PoisonedOnlyByPanic
<1> QED
  BY <1>1, <1>2, <1>3, <1>4, <1>5, <1>6, <1>7, <1>8
     DEF LedgerInv

\* The aggregate of a lease is tested.
LEMMA StepAdmitLease ==
    ASSUME LedgerInv, BudgetInv', NEW t \in Threads, NEW n \in 0..Cap,
       AdmitLease(t, n)
    PROVE  LedgerInv'
<1>a. Inside(t) /\ n \in Nat
  BY Kinds DEF AdmitLease, Inside
<1>b. /\ at[t] \in Owners /\ gate[at[t]] = t
      /\ \A u \in Threads \ {t} : Inside(u) => at[u] # at[t]
      /\ at[t] \notin open
  BY <1>a, Alone DEF AdmitLease, Transacting
<1>c. /\ \/ pc[t] = "in" /\ op[t] = "existing"
         \/ pc[t] = "admit" /\ op[t] \in {"resolve", "allocate"}
      /\ \/ /\ cache[at[t]] + active[at[t]] + n <= Cap
            /\ pc' = [pc EXCEPT ![t] = "reserve"]
            /\ request' = [request EXCEPT ![t] = n]
            /\ UNCHANGED <<gate, op, at, job>>
         \/ /\ gate' = [gate EXCEPT ![at[t]] = NoThread]
            /\ pc' = [pc EXCEPT ![t] = "idle"]
            /\ op' = [op EXCEPT ![t] = "none"]
            /\ at' = [at EXCEPT ![t] = NoSession]
            /\ job' = [job EXCEPT ![t] = NoLease]
            /\ request' = [request EXCEPT ![t] = 0]
      /\ UNCHANGED <<registered, bytes, open, excluded, working, active,
                     cacheRetained, poisoned, broken, cache, gone, holder,
                     size>>
  <2>1. PinnedRetained(at[t]) \in Nat /\ cache[at[t]] \in Nat
        /\ active[at[t]] \in Nat
    BY <1>a, Alone
       DEF PinnedRetained, LedgerInv, BudgetInv, TypeOK, HostBudgetState
  <2>2. /\ \/ pc[t] = "in" /\ op[t] = "existing"
           \/ pc[t] = "admit" /\ op[t] \in {"resolve", "allocate"}
        /\ IF cache[at[t]] + PinnedRetained(at[t]) + active[at[t]] + n <= Cap
           THEN /\ pc' = [pc EXCEPT ![t] = "reserve"]
                /\ request' = [request EXCEPT ![t] = n]
                /\ UNCHANGED <<gate, op, at, job>>
           ELSE Leave(t)
        /\ UNCHANGED <<registered, bytes, open, excluded, working, active,
                       cacheRetained, poisoned, broken, cache, gone, holder,
                       size>>
    BY DEF AdmitLease, Goto, budgetVars, leaseVars
  <2>3. CASE cache[at[t]] + PinnedRetained(at[t]) + active[at[t]] + n <= Cap
    BY <1>a, <2>1, <2>2, <2>3, Kinds
  <2>4. CASE ~(cache[at[t]] + PinnedRetained(at[t]) + active[at[t]] + n <= Cap)
    BY <2>2, <2>4 DEF Leave, Return, Goto
  <2> QED
    BY <2>3, <2>4
<1>d. \A r \in Owners : Leased(r)' = Leased(r)
  BY <1>c DEF Leased
<1>1. LedgerTypes'
  <2>1. CASE /\ pc' = [pc EXCEPT ![t] = "reserve"]
            /\ request' = [request EXCEPT ![t] = n]
            /\ UNCHANGED <<gate, op, at, job>>
    BY <2>1, <1>a, <1>b, <1>c, Kinds DEF LedgerInv, LedgerTypes, Operations
  <2>2. CASE /\ gate' = [gate EXCEPT ![at[t]] = NoThread]
            /\ pc' = [pc EXCEPT ![t] = "idle"]
            /\ op' = [op EXCEPT ![t] = "none"]
            /\ at' = [at EXCEPT ![t] = NoSession]
            /\ job' = [job EXCEPT ![t] = NoLease]
            /\ request' = [request EXCEPT ![t] = 0]
    BY <2>2, <1>a, <1>b, <1>c, Kinds DEF LedgerInv, LedgerTypes, Operations
  <2> QED
    BY <1>c, <2>1, <2>2
<1>2. Calls'
  BY <1>a, <1>b, <1>c, <1>d, Kinds DEF LedgerInv, LedgerTypes, Calls, Gates,
     Bound, Inside, Operations
<1>3. Gates'
  <2>1. CASE /\ pc' = [pc EXCEPT ![t] = "reserve"]
            /\ request' = [request EXCEPT ![t] = n]
            /\ UNCHANGED <<gate, op, at, job>>
    BY <2>1, <1>a, <1>b, <1>c, Kinds DEF LedgerInv, LedgerTypes, Calls, Gates,
       Inside
  <2>2. CASE /\ gate' = [gate EXCEPT ![at[t]] = NoThread]
            /\ pc' = [pc EXCEPT ![t] = "idle"]
            /\ op' = [op EXCEPT ![t] = "none"]
            /\ at' = [at EXCEPT ![t] = NoSession]
            /\ job' = [job EXCEPT ![t] = NoLease]
            /\ request' = [request EXCEPT ![t] = 0]
    BY <2>2, <1>a, <1>b, <1>c, Kinds DEF LedgerInv, LedgerTypes, Calls, Gates,
       Inside
  <2> QED
    BY <1>c, <2>1, <2>2
<1>4. Drops'
  BY <1>a, <1>b, <1>c, <1>d, Kinds, SMTT(30) DEF LedgerInv, LedgerTypes, Calls,
    Drops
<1>5. Reservations'
  BY <1>a, <1>b, <1>c, <1>d, Kinds, SMTT(30) DEF LedgerInv, LedgerTypes,
    Reservations, Transacting, Bound, Gates, Calls, Inside
<1>6. SessionBooks'
  BY <1>a, <1>b, <1>c, <1>d, Kinds DEF LedgerInv, LedgerTypes, SessionBooks,
     Bound, Gates, Inside
<1>7. SessionCap'
  BY <1>a, <1>b, <1>c, <1>d, Kinds DEF LedgerInv, LedgerTypes, SessionCap,
     Calls, Gates, Inside
<1>8. PoisonedOnlyByPanic'
  BY <1>a, <1>b, <1>c, <1>d, Kinds DEF LedgerInv, LedgerTypes,
     PoisonedOnlyByPanic
<1> QED
  BY <1>1, <1>2, <1>3, <1>4, <1>5, <1>6, <1>7, <1>8
     DEF LedgerInv

\* The pinned pool acts.
LEMMA StepPinnedStep ==
    ASSUME LedgerInv, BudgetInv', PinnedStep
    PROVE  LedgerInv'
<1>a. UNCHANGED <<registered, bytes, open, excluded, working, active,
                cacheRetained, poisoned, gate, broken, cache, gone, holder,
                size, pc, op, at, job, request>>
  BY DEF PinnedStep, ReservePinned, ReleasePinned, ledgerVars, leaseVars,
     callVars
<1>b. \A r \in Owners : Leased(r)' = Leased(r)
  BY <1>a DEF Leased
<1>1. LedgerTypes'
  BY <1>a, <1>b, Kinds DEF LedgerInv, LedgerTypes, Operations
<1>2. Calls'
  BY <1>a, <1>b, Kinds DEF LedgerInv, LedgerTypes, Calls, Gates, Bound,
     Inside, Operations
<1>3. Gates'
  BY <1>a, <1>b, Kinds DEF LedgerInv, LedgerTypes, Calls, Gates, Inside
<1>4. Drops'
  BY <1>a, <1>b, Kinds DEF LedgerInv, LedgerTypes, Calls, Drops
<1>5. Reservations'
  BY <1>a, <1>b, Kinds DEF LedgerInv, LedgerTypes, Reservations, Transacting,
     Bound, Gates, Calls, Inside
<1>6. SessionBooks'
  BY <1>a, <1>b, Kinds DEF LedgerInv, LedgerTypes, SessionBooks, Bound, Gates,
     Inside
<1>7. SessionCap'
  BY <1>a, <1>b, Kinds DEF LedgerInv, LedgerTypes, SessionCap, Calls, Gates,
     Inside
<1>8. PoisonedOnlyByPanic'
  BY <1>a, <1>b, Kinds DEF LedgerInv, LedgerTypes, PoisonedOnlyByPanic
<1> QED
  BY <1>1, <1>2, <1>3, <1>4, <1>5, <1>6, <1>7, <1>8
     DEF LedgerInv

\* The last clone of a session is dropped.
LEMMA StepDropClones ==
    ASSUME LedgerInv, BudgetInv', NEW s \in Owners, DropClones(s)
    PROVE  LedgerInv'
<1>a. /\ \A t \in Threads : at[t] = s => op[t] = "drop"
      /\ cache' = [cache EXCEPT ![s] = 0] /\ gone' = [gone EXCEPT ![s] = "yes"]
      /\ UNCHANGED <<registered, bytes, open, excluded, working, active,
                     cacheRetained, poisoned, gate, broken, holder, size, pc,
                     op, at, job, request>>
  BY DEF DropClones, budgetVars, leaseVars, callVars
<1>b. \A r \in Owners : Leased(r)' = Leased(r)
  BY <1>a DEF Leased
<1>1. LedgerTypes'
  BY <1>a, <1>b, Kinds DEF LedgerInv, LedgerTypes, Operations
<1>2. Calls'
  BY <1>a, <1>b, Kinds DEF LedgerInv, LedgerTypes, Calls, Gates, Bound,
     Inside, Operations
<1>3. Gates'
  BY <1>a, <1>b, Kinds DEF LedgerInv, LedgerTypes, Calls, Gates, Inside
<1>4. Drops'
  BY <1>a, <1>b, Kinds DEF LedgerInv, LedgerTypes, Calls, Drops
<1>5. Reservations'
  BY <1>a, <1>b, Kinds DEF LedgerInv, LedgerTypes, Reservations, Transacting,
     Bound, Gates, Calls, Inside
<1>6. SessionBooks'
  BY <1>a, <1>b, Kinds DEF LedgerInv, LedgerTypes, SessionBooks, Bound, Gates,
     Inside
<1>7. SessionCap'
  BY <1>a, <1>b, Kinds DEF LedgerInv, LedgerTypes, SessionCap, Calls, Gates,
     Inside
<1>8. PoisonedOnlyByPanic'
  BY <1>a, <1>b, Kinds DEF LedgerInv, LedgerTypes, PoisonedOnlyByPanic
<1> QED
  BY <1>1, <1>2, <1>3, <1>4, <1>5, <1>6, <1>7, <1>8
     DEF LedgerInv

\* The gate is found broken; a lease being dropped is gone.
LEMMA StepLockBroken ==
    ASSUME LedgerInv, BudgetInv', NEW t \in Threads, LockBroken(t)
    PROVE  LedgerInv'
<1>a. /\ pc[t] = "gate" /\ at[t] \in Owners /\ broken[at[t]] = "yes"
      /\ poisoned' = [poisoned EXCEPT ![at[t]] = "yes"]
      /\ holder' = [l \in Leases |->
                       IF l = job[t] THEN NoSession ELSE holder[l]]
      /\ size' = [l \in Leases |-> IF l = job[t] THEN 0 ELSE size[l]]
      /\ pc' = [pc EXCEPT ![t] = "idle"] /\ op' = [op EXCEPT ![t] = "none"]
      /\ at' = [at EXCEPT ![t] = NoSession]
      /\ job' = [job EXCEPT ![t] = NoLease]
      /\ request' = [request EXCEPT ![t] = 0]
      /\ UNCHANGED <<registered, bytes, open, excluded, working, active,
                     cacheRetained, gate, broken, cache, gone>>
  BY DEF LockBroken, Poison, Return, Goto, budgetVars, LedgerInv, LedgerTypes,
     Calls
<1>1. LedgerTypes'
  BY <1>a, Kinds DEF LedgerInv, LedgerTypes, Operations
<1>2. Calls'
  BY <1>a, Kinds DEF LedgerInv, LedgerTypes, Calls, Gates, Bound, Inside,
     Operations, Drops
<1>3. Gates'
  BY <1>a, Kinds DEF LedgerInv, LedgerTypes, Calls, Gates, Inside
<1>4. Drops'
  BY <1>a, Kinds DEF LedgerInv, LedgerTypes, Calls, Drops
<1>5. Reservations'
  BY <1>a, Kinds DEF LedgerInv, LedgerTypes, Reservations, Transacting, Bound,
     Gates, Calls, Inside
<1>6. SessionBooks'
  <2>1. \A r \in Owners : Leased(r) \in Nat
    BY LeasedBounds DEF LedgerInv
  <2>2. \A r \in Owners : /\ Leased(r)' <= Leased(r) /\ Leased(r)' \in Int
                          /\ (broken[r] = "no" => Leased(r)' = Leased(r))
    <3>1. CASE job[t] = NoLease
      <4>1. UNCHANGED <<holder, size>>
        BY <1>a, <3>1, Kinds DEF LedgerInv, LedgerTypes
      <4> QED
        BY <2>1, <4>1 DEF Leased
    <3>2. CASE job[t] # NoLease
      <4>1. /\ job[t] \in Leases /\ holder[job[t]] = at[t]
            /\ holder' = [holder EXCEPT ![job[t]] = NoSession]
            /\ size' = [size EXCEPT ![job[t]] = 0]
        <5>1. job[t] \in Leases /\ op[t] = "drop"
          BY <1>a, <3>2 DEF LedgerInv, LedgerTypes, Calls
        <5>2. holder[job[t]] = at[t]
          BY <1>a, <5>1 DEF LedgerInv, Calls
        <5>3. /\ holder \in [Leases -> Owners \cup {NoSession}]
              /\ size \in [Leases -> 0..Cap]
          BY DEF LedgerInv, LedgerTypes
        <5>4. holder' = [holder EXCEPT ![job[t]] = NoSession]
          BY <1>a, <5>3
        <5>5. size' = [size EXCEPT ![job[t]] = 0]
          BY <1>a, <5>3
        <5> QED
          BY <5>1, <5>2, <5>4, <5>5
      <4>2. PICK s \in Owners : s = at[t]
        BY <1>a
      <4>3. /\ Leased(s)' = Leased(s) - size[job[t]]
            /\ size[job[t]] \in Nat
            /\ \A r \in Owners \ {s} : Leased(r)' = Leased(r)
        BY <1>1, <4>1, <4>2, LeaseDropped
      <4> QED
        BY <1>a, <2>1, <4>2, <4>3
    <3> QED
      BY <3>1, <3>2
  <2>3. \A r \in Owners : gate[r] # NoThread =>
            pc'[gate[r]] = pc[gate[r]] /\ op'[gate[r]] = op[gate[r]]
    BY <1>a, Kinds DEF LedgerInv, LedgerTypes, Gates, Inside
  <2> QED
    BY <1>a, <2>1, <2>2, <2>3 DEF LedgerInv, LedgerTypes, SessionBooks, Bound
<1>7. SessionCap'
  BY <1>a, Kinds DEF LedgerInv, LedgerTypes, SessionCap, Calls, Gates, Inside
<1>8. PoisonedOnlyByPanic'
  BY <1>a, Kinds DEF LedgerInv, LedgerTypes, PoisonedOnlyByPanic
<1> QED
  BY <1>1, <1>2, <1>3, <1>4, <1>5, <1>6, <1>7, <1>8
     DEF LedgerInv

\* A transaction begins; its reservation is not refused.
LEMMA StepBeginTransaction ==
    ASSUME LedgerInv, BudgetInv', NEW t \in Threads, BeginTransaction(t)
    PROVE  LedgerInv'
<1>a. /\ pc[t] = "in" /\ op[t] \in {"resolve", "allocate"} /\ Inside(t)
      /\ request[t] = 0
  BY DEF BeginTransaction, Inside, LedgerInv, Calls
<1>b. /\ at[t] \in Owners /\ gate[at[t]] = t /\ broken[at[t]] = "no"
      /\ \A u \in Threads \ {t} : Inside(u) => at[u] # at[t]
      /\ active[at[t]] = Leased(at[t])
      /\ cache[at[t]] = cacheRetained[at[t]] /\ at[t] \notin open
      /\ Bound(at[t]) => bytes[at[t]] = cacheRetained[at[t]] + active[at[t]]
      /\ cache[at[t]] \in Nat /\ active[at[t]] \in Nat
  BY <1>a, Alone DEF Transacting
<1>c. /\ pc' = [pc EXCEPT ![t] = "work"]
      /\ IF Bound(at[t]) THEN ReserveReplacement(at[t], Replaced(t))
         ELSE UNCHANGED budgetVars
      /\ UNCHANGED <<gate, op, at, job, request, active, cacheRetained,
                     poisoned, broken, cache, gone, holder, size>>
  <2>1. ~auth.poisoned
    BY DEF LedgerInv, BudgetInv, ExactCharges
  <2>2. Bound(at[t]) => ~(Replaced(t) > bytes[at[t]])
    BY <1>b DEF Replaced
  <2> QED
    BY <2>1, <2>2 DEF BeginTransaction, Goto, leaseVars
<1>d. /\ UNCHANGED <<registered, bytes>>
      /\ open' = IF Bound(at[t]) THEN open \cup {at[t]} ELSE open
      /\ Bound(at[t]) =>
           excluded'[at[t]] = Replaced(t) /\ working'[at[t]] = Replaced(t)
      /\ \A r \in Owners \ {at[t]} :
           excluded'[r] = excluded[r] /\ working'[r] = working[r]
  BY <1>b, <1>c, Kinds DEF ReserveReplacement, budgetVars
<1>e. \A r \in Owners : Leased(r)' = Leased(r)
  BY <1>c DEF Leased
<1>1. LedgerTypes'
  BY <1>a, <1>b, <1>c, <1>d, <1>e, Kinds DEF LedgerInv, LedgerTypes,
     Operations
<1>2. Calls'
  BY <1>a, <1>b, <1>c, <1>d, <1>e, Kinds DEF LedgerInv, LedgerTypes, Calls,
     Gates, Bound, Inside, Operations
<1>3. Gates'
  BY <1>a, <1>b, <1>c, <1>d, <1>e, Kinds DEF LedgerInv, LedgerTypes, Calls,
     Gates, Inside
<1>4. Drops'
  BY <1>a, <1>b, <1>c, <1>d, <1>e, Kinds DEF LedgerInv, LedgerTypes, Calls,
     Drops
<1>5. Reservations'
  BY <1>a, <1>b, <1>c, <1>d, <1>e, Kinds DEF LedgerInv, LedgerTypes,
     Reservations, Transacting, Bound, Gates, Calls, Inside, Replaced
<1>6. SessionBooks'
  BY <1>a, <1>b, <1>c, <1>d, <1>e, Kinds DEF LedgerInv, LedgerTypes,
     SessionBooks, Bound, Gates, Inside
<1>7. SessionCap'
  BY <1>a, <1>b, <1>c, <1>d, <1>e, Kinds DEF LedgerInv, LedgerTypes,
     SessionCap, Calls, Gates, Inside
<1>8. PoisonedOnlyByPanic'
  BY <1>a, <1>b, <1>c, <1>d, <1>e, Kinds DEF LedgerInv, LedgerTypes,
     PoisonedOnlyByPanic
<1> QED
  BY <1>1, <1>2, <1>3, <1>4, <1>5, <1>6, <1>7, <1>8
     DEF LedgerInv

\* The closure of a transaction allocates.
LEMMA StepWork ==
    ASSUME LedgerInv, BudgetInv', NEW t \in Threads, NEW n \in 0..Cap, Work(t,
       n)
    PROVE  LedgerInv'
<1>a. /\ pc[t] = "work" /\ op[t] \in {"resolve", "allocate"} /\ Inside(t)
      /\ n \in Nat /\ request[t] = 0 /\ Transacting(t)
  BY Kinds DEF Work, Inside, Transacting, LedgerInv, Calls
<1>b. /\ at[t] \in Owners /\ gate[at[t]] = t /\ broken[at[t]] = "no"
      /\ \A u \in Threads \ {t} : Inside(u) => at[u] # at[t]
      /\ active[at[t]] = Leased(at[t])
      /\ cache[at[t]] = cacheRetained[at[t]] /\ gone[at[t]] = "no"
      /\ Bound(at[t]) => bytes[at[t]] = cacheRetained[at[t]] + active[at[t]]
      /\ cache[at[t]] \in Nat /\ active[at[t]] \in Nat
  BY <1>a, Alone
<1>c. /\ cache' = IF op[t] = "resolve"
                    THEN [cache EXCEPT ![at[t]] = n] ELSE cache
      /\ request' = IF op[t] = "resolve" THEN request
                    ELSE [request EXCEPT ![t] = n]
      /\ pc' = [pc EXCEPT ![t] = IF op[t] = "allocate" /\ ~Bound(at[t])
                                 THEN "admit" ELSE "commit"]
      /\ UNCHANGED <<active, cacheRetained, poisoned, gate, broken, gone,
                     holder, size, op, at, job>>
  BY DEF Work, Goto, leaseVars
<1>d. /\ UNCHANGED <<registered, bytes, open, excluded>>
      /\ Bound(at[t]) => working'[at[t]] = n
      /\ \A r \in Owners \ {at[t]} : working'[r] = working[r]
  BY <1>b, Kinds DEF Work, Allocate, budgetVars
<1>e. /\ op[t] = "resolve" => n + active[at[t]] <= Cap
      /\ op[t] = "allocate" => cache[at[t]] + active[at[t]] + n <= Cap
  <2>1. CASE Bound(at[t])
    <3>1. n <= reserved[at[t]] + excluded[at[t]]
      BY <1>a, <1>b, <2>1, Kinds DEF Work, Allocate
    <3>2. bytes[at[t]] + reserved[at[t]] <= Cap
      BY <1>b, ChargeAndHeadroom
    <3> QED
      BY <1>a, <1>b, <2>1, <3>1, <3>2, Told, Kinds
  <2>2. CASE ~Bound(at[t])
    BY <1>a, <1>b, <2>2, Kinds DEF Work, UnboundLive
  <2> QED
    BY <2>1, <2>2
<1>f. \A r \in Owners : Leased(r)' = Leased(r)
  BY <1>c DEF Leased
<1>1. LedgerTypes'
  BY <1>a, <1>b, <1>c, <1>d, <1>e, <1>f, Kinds DEF LedgerInv, LedgerTypes,
     Operations
<1>2. Calls'
  BY <1>a, <1>b, <1>c, <1>d, <1>e, <1>f, Kinds DEF LedgerInv, LedgerTypes,
     Calls, Gates, Bound, Inside, Operations
<1>3. Gates'
  BY <1>a, <1>b, <1>c, <1>d, <1>e, <1>f, Kinds DEF LedgerInv, LedgerTypes,
     Calls, Gates, Inside
<1>4. Drops'
  BY <1>a, <1>b, <1>c, <1>d, <1>e, <1>f, Kinds DEF LedgerInv, LedgerTypes,
     Calls, Drops
<1>5. Reservations'
  BY <1>a, <1>b, <1>c, <1>d, <1>e, <1>f, Kinds DEF LedgerInv, LedgerTypes,
     Reservations, Transacting, Bound, Gates, Calls, Inside
<1>6. SessionBooks'
  BY <1>a, <1>b, <1>c, <1>d, <1>e, <1>f, Kinds DEF LedgerInv, LedgerTypes,
     SessionBooks, Bound, Gates, Inside
<1>7. SessionCap'
  BY <1>a, <1>b, <1>c, <1>d, <1>e, <1>f, Kinds DEF LedgerInv, LedgerTypes,
     SessionCap, Calls, Gates, Inside
<1>8. PoisonedOnlyByPanic'
  BY <1>a, <1>b, <1>c, <1>d, <1>e, <1>f, Kinds DEF LedgerInv, LedgerTypes,
     PoisonedOnlyByPanic
<1> QED
  BY <1>1, <1>2, <1>3, <1>4, <1>5, <1>6, <1>7, <1>8
     DEF LedgerInv

\* A failed allocation commits its transaction as it began.
LEMMA StepWorkFails ==
    ASSUME LedgerInv, BudgetInv', NEW t \in Threads, WorkFails(t)
    PROVE  LedgerInv'
<1>a. /\ pc[t] = "work" /\ op[t] = "allocate" /\ Inside(t) /\ Transacting(t)
      /\ request[t] = 0
  BY DEF WorkFails, Inside, Transacting, LedgerInv, Calls
<1>b. /\ at[t] \in Owners /\ gate[at[t]] = t /\ broken[at[t]] = "no"
      /\ \A u \in Threads \ {t} : Inside(u) => at[u] # at[t]
      /\ active[at[t]] = Leased(at[t])
      /\ cache[at[t]] = cacheRetained[at[t]]
      /\ cache[at[t]] \in Nat /\ active[at[t]] \in Nat
  BY <1>a, Alone
<1>c. /\ gate' = [gate EXCEPT ![at[t]] = NoThread]
      /\ pc' = [pc EXCEPT ![t] = "idle"] /\ op' = [op EXCEPT ![t] = "none"]
      /\ at' = [at EXCEPT ![t] = NoSession]
      /\ job' = [job EXCEPT ![t] = NoLease]
      /\ request' = [request EXCEPT ![t] = 0]
      /\ UNCHANGED <<active, cacheRetained, poisoned, broken, cache, gone,
                     holder, size>>
  BY DEF WorkFails, Leave, Return, Goto, leaseVars
<1>d. /\ registered' = registered /\ open' = open \ {at[t]}
      /\ \A r \in Owners \ {at[t]} :
           bytes'[r] = bytes[r] /\ excluded'[r] = excluded[r]
           /\ working'[r] = working[r]
      /\ Bound(at[t]) => bytes'[at[t]] = cache[at[t]] + active[at[t]]
  <2>1. cache[at[t]] + active[at[t]] \in Nat
    BY <1>b
  <2>2. Bound(at[t]) => cache[at[t]] + active[at[t]]
                          <= (bytes[at[t]] - excluded[at[t]]) + working[at[t]]
    BY <1>a, <1>b, Told
  <2>3. IF Bound(at[t]) THEN Commit(at[t], cache[at[t]] + active[at[t]])
        ELSE UNCHANGED budgetVars
    BY DEF WorkFails
  <2> QED
    BY <1>a, <2>1, <2>2, <2>3, TransactionEnds
<1>e. \A r \in Owners : Leased(r)' = Leased(r)
  BY <1>c DEF Leased
<1>1. LedgerTypes'
  BY <1>a, <1>b, <1>c, <1>d, <1>e, Kinds DEF LedgerInv, LedgerTypes,
     Operations
<1>2. Calls'
  BY <1>a, <1>b, <1>c, <1>d, <1>e, Kinds DEF LedgerInv, LedgerTypes, Calls,
     Gates, Bound, Inside, Operations
<1>3. Gates'
  BY <1>a, <1>b, <1>c, <1>d, <1>e, Kinds DEF LedgerInv, LedgerTypes, Calls,
     Gates, Inside
<1>4. Drops'
  BY <1>a, <1>b, <1>c, <1>d, <1>e, Kinds DEF LedgerInv, LedgerTypes, Calls,
     Drops
<1>5. Reservations'
  BY <1>a, <1>b, <1>c, <1>d, <1>e, Kinds DEF LedgerInv, LedgerTypes,
     Reservations, Transacting, Bound, Gates, Calls, Inside
<1>6. SessionBooks'
  BY <1>a, <1>b, <1>c, <1>d, <1>e, Kinds DEF LedgerInv, LedgerTypes,
     SessionBooks, Bound, Gates, Inside
<1>7. SessionCap'
  BY <1>a, <1>b, <1>c, <1>d, <1>e, Kinds DEF LedgerInv, LedgerTypes,
     SessionCap, Calls, Gates, Inside
<1>8. PoisonedOnlyByPanic'
  BY <1>a, <1>b, <1>c, <1>d, <1>e, Kinds DEF LedgerInv, LedgerTypes,
     PoisonedOnlyByPanic
<1> QED
  BY <1>1, <1>2, <1>3, <1>4, <1>5, <1>6, <1>7, <1>8
     DEF LedgerInv

\* A panic of the closure drops the reservation and breaks the gate.
LEMMA StepPanic ==
    ASSUME LedgerInv, BudgetInv', NEW t \in Threads, Panic(t)
    PROVE  LedgerInv'
<1>a. /\ pc[t] = "work" /\ op[t] # "drop" /\ Inside(t) /\ Transacting(t)
  BY DEF Panic, Inside, Transacting, LedgerInv, Calls
<1>b. /\ at[t] \in Owners /\ gate[at[t]] = t /\ broken[at[t]] = "no"
      /\ \A u \in Threads \ {t} : Inside(u) => at[u] # at[t]
      /\ active[at[t]] = Leased(at[t])
      /\ cache[at[t]] = cacheRetained[at[t]]
  BY <1>a, Alone
<1>c. /\ gate' = [gate EXCEPT ![at[t]] = NoThread]
      /\ pc' = [pc EXCEPT ![t] = "idle"] /\ op' = [op EXCEPT ![t] = "none"]
      /\ at' = [at EXCEPT ![t] = NoSession]
      /\ job' = [job EXCEPT ![t] = NoLease]
      /\ request' = [request EXCEPT ![t] = 0]
      /\ broken' = [broken EXCEPT ![at[t]] = "yes"]
      /\ UNCHANGED <<active, cacheRetained, poisoned, cache, gone, holder,
                     size>>
  BY DEF Panic, Leave, Return, Goto, leaseVars
<1>d. /\ registered' = registered /\ open' = open \ {at[t]}
      /\ \A r \in Owners \ {at[t]} :
           bytes'[r] = bytes[r] /\ excluded'[r] = excluded[r]
           /\ working'[r] = working[r]
      /\ bytes' = bytes
  <2>1. CASE Bound(at[t])
    BY <1>b, <2>1, Kinds DEF Panic, DropReservation, CloseReservation
  <2>2. CASE ~Bound(at[t])
    BY <2>2, Kinds DEF Panic, budgetVars, Bound
  <2> QED
    BY <2>1, <2>2
<1>e. \A r \in Owners : Leased(r)' = Leased(r)
  BY <1>c DEF Leased
<1>1. LedgerTypes'
  BY <1>a, <1>b, <1>c, <1>d, <1>e, Kinds DEF LedgerInv, LedgerTypes,
     Operations
<1>2. Calls'
  BY <1>a, <1>b, <1>c, <1>d, <1>e, Kinds DEF LedgerInv, LedgerTypes, Calls,
     Gates, Bound, Inside, Operations
<1>3. Gates'
  BY <1>a, <1>b, <1>c, <1>d, <1>e, Kinds DEF LedgerInv, LedgerTypes, Calls,
     Gates, Inside
<1>4. Drops'
  BY <1>a, <1>b, <1>c, <1>d, <1>e, Kinds DEF LedgerInv, LedgerTypes, Calls,
     Drops
<1>5. Reservations'
  BY <1>a, <1>b, <1>c, <1>d, <1>e, Kinds DEF LedgerInv, LedgerTypes,
     Reservations, Transacting, Bound, Gates, Calls, Inside
<1>6. SessionBooks'
  BY <1>a, <1>b, <1>c, <1>d, <1>e, Kinds DEF LedgerInv, LedgerTypes,
     SessionBooks, Bound, Gates, Inside
<1>7. SessionCap'
  BY <1>a, <1>b, <1>c, <1>d, <1>e, Kinds DEF LedgerInv, LedgerTypes,
     SessionCap, Calls, Gates, Inside
<1>8. PoisonedOnlyByPanic'
  BY <1>a, <1>b, <1>c, <1>d, <1>e, Kinds DEF LedgerInv, LedgerTypes,
     PoisonedOnlyByPanic
<1> QED
  BY <1>1, <1>2, <1>3, <1>4, <1>5, <1>6, <1>7, <1>8
     DEF LedgerInv

\* The plan cache is committed.
LEMMA StepCommitCache ==
    ASSUME LedgerInv, BudgetInv', NEW t \in Threads, CommitCache(t)
    PROVE  LedgerInv'
<1>a. /\ pc[t] = "commit" /\ op[t] = "resolve" /\ Inside(t) /\ Transacting(t)
      /\ request[t] = 0
  BY DEF CommitCache, Inside, Transacting, LedgerInv, Calls
<1>b. /\ at[t] \in Owners /\ gate[at[t]] = t /\ broken[at[t]] = "no"
      /\ \A u \in Threads \ {t} : Inside(u) => at[u] # at[t]
      /\ active[at[t]] = Leased(at[t])
      /\ gone[at[t]] = "no"
      /\ cache[at[t]] \in Nat /\ active[at[t]] \in Nat
      /\ cache[at[t]] + active[at[t]] <= Cap
  BY <1>a, Alone DEF LedgerInv, SessionCap
<1>c. /\ \/ Leave(t)
         \/ /\ pc' = [pc EXCEPT ![t] = "admit"]
            /\ UNCHANGED <<gate, op, at, job, request>>
      /\ cacheRetained' = [cacheRetained EXCEPT ![at[t]] = cache[at[t]]]
      /\ UNCHANGED <<active, poisoned, broken, cache, gone, holder, size>>
  BY DEF CommitCache, Goto, leaseVars
<1>d. /\ registered' = registered /\ open' = open \ {at[t]}
      /\ \A r \in Owners \ {at[t]} :
           bytes'[r] = bytes[r] /\ excluded'[r] = excluded[r]
           /\ working'[r] = working[r]
      /\ Bound(at[t]) => bytes'[at[t]] = cache[at[t]] + active[at[t]]
  <2>1. cache[at[t]] + active[at[t]] \in Nat
    BY <1>b
  <2>2. Bound(at[t]) => cache[at[t]] + active[at[t]]
                          <= (bytes[at[t]] - excluded[at[t]]) + working[at[t]]
    BY <1>a, <1>b, Told
  <2>3. IF Bound(at[t]) THEN Commit(at[t], cache[at[t]] + active[at[t]])
        ELSE UNCHANGED budgetVars
    BY DEF CommitCache
  <2> QED
    BY <1>a, <2>1, <2>2, <2>3, TransactionEnds
<1>e. \A r \in Owners : Leased(r)' = Leased(r)
  BY <1>c DEF Leased
<1>1. LedgerTypes'
  <2>1. CASE Leave(t)
    BY <2>1, <1>a, <1>b, <1>c, <1>d, <1>e, Kinds DEF LedgerInv, LedgerTypes,
       Operations, Leave, Return, Goto
  <2>2. CASE /\ pc' = [pc EXCEPT ![t] = "admit"]
            /\ UNCHANGED <<gate, op, at, job, request>>
    BY <2>2, <1>a, <1>b, <1>c, <1>d, <1>e, Kinds DEF LedgerInv, LedgerTypes,
       Operations, Leave, Return, Goto
  <2> QED
    BY <1>c, <2>1, <2>2
<1>2. Calls'
  <2>1. CASE Leave(t)
    BY <2>1, <1>a, <1>b, <1>c, <1>d, <1>e, Kinds DEF LedgerInv, LedgerTypes,
       Calls, Gates, Bound, Inside, Operations, Leave, Return, Goto
  <2>2. CASE /\ pc' = [pc EXCEPT ![t] = "admit"]
            /\ UNCHANGED <<gate, op, at, job, request>>
    BY <2>2, <1>a, <1>b, <1>c, <1>d, <1>e, Kinds DEF LedgerInv, LedgerTypes,
       Calls, Gates, Bound, Inside, Operations, Leave, Return, Goto
  <2> QED
    BY <1>c, <2>1, <2>2
<1>3. Gates'
  <2>1. CASE Leave(t)
    BY <2>1, <1>a, <1>b, <1>c, <1>d, <1>e, Kinds DEF LedgerInv, LedgerTypes,
       Calls, Gates, Inside, Leave, Return, Goto
  <2>2. CASE /\ pc' = [pc EXCEPT ![t] = "admit"]
            /\ UNCHANGED <<gate, op, at, job, request>>
    BY <2>2, <1>a, <1>b, <1>c, <1>d, <1>e, Kinds DEF LedgerInv, LedgerTypes,
       Calls, Gates, Inside, Leave, Return, Goto
  <2> QED
    BY <1>c, <2>1, <2>2
<1>4. Drops'
  <2>1. CASE Leave(t)
    BY <2>1, <1>a, <1>b, <1>c, <1>d, <1>e, Kinds DEF LedgerInv, LedgerTypes,
       Calls, Drops, Leave, Return, Goto
  <2>2. CASE /\ pc' = [pc EXCEPT ![t] = "admit"]
            /\ UNCHANGED <<gate, op, at, job, request>>
    BY <2>2, <1>a, <1>b, <1>c, <1>d, <1>e, Kinds DEF LedgerInv, LedgerTypes,
       Calls, Drops, Leave, Return, Goto
  <2> QED
    BY <1>c, <2>1, <2>2
<1>5. Reservations'
  <2>1. CASE Leave(t)
    BY <2>1, <1>a, <1>b, <1>c, <1>d, <1>e, Kinds DEF LedgerInv, LedgerTypes,
       Reservations, Transacting, Bound, Gates, Calls, Inside, Leave, Return,
       Goto
  <2>2. CASE /\ pc' = [pc EXCEPT ![t] = "admit"]
            /\ UNCHANGED <<gate, op, at, job, request>>
    BY <2>2, <1>a, <1>b, <1>c, <1>d, <1>e, Kinds DEF LedgerInv, LedgerTypes,
       Reservations, Transacting, Bound, Gates, Calls, Inside, Leave, Return,
       Goto
  <2> QED
    BY <1>c, <2>1, <2>2
<1>6. SessionBooks'
  <2>1. CASE Leave(t)
    BY <2>1, <1>a, <1>b, <1>c, <1>d, <1>e, Kinds DEF LedgerInv, LedgerTypes,
       SessionBooks, Bound, Gates, Inside, Leave, Return, Goto
  <2>2. CASE /\ pc' = [pc EXCEPT ![t] = "admit"]
            /\ UNCHANGED <<gate, op, at, job, request>>
    BY <2>2, <1>a, <1>b, <1>c, <1>d, <1>e, Kinds DEF LedgerInv, LedgerTypes,
       SessionBooks, Bound, Gates, Inside, Leave, Return, Goto
  <2> QED
    BY <1>c, <2>1, <2>2
<1>7. SessionCap'
  <2>1. CASE Leave(t)
    BY <2>1, <1>a, <1>b, <1>c, <1>d, <1>e, Kinds DEF LedgerInv, LedgerTypes,
       SessionCap, Calls, Gates, Inside, Leave, Return, Goto
  <2>2. CASE /\ pc' = [pc EXCEPT ![t] = "admit"]
            /\ UNCHANGED <<gate, op, at, job, request>>
    BY <2>2, <1>a, <1>b, <1>c, <1>d, <1>e, Kinds DEF LedgerInv, LedgerTypes,
       SessionCap, Calls, Gates, Inside, Leave, Return, Goto
  <2> QED
    BY <1>c, <2>1, <2>2
<1>8. PoisonedOnlyByPanic'
  BY <1>a, <1>b, <1>c, <1>d, <1>e, Kinds DEF LedgerInv, LedgerTypes,
     PoisonedOnlyByPanic
<1> QED
  BY <1>1, <1>2, <1>3, <1>4, <1>5, <1>6, <1>7, <1>8
     DEF LedgerInv

\* An allocation of a bound session becomes a lease.
LEMMA StepCommitOwner ==
    ASSUME LedgerInv, BudgetInv', NEW t \in Threads, NEW l \in Leases,
       CommitOwner(t, l)
    PROVE  LedgerInv'
<1>a. /\ pc[t] = "commit" /\ op[t] = "allocate" /\ Inside(t) /\ Transacting(t)
      /\ Bound(at[t]) /\ holder[l] = NoSession /\ \A u \in Threads : job[u] # l
  BY Kinds DEF CommitOwner, Inside, Transacting, LedgerInv, LedgerTypes, Calls
<1>b. /\ at[t] \in Owners /\ gate[at[t]] = t /\ broken[at[t]] = "no"
      /\ \A u \in Threads \ {t} : Inside(u) => at[u] # at[t]
      /\ active[at[t]] = Leased(at[t])
      /\ gone[at[t]] = "no" /\ cache[at[t]] = cacheRetained[at[t]]
      /\ cache[at[t]] \in Nat /\ active[at[t]] \in Nat /\ request[t] \in Nat
      /\ cache[at[t]] + active[at[t]] + request[t] <= Cap
  BY <1>a, Alone
<1>c. /\ registered' = registered /\ open' = open \ {at[t]}
      /\ \A r \in Owners \ {at[t]} :
           bytes'[r] = bytes[r] /\ excluded'[r] = excluded[r]
           /\ working'[r] = working[r]
      /\ bytes'[at[t]] = cache[at[t]] + active[at[t]] + request[t]
  <2>1. cache[at[t]] + active[at[t]] + request[t] \in Nat
    BY <1>b
  <2>2. cache[at[t]] + active[at[t]] + request[t]
          <= (bytes[at[t]] - excluded[at[t]]) + working[at[t]]
    BY <1>a, <1>b, Told
  <2>3. IF Bound(at[t])
        THEN Commit(at[t], cache[at[t]] + active[at[t]] + request[t])
        ELSE UNCHANGED budgetVars
    BY <1>a DEF CommitOwner
  <2> QED
    BY <1>a, <2>1, <2>2, <2>3, TransactionEnds
<1>d. /\ gate' = [gate EXCEPT ![at[t]] = NoThread]
      /\ pc' = [pc EXCEPT ![t] = "idle"] /\ op' = [op EXCEPT ![t] = "none"]
      /\ at' = [at EXCEPT ![t] = NoSession]
      /\ job' = [job EXCEPT ![t] = NoLease]
      /\ request' = [request EXCEPT ![t] = 0]
      /\ active' = [active EXCEPT ![at[t]] = @ + request[t]]
      /\ cacheRetained' = [cacheRetained EXCEPT ![at[t]] = cache[at[t]]]
      /\ Granted(l, at[t], request[t])
      /\ UNCHANGED <<poisoned, broken, cache, gone>>
  BY <1>c DEF CommitOwner, Leave, Return, Goto
<1>1. LedgerTypes'
  BY <1>a, <1>b, <1>c, <1>d, Kinds DEF LedgerInv, LedgerTypes, Operations,
     Granted
<1>2. Calls'
  BY <1>a, <1>b, <1>c, <1>d, Kinds DEF LedgerInv, LedgerTypes, Calls, Gates,
     Bound, Inside, Operations, Granted
<1>3. Gates'
  BY <1>a, <1>b, <1>c, <1>d, Kinds DEF LedgerInv, LedgerTypes, Calls, Gates,
     Inside
<1>4. Drops'
  BY <1>a, <1>b, <1>c, <1>d, Kinds DEF LedgerInv, LedgerTypes, Calls, Drops,
     Granted
<1>5. Reservations'
  BY <1>a, <1>b, <1>c, <1>d, Kinds DEF LedgerInv, LedgerTypes, Reservations,
     Transacting, Bound, Gates, Calls, Inside
<1>6. SessionBooks'
  <2>1. PICK s \in Owners : s = at[t]
    BY <1>b
  <2>2. /\ Leased(s)' = Leased(s) + request[t]
        /\ \A r \in Owners \ {s} : Leased(r)' = Leased(r)
    BY <1>a, <1>b, <1>d, <1>1, <2>1, LeaseGranted
  <2>3. \A r \in Owners : Leased(r) \in Nat
    BY LeasedBounds DEF LedgerInv
  <2> QED
    BY <1>a, <1>b, <1>c, <1>d, <2>1, <2>2, <2>3, Kinds
       DEF LedgerInv, LedgerTypes, SessionBooks, Bound, Gates, Inside
<1>7. SessionCap'
  BY <1>a, <1>b, <1>c, <1>d, Kinds DEF LedgerInv, LedgerTypes, SessionCap,
     Calls, Gates, Inside
<1>8. PoisonedOnlyByPanic'
  BY <1>a, <1>b, <1>c, <1>d, Kinds DEF LedgerInv, LedgerTypes,
     PoisonedOnlyByPanic
<1> QED
  BY <1>1, <1>2, <1>3, <1>4, <1>5, <1>6, <1>7, <1>8
     DEF LedgerInv

\* An admitted lease is granted, if the authority agrees.
LEMMA StepReserve ==
    ASSUME LedgerInv, BudgetInv', NEW t \in Threads, NEW l \in Leases,
       Reserve(t, l)
    PROVE  LedgerInv'
<1>a. /\ pc[t] = "reserve" /\ op[t] # "drop" /\ Inside(t) /\ ~Transacting(t)
      /\ holder[l] = NoSession /\ \A u \in Threads : job[u] # l
  BY Kinds DEF Reserve, Inside, Transacting, LedgerInv, LedgerTypes, Calls
<1>b. /\ at[t] \in Owners /\ gate[at[t]] = t /\ broken[at[t]] = "no"
      /\ \A u \in Threads \ {t} : Inside(u) => at[u] # at[t]
      /\ active[at[t]] = Leased(at[t])
      /\ gone[at[t]] = "no" /\ cache[at[t]] = cacheRetained[at[t]]
      /\ cache[at[t]] \in Nat /\ active[at[t]] \in Nat /\ request[t] \in Nat
      /\ cache[at[t]] + active[at[t]] + request[t] <= Cap
      /\ at[t] \notin open
      /\ Bound(at[t]) => bytes[at[t]] = cacheRetained[at[t]] + active[at[t]]
  BY <1>a, Alone
<1>c. /\ UNCHANGED <<registered, open, excluded, working>>
      /\ \A r \in Owners \ {at[t]} : bytes'[r] = bytes[r]
      /\ \/ /\ Bound(at[t]) =>
                 bytes'[at[t]] = cache[at[t]] + active[at[t]] + request[t]
            /\ active' = [active EXCEPT ![at[t]] = @ + request[t]]
            /\ cacheRetained' = [cacheRetained EXCEPT ![at[t]] = cache[at[t]]]
            /\ Granted(l, at[t], request[t])
         \/ /\ Bound(at[t]) => bytes'[at[t]] = bytes[at[t]]
            /\ UNCHANGED <<active, cacheRetained, holder, size>>
  <2> DEFINE n == cache[at[t]] + active[at[t]] + request[t]
  <2>1. n \in Nat
    BY <1>b
  <2>2. IF Bound(at[t]) THEN Reconcile(at[t], n) ELSE UNCHANGED budgetVars
    BY DEF Reserve
  <2>3. /\ UNCHANGED <<registered, open, excluded, working>>
        /\ Bound(at[t]) => bytes'[at[t]] =
              IF ReconcileOk(auth, bytes[at[t]], n) THEN n ELSE bytes[at[t]]
        /\ \A r \in Owners \ {at[t]} : bytes'[r] = bytes[r]
    BY <1>b, <2>1, <2>2, Reconciled
  <2>4. IF Bound(at[t]) => ReconcileOk(auth, bytes[at[t]], n)
        THEN /\ active' = [active EXCEPT ![at[t]] = @ + request[t]]
             /\ cacheRetained' = [cacheRetained EXCEPT ![at[t]] = cache[at[t]]]
             /\ Granted(l, at[t], request[t])
        ELSE UNCHANGED <<active, cacheRetained, holder, size>>
    BY DEF Reserve, leaseVars
  <2> QED
    BY <2>3, <2>4
<1>d. /\ gate' = [gate EXCEPT ![at[t]] = NoThread]
      /\ pc' = [pc EXCEPT ![t] = "idle"] /\ op' = [op EXCEPT ![t] = "none"]
      /\ at' = [at EXCEPT ![t] = NoSession]
      /\ job' = [job EXCEPT ![t] = NoLease]
      /\ request' = [request EXCEPT ![t] = 0]
      /\ UNCHANGED <<poisoned, broken, cache, gone>>
  BY DEF Reserve, Leave, Return, Goto
<1>1. LedgerTypes'
  <2>1. CASE /\ active' = [active EXCEPT ![at[t]] = @ + request[t]]
            /\ cacheRetained' = [cacheRetained EXCEPT ![at[t]] = cache[at[t]]]
            /\ Granted(l, at[t], request[t])
    BY <2>1, <1>a, <1>b, <1>c, <1>d, Kinds DEF LedgerInv, LedgerTypes,
       Operations, Granted
  <2>2. CASE UNCHANGED <<active, cacheRetained, holder, size>>
    BY <2>2, <1>a, <1>b, <1>c, <1>d, Kinds DEF LedgerInv, LedgerTypes,
       Operations, Granted
  <2> QED
    BY <1>c, <2>1, <2>2
<1>2. Calls'
  <2>1. CASE /\ active' = [active EXCEPT ![at[t]] = @ + request[t]]
            /\ cacheRetained' = [cacheRetained EXCEPT ![at[t]] = cache[at[t]]]
            /\ Granted(l, at[t], request[t])
    BY <2>1, <1>a, <1>b, <1>c, <1>d, Kinds DEF LedgerInv, LedgerTypes, Calls,
       Gates, Bound, Inside, Operations, Granted
  <2>2. CASE UNCHANGED <<active, cacheRetained, holder, size>>
    BY <2>2, <1>a, <1>b, <1>c, <1>d, Kinds DEF LedgerInv, LedgerTypes, Calls,
       Gates, Bound, Inside, Operations, Granted
  <2> QED
    BY <1>c, <2>1, <2>2
<1>3. Gates'
  BY <1>a, <1>b, <1>c, <1>d, Kinds DEF LedgerInv, LedgerTypes, Calls, Gates,
     Inside
<1>4. Drops'
  <2>1. CASE /\ active' = [active EXCEPT ![at[t]] = @ + request[t]]
            /\ cacheRetained' = [cacheRetained EXCEPT ![at[t]] = cache[at[t]]]
            /\ Granted(l, at[t], request[t])
    BY <2>1, <1>a, <1>b, <1>c, <1>d, Kinds DEF LedgerInv, LedgerTypes, Calls,
       Drops, Granted
  <2>2. CASE UNCHANGED <<active, cacheRetained, holder, size>>
    BY <2>2, <1>a, <1>b, <1>c, <1>d, Kinds DEF LedgerInv, LedgerTypes, Calls,
       Drops, Granted
  <2> QED
    BY <1>c, <2>1, <2>2
<1>5. Reservations'
  BY <1>a, <1>b, <1>c, <1>d, Kinds DEF LedgerInv, LedgerTypes, Reservations,
     Transacting, Bound, Gates, Calls, Inside
<1>6. SessionBooks'
  <2>1. PICK s \in Owners : s = at[t]
    BY <1>b
  <2>2. \A r \in Owners : Leased(r) \in Nat
    BY LeasedBounds DEF LedgerInv
  <2>3. CASE /\ Bound(at[t]) =>
                  bytes'[at[t]] = cache[at[t]] + active[at[t]] + request[t]
             /\ active' = [active EXCEPT ![at[t]] = @ + request[t]]
             /\ cacheRetained' = [cacheRetained EXCEPT ![at[t]] = cache[at[t]]]
             /\ Granted(l, at[t], request[t])
    <3>1. /\ Leased(s)' = Leased(s) + request[t]
          /\ \A r \in Owners \ {s} : Leased(r)' = Leased(r)
      BY <1>a, <1>b, <1>1, <2>1, <2>3, LeaseGranted
    <3> QED
      BY <1>a, <1>b, <1>c, <1>d, <2>1, <2>2, <2>3, <3>1, Kinds
         DEF LedgerInv, LedgerTypes, SessionBooks, Bound, Gates, Inside
  <2>4. CASE /\ Bound(at[t]) => bytes'[at[t]] = bytes[at[t]]
             /\ UNCHANGED <<active, cacheRetained, holder, size>>
    <3>1. \A r \in Owners : Leased(r)' = Leased(r)
      BY <2>4 DEF Leased
    <3> QED
      BY <1>a, <1>b, <1>c, <1>d, <2>2, <2>4, <3>1, Kinds
         DEF LedgerInv, LedgerTypes, SessionBooks, Bound, Gates, Inside
  <2> QED
    BY <1>c, <2>3, <2>4
<1>7. SessionCap'
  <2>1. CASE /\ active' = [active EXCEPT ![at[t]] = @ + request[t]]
            /\ cacheRetained' = [cacheRetained EXCEPT ![at[t]] = cache[at[t]]]
            /\ Granted(l, at[t], request[t])
    BY <2>1, <1>a, <1>b, <1>c, <1>d, Kinds DEF LedgerInv, LedgerTypes,
       SessionCap, Calls, Gates, Inside, Granted
  <2>2. CASE UNCHANGED <<active, cacheRetained, holder, size>>
    BY <2>2, <1>a, <1>b, <1>c, <1>d, Kinds DEF LedgerInv, LedgerTypes,
       SessionCap, Calls, Gates, Inside, Granted
  <2> QED
    BY <1>c, <2>1, <2>2
<1>8. PoisonedOnlyByPanic'
  BY <1>a, <1>b, <1>c, <1>d, Kinds DEF LedgerInv, LedgerTypes,
     PoisonedOnlyByPanic
<1> QED
  BY <1>1, <1>2, <1>3, <1>4, <1>5, <1>6, <1>7, <1>8
     DEF LedgerInv

\* A session is bound to a context with what it holds.
LEMMA StepBindContext ==
    ASSUME LedgerInv, BudgetInv', NEW t \in Threads, BindContext(t)
    PROVE  LedgerInv'
<1>a. /\ pc[t] = "in" /\ op[t] = "bind" /\ Inside(t) /\ ~Transacting(t)
  BY DEF BindContext, Inside, Transacting
<1>b. /\ at[t] \in Owners /\ gate[at[t]] = t /\ broken[at[t]] = "no"
      /\ \A u \in Threads \ {t} : Inside(u) => at[u] # at[t]
      /\ active[at[t]] = Leased(at[t])
      /\ cacheRetained[at[t]] \in Nat /\ active[at[t]] \in Nat
      /\ at[t] \notin open
  BY <1>a, Alone
<1>c. /\ gate' = [gate EXCEPT ![at[t]] = NoThread]
      /\ pc' = [pc EXCEPT ![t] = "idle"] /\ op' = [op EXCEPT ![t] = "none"]
      /\ at' = [at EXCEPT ![t] = NoSession]
      /\ job' = [job EXCEPT ![t] = NoLease]
      /\ request' = [request EXCEPT ![t] = 0]
      /\ UNCHANGED <<active, cacheRetained, poisoned, broken, cache, gone,
                     holder, size>>
  BY DEF BindContext, Leave, Return, Goto, leaseVars
<1>d. /\ UNCHANGED <<open, excluded, working>>
      /\ \A r \in Owners \ {at[t]} : bytes'[r] = bytes[r]
                                    /\ (r \in registered' <=> r \in registered)
      /\ \/ UNCHANGED <<registered, bytes>>
         \/ /\ registered' = registered \cup {at[t]}
            /\ bytes'[at[t]] = cacheRetained[at[t]] + active[at[t]]
  <2>1. CASE Bound(at[t])
    BY <2>1 DEF BindContext, budgetVars
  <2>2. CASE ~Bound(at[t])
    BY <1>b, <2>2, Kinds DEF BindContext, RegisterExternalOwner
  <2> QED
    BY <2>1, <2>2
<1>e. \A r \in Owners : Leased(r)' = Leased(r)
  BY <1>c DEF Leased
<1>1. LedgerTypes'
  BY <1>a, <1>b, <1>c, <1>d, <1>e, Kinds DEF LedgerInv, LedgerTypes,
     Operations
<1>2. Calls'
  BY <1>a, <1>b, <1>c, <1>d, <1>e, Kinds DEF LedgerInv, LedgerTypes, Calls,
     Gates, Bound, Inside, Operations
<1>3. Gates'
  BY <1>a, <1>b, <1>c, <1>d, <1>e, Kinds DEF LedgerInv, LedgerTypes, Calls,
     Gates, Inside
<1>4. Drops'
  BY <1>a, <1>b, <1>c, <1>d, <1>e, Kinds DEF LedgerInv, LedgerTypes, Calls,
     Drops
<1>5. Reservations'
  BY <1>a, <1>b, <1>c, <1>d, <1>e, Kinds DEF LedgerInv, LedgerTypes,
     Reservations, Transacting, Bound, Gates, Calls, Inside
<1>6. SessionBooks'
  BY <1>a, <1>b, <1>c, <1>d, <1>e, Kinds DEF LedgerInv, LedgerTypes,
     SessionBooks, Bound, Gates, Inside
<1>7. SessionCap'
  BY <1>a, <1>b, <1>c, <1>d, <1>e, Kinds DEF LedgerInv, LedgerTypes,
     SessionCap, Calls, Gates, Inside
<1>8. PoisonedOnlyByPanic'
  BY <1>a, <1>b, <1>c, <1>d, <1>e, Kinds DEF LedgerInv, LedgerTypes,
     PoisonedOnlyByPanic
<1> QED
  BY <1>1, <1>2, <1>3, <1>4, <1>5, <1>6, <1>7, <1>8
     DEF LedgerInv

\* A lease is dropped under the gate; the books hold it.
LEMMA StepDropLease ==
    ASSUME LedgerInv, BudgetInv', NEW t \in Threads, DropLease(t)
    PROVE  LedgerInv'
<1>a. /\ pc[t] = "in" /\ op[t] = "drop" /\ Inside(t) /\ ~Transacting(t)
      /\ job[t] \in Leases /\ holder[job[t]] = at[t]
  BY DEF DropLease, Inside, Transacting, LedgerInv, LedgerTypes, Calls
<1>b. /\ at[t] \in Owners /\ gate[at[t]] = t /\ broken[at[t]] = "no"
      /\ \A u \in Threads \ {t} : Inside(u) => at[u] # at[t]
      /\ active[at[t]] = Leased(at[t])
      /\ cacheRetained[at[t]] \in Nat /\ active[at[t]] \in Nat
      /\ at[t] \notin open /\ cacheRetained[at[t]] + active[at[t]] <= Cap
      /\ Bound(at[t]) => bytes[at[t]] = cacheRetained[at[t]] + active[at[t]]
      /\ size[job[t]] \in Nat /\ size[job[t]] <= active[at[t]]
  <2>1. size[job[t]] \in Nat
    BY <1>a, Kinds DEF LedgerInv, LedgerTypes
  <2>2. at[t] \in Owners /\ active[at[t]] = Leased(at[t])
    BY <1>a, Alone
  <2>3. size[job[t]] <= Leased(at[t])
    BY <1>a, <2>2, LeasedBounds DEF LedgerInv
  <2> QED
    BY <1>a, <2>1, <2>2, <2>3, Alone
<1>c. /\ UNCHANGED <<registered, open, excluded, working>>
      /\ \A r \in Owners \ {at[t]} : bytes'[r] = bytes[r]
      /\ Bound(at[t]) => bytes'[at[t]] =
           cacheRetained[at[t]] + (active[at[t]] - size[job[t]])
      /\ active' = [active EXCEPT ![at[t]] = @ - size[job[t]]]
      /\ UNCHANGED poisoned
  <2> DEFINE n == cacheRetained[at[t]] + active[at[t]] - size[job[t]]
  <2>1. n \in Nat /\ n = cacheRetained[at[t]] + (active[at[t]] - size[job[t]])
    BY <1>b
  <2>2. Bound(at[t]) => ReconcileOk(auth, bytes[at[t]], n)
    BY <1>b, <2>1, ShrinkGranted
  <2>3. active[at[t]] >= size[job[t]]
    BY <1>b
  <2>4. IF Bound(at[t]) THEN Reconcile(at[t], n) ELSE UNCHANGED budgetVars
    BY <2>3 DEF DropLease
  <2>5. /\ UNCHANGED <<registered, open, excluded, working>>
        /\ Bound(at[t]) => bytes'[at[t]] =
              IF ReconcileOk(auth, bytes[at[t]], n) THEN n ELSE bytes[at[t]]
        /\ \A r \in Owners \ {at[t]} : bytes'[r] = bytes[r]
    BY <1>b, <2>1, <2>4, Reconciled
  <2>6. /\ active' = [active EXCEPT ![at[t]] = @ - size[job[t]]]
        /\ UNCHANGED poisoned
    BY <2>2, <2>3 DEF DropLease
  <2> QED
    BY <2>1, <2>2, <2>5, <2>6
<1>d. /\ gate' = [gate EXCEPT ![at[t]] = NoThread]
      /\ pc' = [pc EXCEPT ![t] = "idle"] /\ op' = [op EXCEPT ![t] = "none"]
      /\ at' = [at EXCEPT ![t] = NoSession]
      /\ job' = [job EXCEPT ![t] = NoLease]
      /\ request' = [request EXCEPT ![t] = 0]
      /\ holder' = [holder EXCEPT ![job[t]] = NoSession]
      /\ size' = [size EXCEPT ![job[t]] = 0]
      /\ UNCHANGED <<cacheRetained, broken, cache, gone>>
  BY DEF DropLease, Leave, Return, Goto
<1>1. LedgerTypes'
  BY <1>a, <1>b, <1>c, <1>d, Kinds DEF LedgerInv, LedgerTypes, Operations
<1>2. Calls'
  BY <1>a, <1>b, <1>c, <1>d, Kinds DEF LedgerInv, LedgerTypes, Calls, Gates,
     Bound, Inside, Operations, Drops
<1>3. Gates'
  BY <1>a, <1>b, <1>c, <1>d, Kinds DEF LedgerInv, LedgerTypes, Calls, Gates,
     Inside
<1>4. Drops'
  BY <1>a, <1>b, <1>c, <1>d, Kinds DEF LedgerInv, LedgerTypes, Calls, Drops
<1>5. Reservations'
  BY <1>a, <1>b, <1>c, <1>d, Kinds DEF LedgerInv, LedgerTypes, Reservations,
     Transacting, Bound, Gates, Calls, Inside
<1>6. SessionBooks'
  <2>1. PICK s \in Owners : s = at[t]
    BY <1>b
  <2>2. /\ Leased(s)' = Leased(s) - size[job[t]]
        /\ \A r \in Owners \ {s} : Leased(r)' = Leased(r)
    BY <1>a, <1>d, <1>1, <2>1, LeaseDropped
  <2>3. \A r \in Owners : Leased(r) \in Nat
    BY LeasedBounds DEF LedgerInv
  <2> QED
    BY <1>a, <1>b, <1>c, <1>d, <2>1, <2>2, <2>3, Kinds
       DEF LedgerInv, LedgerTypes, SessionBooks, Bound, Gates, Inside
<1>7. SessionCap'
  BY <1>a, <1>b, <1>c, <1>d, Kinds DEF LedgerInv, LedgerTypes, SessionCap,
     Calls, Gates, Inside
<1>8. PoisonedOnlyByPanic'
  BY <1>a, <1>b, <1>c, <1>d, Kinds DEF LedgerInv, LedgerTypes,
     PoisonedOnlyByPanic
<1> QED
  BY <1>1, <1>2, <1>3, <1>4, <1>5, <1>6, <1>7, <1>8
     DEF LedgerInv

\* The ledger goes with its last lease.
LEMMA StepDropLedger ==
    ASSUME LedgerInv, BudgetInv', NEW s \in Owners, DropLedger(s)
    PROVE  LedgerInv'
<1>a. /\ gone[s] = "yes" /\ \A l \in Leases : holder[l] # s
      /\ active' = [active EXCEPT ![s] = 0]
      /\ cacheRetained' = [cacheRetained EXCEPT ![s] = 0]
      /\ poisoned' = [poisoned EXCEPT ![s] = "no"]
      /\ broken' = [broken EXCEPT ![s] = "no"]
      /\ gone' = [gone EXCEPT ![s] = "no"]
      /\ UNCHANGED <<gate, cache, holder, size, pc, op, at, job, request>>
  BY DEF DropLedger, leaseVars, callVars
<1>b. /\ \A t \in Threads : at[t] # s
      /\ gate[s] = NoThread /\ s \notin open /\ cache[s] = 0
  <2>1. \A t \in Threads : at[t] # s
    BY <1>a, Kinds DEF LedgerInv, LedgerTypes, Calls, Drops
  <2>2. gate[s] = NoThread
    BY <2>1 DEF LedgerInv, LedgerTypes, Gates
  <2> QED
    BY <1>a, <2>1, <2>2 DEF LedgerInv, Reservations, Drops
<1>c. /\ s \notin registered'
      /\ \A r \in Owners \ {s} : bytes'[r] = bytes[r]
                               /\ (r \in registered' <=> r \in registered)
      /\ UNCHANGED <<open, excluded, working>>
  <2>1. CASE Bound(s)
    BY <2>1, Kinds DEF DropLedger, DropOwner
  <2>2. CASE ~Bound(s)
    BY <2>2 DEF DropLedger, budgetVars, Bound
  <2> QED
    BY <2>1, <2>2
<1>d. Leased(s)' = 0 /\ \A r \in Owners : Leased(r)' = Leased(r)
  <2>1. Leased(s) = 0
    BY <1>a, LeasedNothing
  <2> QED
    BY <1>a, <2>1 DEF Leased
<1>1. LedgerTypes'
  BY <1>a, <1>b, <1>c, <1>d, Kinds DEF LedgerInv, LedgerTypes, Operations
<1>2. Calls'
  BY <1>a, <1>b, <1>c, <1>d, Kinds DEF LedgerInv, LedgerTypes, Calls, Gates,
     Bound, Inside, Operations
<1>3. Gates'
  BY <1>a, <1>b, <1>c, <1>d, Kinds DEF LedgerInv, LedgerTypes, Calls, Gates,
     Inside
<1>4. Drops'
  BY <1>a, <1>b, <1>c, <1>d, Kinds DEF LedgerInv, LedgerTypes, Calls, Drops
<1>5. Reservations'
  BY <1>a, <1>b, <1>c, <1>d, Kinds DEF LedgerInv, LedgerTypes, Reservations,
     Transacting, Bound, Gates, Calls, Inside
<1>6. SessionBooks'
  BY <1>a, <1>b, <1>c, <1>d, Kinds DEF LedgerInv, LedgerTypes, SessionBooks,
     Bound, Gates, Inside
<1>7. SessionCap'
  BY <1>a, <1>b, <1>c, <1>d, Kinds DEF LedgerInv, LedgerTypes, SessionCap,
     Calls, Gates, Inside
<1>8. PoisonedOnlyByPanic'
  BY <1>a, <1>b, <1>c, <1>d, Kinds DEF LedgerInv, LedgerTypes,
     PoisonedOnlyByPanic
<1> QED
  BY <1>1, <1>2, <1>3, <1>4, <1>5, <1>6, <1>7, <1>8
     DEF LedgerInv
\* Nothing happens.
LEMMA StepNothing ==
    ASSUME LedgerInv, BudgetInv', UNCHANGED sessionVars PROVE LedgerInv'
<1>a. UNCHANGED <<registered, bytes, open, excluded, working, active,
                  cacheRetained, poisoned, gate, broken, cache, gone, holder,
                  size, pc, op, at, job, request>>
  BY DEF sessionVars
<1>1. LedgerTypes' /\ Calls' /\ Gates' /\ Drops'
  BY <1>a DEF LedgerInv, LedgerTypes, Calls, Gates, Drops, Inside, Bound
<1>2. Reservations' /\ SessionCap' /\ PoisonedOnlyByPanic'
  BY <1>a DEF LedgerInv, Reservations, SessionCap, PoisonedOnlyByPanic,
              Transacting, Inside, Bound
<1>3. SessionBooks'
  BY <1>a DEF LedgerInv, SessionBooks, Leased, Bound
<1> QED
  BY <1>1, <1>2, <1>3 DEF LedgerInv

-----------------------------------------------------------------------------
(* What is really held                                                     *)

\* Only the thread behind the gate has allocated without having a lease.
LEMMA UnleasedIs ==
    ASSUME LedgerInv, NEW s \in Owners
    PROVE  Unleased(s) = IF gate[s] # NoThread /\ op[gate[s]] = "allocate"
                         THEN request[gate[s]] ELSE 0
<1> DEFINE f == [t \in Threads |->
                   IF at[t] = s /\ op[t] = "allocate" THEN request[t] ELSE 0]
<1>1. IsFiniteSet(Threads) /\ Cap \in Nat
  BY BudgetAssumption, LedgerAssumption
<1>2. f \in [Threads -> 0..Cap] /\ Unleased(s) = Total(f, Cap)
  BY <1>1 DEF LedgerInv, LedgerTypes, Unleased
<1>3. \A t \in Threads : f[t] # 0 => gate[s] = t
  BY DEF LedgerInv, LedgerTypes, Calls, Gates, Inside
<1>4. CASE gate[s] = NoThread
  <2>1. \A t \in Threads : f[t] = 0
    BY <1>3, <1>4, Kinds
  <2> HIDE DEF f
  <2>2. f \in [Threads -> {0}]
    BY <1>2, <2>1
  <2> QED
    BY <1>1, <1>2, <1>4, <2>2, TotalZero
<1>5. CASE gate[s] # NoThread
  <2>1. gate[s] \in Threads /\ at[gate[s]] = s
    BY <1>5 DEF LedgerInv, LedgerTypes, Gates
  <2>2. f[gate[s]] = IF op[gate[s]] = "allocate" THEN request[gate[s]] ELSE 0
    BY <2>1
  <2>3. \A t \in Threads \ {gate[s]} : f[t] = 0
    BY <1>3
  <2> HIDE DEF f
  <2>4. Total(f, Cap) = f[gate[s]]
    BY <1>1, <1>2, <2>1, <2>3, TotalSingle
  <2> QED
    BY <1>2, <1>5, <2>2, <2>4
<1> QED
  BY <1>4, <1>5

\* What a session holds fits the cap, and if it is bound it is covered by its
\* charge and the headroom of its transaction.
LEMMA HeldCovered ==
    ASSUME LedgerInv, NEW s \in Owners
    PROVE  /\ Held(s) \in Nat /\ Held(s) <= Cap
           /\ Bound(s) => Held(s) <= bytes[s] + reserved[s]
<1>1. /\ Leased(s) \in Nat /\ Leased(s) <= active[s]
      /\ cache[s] \in Nat /\ active[s] \in Nat /\ cacheRetained[s] \in Nat
      /\ cache[s] + active[s] <= Cap /\ reserved[s] \in Nat /\ Cap \in Nat
      /\ Bound(s) => bytes[s] = cacheRetained[s] + active[s]
  BY LeasedBounds, Kinds DEF LedgerInv, LedgerTypes, SessionBooks, SessionCap
<1>2. CASE gate[s] = NoThread
  <2>1. Held(s) = cache[s] + Leased(s)
    BY <1>1, <1>2, UnleasedIs DEF Held
  <2>2. cache[s] <= cacheRetained[s]
    BY <1>1, <1>2 DEF LedgerInv, LedgerTypes, SessionBooks, Drops
  <2> QED
    BY <1>1, <2>1, <2>2
<1>3. CASE gate[s] # NoThread
  <2>1. PICK t \in Threads : gate[s] = t
    BY <1>3 DEF LedgerInv, LedgerTypes
  <2>2. at[t] = s /\ Inside(t) /\ request[t] \in Nat
    BY <1>3, <2>1, Alone DEF LedgerInv, Gates
  <2>3. /\ Held(s) = cache[s] + Leased(s)
                      + (IF op[t] = "allocate" THEN request[t] ELSE 0)
        /\ Held(s) \in Nat /\ Held(s) <= Cap
    <3>1. cache[s] + active[s] + request[t] <= Cap
      BY <2>2, Alone
    <3>2. Held(s) = cache[s] + Leased(s)
                      + (IF op[t] = "allocate" THEN request[t] ELSE 0)
      BY <1>3, <2>1, UnleasedIs DEF Held
    <3> QED
      BY <1>1, <2>2, <3>1, <3>2
  <2>4. CASE Bound(s) /\ Transacting(t)
    <3>1. working[s] <= excluded[s] + reserved[s] /\ op[t] # "drop"
      BY <2>2, <2>4, Told DEF LedgerInv, BudgetInv, OwnerBooks
    <3>2. CASE op[t] = "resolve"
      <4>1. excluded[s] = cacheRetained[s] /\ working[s] = cache[s]
        BY <2>2, <2>4, <3>2, Told
      <4> QED
        BY <1>1, <2>3, <3>1, <3>2, <4>1
    <3>3. CASE op[t] = "allocate"
      <4>1. excluded[s] = 0 /\ working[s] = request[t]
        BY <2>2, <2>4, <3>3, Told
      <4>2. cache[s] = cacheRetained[s]
        BY <2>2, <3>3, Alone
      <4> QED
        BY <1>1, <2>2, <2>3, <3>1, <3>3, <4>1, <4>2
    <3> QED
      BY <2>2, <2>4, <2>3, <3>2, <3>3, Told
  <2>5. CASE Bound(s) /\ ~Transacting(t)
    <3>1. op[t] = "allocate" => request[t] = 0
      BY <2>2, <2>5 DEF LedgerInv, LedgerTypes, Calls, Transacting, Inside
    <3>2. cache[s] <= cacheRetained[s]
      BY <1>1, <2>1, <2>5
         DEF LedgerInv, LedgerTypes, SessionBooks, Drops, Transacting
    <3> QED
      BY <1>1, <2>3, <3>1, <3>2
  <2> QED
    BY <2>3, <2>4, <2>5
<1> QED
  BY <1>2, <1>3

\* Together they fit it, with the pinned blocks.
LEMMA HeldFits == ASSUME LedgerInv PROVE HeldWithinCap
<1> DEFINE f == [s \in Owners |-> IF Bound(s) THEN Held(s) ELSE 0]
<1> DEFINE g == [s \in Owners |-> bytes[s] + reserved[s]]
<1>1. /\ IsFiniteSet(Owners) /\ Cap \in Nat /\ 2 * Cap \in Nat
      /\ bytes \in [Owners -> 0..Cap] /\ reserved \in [Owners -> 0..Cap]
  BY BudgetAssumption, Kinds
<1>2. f \in [Owners -> Nat] /\ g \in [Owners -> Nat]
  BY <1>1, HeldCovered
<1>3. \A s \in Owners : f[s] <= g[s]
  BY <1>1, HeldCovered
<1>4. \A s \in Owners : g[s] = bytes[s] + reserved[s]
  OBVIOUS
<1>5. /\ Total(bytes, Cap) = auth.external
      /\ Total(reserved, Cap) = auth.provisional
      /\ auth.external \in Nat /\ auth.provisional \in Nat
      /\ auth.pinned \in Nat
      /\ auth.external + auth.pinned + auth.provisional <= Cap
  BY DEF LedgerInv, BudgetInv, ExactCharges, WithinCap, Admitted, TypeOK,
         HostBudgetState
<1> HIDE DEF f, g
<1>6. Total(f, 2 * Cap) <= Total(g, 2 * Cap) /\ Total(f, 2 * Cap) \in Nat
  <2>1. Total(f, 2 * Cap) <= Total(g, 2 * Cap)
    BY <1>1, <1>2, <1>3, TotalMonotone
  <2>2. Total(f, 2 * Cap) \in Nat
    BY <1>1, <1>2, TotalType
  <2> QED
    BY <2>1, <2>2
<1>7. Total(g, 2 * Cap) = Total(bytes, Cap) + Total(reserved, Cap)
  BY <1>1, <1>2, <1>4, TotalSum, SMTT(30)
<1>8. auth.pinned + Total(f, 2 * Cap) <= Cap
  BY <1>1, <1>5, <1>6, <1>7
<1>9. \A s \in Owners : Held(s) <= Cap
  BY HeldCovered
<1> QED
  BY <1>8, <1>9 DEF f, HeldWithinCap

-----------------------------------------------------------------------------
(* The theorems                                                            *)

\* The sessions begin with empty books.
LEMMA InitLedger == SessionInit => LedgerInv
<1> SUFFICES ASSUME SessionInit PROVE LedgerInv
  OBVIOUS
<1> USE BudgetAssumption, LedgerAssumption
<1>1. BudgetInv
  BY InitBudget DEF SessionInit
<1>2. /\ registered = {} /\ open = {} /\ \A s \in Owners : ~Bound(s)
  BY DEF SessionInit, Init, Bound
<1>3. \A s \in Owners : Leased(s) = 0
  <2>1. \A s \in Owners : \A l \in Leases : holder[l] # s
    BY DEF SessionInit
  <2> QED
    BY <2>1, LeasedNothing
<1>4. LedgerTypes /\ Calls
  BY <1>2 DEF SessionInit, LedgerTypes, Calls, Operations, Bound
<1>5. Gates /\ Drops
  BY DEF SessionInit, Gates, Drops, Inside
<1>6. Reservations /\ SessionCap /\ PoisonedOnlyByPanic
  BY <1>2 DEF SessionInit, Reservations, SessionCap, PoisonedOnlyByPanic,
              Inside, Transacting
<1>7. SessionBooks
  BY <1>2, <1>3 DEF SessionInit, SessionBooks
<1> QED
  BY <1>1, <1>4, <1>5, <1>6, <1>7 DEF LedgerInv

\* Every step of the sessions preserves the invariant.
LEMMA StepLedger == LedgerInv /\ [SessionNext]_sessionVars => LedgerInv'
<1> SUFFICES ASSUME LedgerInv, [SessionNext]_sessionVars PROVE LedgerInv'
  OBVIOUS
<1>1. BudgetInv'
  <2>1. BudgetInv /\ [Next]_vars
    BY StepImplements DEF LedgerInv
  <2> QED
    BY <2>1, StepBudget
<1>2. CASE UNCHANGED sessionVars
  BY <1>1, <1>2, StepNothing
<1>3. CASE SessionNext
  BY <1>1, <1>3, StepEnter, StepEnterDrop, StepCommitOwner, StepReserve,
     StepLockAllocations, StepLockBroken, StepBeginTransaction, StepWorkFails,
     StepPanic, StepWork, StepAdmitLease, StepCommitCache, StepBindContext,
     StepDropLease, StepDropClones, StepDropLedger, StepPinnedStep
     DEF SessionNext
<1> QED
  BY <1>2, <1>3

\* The inductive invariant holds in every behaviour.
THEOREM LedgerInvariant == SessionSpec => []LedgerInv
  BY InitLedger, StepLedger, PTL DEF SessionSpec

\* Sessions use the authority as HostBudget prescribes, so the results of
\* HostBudgetProofs hold of them: its sums stay exact and it is never
\* poisoned, whatever sessions are bound, fail, panic or are dropped.
THEOREM SessionsImplementBudget == SessionSpec => ImplementsBudget
<1>1. SessionInit => Init
  BY DEF SessionInit
<1>2. LedgerInv /\ [SessionNext]_sessionVars => [Next]_vars
  BY StepImplements
<1> QED
  BY <1>1, <1>2, LedgerInvariant, PTL DEF SessionSpec, ImplementsBudget, Spec

\* Leases, cache, ledger and authority agree whenever the gate is free.
THEOREM BooksAlwaysAgree == SessionSpec => []BooksAgree
<1>1. LedgerInv => BooksAgree
  BY DEF LedgerInv, SessionBooks, BooksAgree, LedgerTypes
<1> QED
  BY <1>1, LedgerInvariant, PTL

\* What bound sessions really hold fits the cap with the pinned blocks.
THEOREM HeldAlwaysFits == SessionSpec => []HeldWithinCap
<1>1. LedgerInv => HeldWithinCap
  BY HeldFits
<1> QED
  BY <1>1, LedgerInvariant, PTL

\* A ledger is poisoned only after a panic: the drop of a lease always finds
\* it in the books, and the authority never refuses the smaller charge.
THEOREM OnlyPanicsPoison == SessionSpec => []PoisonedOnlyByPanic
<1>1. LedgerInv => PoisonedOnlyByPanic
  BY DEF LedgerInv
<1> QED
  BY <1>1, LedgerInvariant, PTL
=============================================================================
