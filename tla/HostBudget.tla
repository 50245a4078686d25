----------------------------- MODULE HostBudget -----------------------------
(***************************************************************************)
(* The context-wide host-memory authority of the CUDA runtime              *)
(* (j2k-cuda-runtime/src/context/host_budget.rs).  Decoder sessions        *)
(* register what they keep in host memory as external owners, the pinned   *)
(* upload pool charges page-locked blocks, and an owner that is about to   *)
(* replace part of its memory first reserves all free headroom so that no  *)
(* competitor can take it between the allocation and its registration.     *)
(*                                                                         *)
(* Every operation holds the authority's mutex from its first read to its  *)
(* last write, so it is one step.  A reservation borrows its owner         *)
(* mutably: between reserve_replacement and commit (or drop) no other      *)
(* operation of that owner can run, while all other owners can.            *)
(*                                                                         *)
(* Every checked_add of the code refuses exactly when the sum exceeds      *)
(* usize::MAX, hence also exceeds Cap, and changes nothing, as the         *)
(* comparison with Cap does: one test stands for both.                     *)
(***************************************************************************)
EXTENDS ByteTotals

CONSTANTS
    Owners,     \* the external owners that sessions can register
    Blocks,     \* the page-locked blocks the pinned pool can charge
    Cap,        \* DEFAULT_MAX_HOST_ALLOCATION_BYTES
    Bytes       \* the byte counts that callers ask for

ASSUME BudgetAssumption ==
    /\ IsFiniteSet(Owners)
    /\ IsFiniteSet(Blocks)
    /\ Cap \in Nat \ {0}
    /\ Bytes \subseteq Nat

VARIABLES
    auth,         \* HostBudgetState, behind the mutex
    registered,   \* the owners that exist
    bytes,        \* CudaExternalHostOwner.bytes of each owner, 0 if none
    open,         \* the owners with a live CudaExternalHostReservation
    reserved,     \* reserved_bytes of each live reservation, 0 if none
    excluded,     \* the part of its charge the transaction replaces
    working,      \* what the transaction keeps in place of that part
    pin,          \* the charge of each page-locked block, 0 if none
    context       \* the CUDA context is "live" until it is torn down

vars == <<auth, registered, bytes, open, reserved, excluded, working, pin,
          context>>

HostBudgetState ==
    [external : Nat, pinned : Nat, provisional : Nat, peak : Nat,
     poisoned : BOOLEAN]

NewBudget ==
    [external |-> 0, pinned |-> 0, provisional |-> 0, peak |-> 0,
     poisoned |-> FALSE]

-----------------------------------------------------------------------------
(* What one locked call does to the state, and whether it returns Ok.      *)

Max2(m, n) == IF m >= n THEN m ELSE n

Poisoned(a) == [a EXCEPT !.poisoned = TRUE]

Admitted(a) == a.external + a.pinned + a.provisional

\* Mutants: the total before the change is tested; provisional headroom of
\* open transactions is not counted.
MutTestOldTotal(a, old, new) == Admitted(a) <= Cap

MutIgnoreProvisional(a, old, new) ==
    (a.external - old) + new + a.pinned <= Cap

\* The test of reconcile_external: the whole new total must fit the cap.
ReconcileFits(a, old, new) ==
    (a.external - old) + new + a.pinned + a.provisional <= Cap

\* lock() refuses every caller once the state is poisoned.
ReconcileOk(a, old, new) ==
    /\ ~a.poisoned
    /\ old <= a.external
    /\ ReconcileFits(a, old, new)

ReconcileExternal(a, old, new) ==
    IF a.poisoned THEN a
    ELSE IF a.external < old THEN Poisoned(a)
    ELSE IF ~ReconcileFits(a, old, new) THEN a
    ELSE [a EXCEPT !.external = (a.external - old) + new,
                   !.peak = Max2(a.peak, (a.external - old) + new + a.pinned)]

ReservePinnedOk(a, n) ==
    /\ ~a.poisoned
    /\ a.external + a.pinned + n + a.provisional <= Cap

ReservePinnedBytes(a, n) ==
    IF ReservePinnedOk(a, n)
    THEN [a EXCEPT !.pinned = a.pinned + n,
                   !.peak = Max2(a.peak, a.external + a.pinned + n)]
    ELSE a

ReleasePinnedBytes(a, n) ==
    IF a.poisoned THEN a
    ELSE IF a.pinned < n THEN Poisoned(a)
    ELSE [a EXCEPT !.pinned = a.pinned - n]

ReleaseReservation(a, n) ==
    IF a.poisoned THEN a
    ELSE IF a.provisional < n THEN Poisoned(a)
    ELSE [a EXCEPT !.provisional = a.provisional - n]

\* Mutant: headroom that another transaction holds is reserved again.
MutReservedHeadroom(a) == Cap - (a.external + a.pinned)

ReservedHeadroom(a) == Cap - Admitted(a)

-----------------------------------------------------------------------------
Init ==
    /\ auth = NewBudget
    /\ registered = {}
    /\ bytes = [o \in Owners |-> 0]
    /\ open = {}
    /\ reserved = [o \in Owners |-> 0]
    /\ excluded = [o \in Owners |-> 0]
    /\ working = [o \in Owners |-> 0]
    /\ pin = [b \in Blocks |-> 0]
    /\ context = "live"

\* register_external_owner: a refused charge creates no owner.
RegisterExternalOwner(o, n) ==
    /\ context = "live"
    /\ o \notin registered
    /\ auth' = ReconcileExternal(auth, 0, n)
    /\ IF ReconcileOk(auth, 0, n)
       THEN /\ registered' = registered \cup {o}
            /\ bytes' = [bytes EXCEPT ![o] = n]
       ELSE UNCHANGED <<registered, bytes>>
    /\ UNCHANGED <<open, reserved, excluded, working, pin, context>>

\* CudaExternalHostOwner::reconcile
Reconcile(o, n) ==
    /\ o \in registered \ open
    /\ auth' = ReconcileExternal(auth, bytes[o], n)
    /\ bytes' = IF ReconcileOk(auth, bytes[o], n)
                THEN [bytes EXCEPT ![o] = n] ELSE bytes
    /\ UNCHANGED <<registered, open, reserved, excluded, working, pin,
                   context>>

\* reserve_replacement takes all headroom that is left, which may be none.
ReserveReplacement(o, ex) ==
    /\ o \in registered \ open
    /\ ex <= bytes[o]
    /\ ~auth.poisoned
    /\ auth' = [auth EXCEPT !.provisional = @ + ReservedHeadroom(auth)]
    /\ open' = open \cup {o}
    /\ reserved' = [reserved EXCEPT ![o] = ReservedHeadroom(auth)]
    /\ excluded' = [excluded EXCEPT ![o] = ex]
    /\ working' = [working EXCEPT ![o] = ex]
    /\ UNCHANGED <<registered, bytes, pin, context>>

\* The caller's allocation work, outside the mutex.  It is told
\* external_live_bytes and keeps external_live_bytes + n within the cap; at
\* the reservation that was Cap - reserved - excluded.
Allocate(o, n) ==
    /\ o \in open
    /\ (Cap - reserved[o] - excluded[o]) + n <= Cap
    /\ working' = [working EXCEPT ![o] = n]
    /\ UNCHANGED <<auth, registered, bytes, open, reserved, excluded, pin,
                   context>>

\* The reservation goes out of scope.
CloseReservation(o) ==
    /\ open' = open \ {o}
    /\ reserved' = [reserved EXCEPT ![o] = 0]
    /\ excluded' = [excluded EXCEPT ![o] = 0]
    /\ working' = [working EXCEPT ![o] = 0]

\* Mutant: the charge is replaced before the headroom is given back.
MutCommit(o, n) ==
    LET reconciled == ReconcileExternal(auth, bytes[o], n) IN
    /\ o \in open
    /\ auth' = ReleaseReservation(reconciled, reserved[o])
    /\ bytes' = IF ReconcileOk(auth, bytes[o], n)
                THEN [bytes EXCEPT ![o] = n] ELSE bytes
    /\ CloseReservation(o)
    /\ UNCHANGED <<registered, pin, context>>

\* commit first gives the headroom back, then replaces the charge; when the
\* replacement is refused the headroom stays released and the old charge
\* stays registered.
Commit(o, n) ==
    LET released == ReleaseReservation(auth, reserved[o]) IN
    /\ o \in open
    /\ auth' = IF released.poisoned THEN released
               ELSE ReconcileExternal(released, bytes[o], n)
    /\ bytes' = IF ReconcileOk(released, bytes[o], n)
                THEN [bytes EXCEPT ![o] = n] ELSE bytes
    /\ CloseReservation(o)
    /\ UNCHANGED <<registered, pin, context>>

\* Mutant: a dropped transaction keeps its headroom.
MutDropReservation(o) ==
    /\ o \in open
    /\ CloseReservation(o)
    /\ UNCHANGED <<auth, registered, bytes, pin, context>>

\* Drop of an uncommitted reservation: an early return or a panic of the
\* caller's allocation work.
DropReservation(o) ==
    /\ o \in open
    /\ auth' = ReleaseReservation(auth, reserved[o])
    /\ CloseReservation(o)
    /\ UNCHANGED <<registered, bytes, pin, context>>

\* Drop of an owner; a refused release poisons the authority.
DropOwner(o) ==
    /\ o \in registered \ open
    /\ auth' = IF auth.poisoned \/ ReconcileOk(auth, bytes[o], 0)
               THEN ReconcileExternal(auth, bytes[o], 0) ELSE Poisoned(auth)
    /\ registered' = registered \ {o}
    /\ bytes' = [bytes EXCEPT ![o] = 0]
    /\ UNCHANGED <<open, reserved, excluded, working, pin, context>>

ReservePinned(b, n) ==
    /\ context = "live"
    /\ pin[b] = 0
    /\ auth' = ReservePinnedBytes(auth, n)
    /\ pin' = IF ReservePinnedOk(auth, n) THEN [pin EXCEPT ![b] = n] ELSE pin
    /\ UNCHANGED <<registered, bytes, open, reserved, excluded, working,
                   context>>

ReleasePinned(b) ==
    /\ context = "live"
    /\ pin[b] > 0
    /\ auth' = ReleasePinnedBytes(auth, pin[b])
    /\ pin' = [pin EXCEPT ![b] = 0]
    /\ UNCHANGED <<registered, bytes, open, reserved, excluded, working,
                   context>>

\* clear_pinned_after_context_drop: the driver freed every block with the
\* context; owners and reservations outlive it.
ClearPinnedAfterContextDrop ==
    /\ context = "live"
    /\ context' = "dropped"
    /\ auth' = [auth EXCEPT !.pinned = 0]
    /\ pin' = [b \in Blocks |-> 0]
    /\ UNCHANGED <<registered, bytes, open, reserved, excluded, working>>

Next ==
    \/ \E o \in Owners, n \in Bytes :
          \/ RegisterExternalOwner(o, n)
          \/ Reconcile(o, n)
          \/ ReserveReplacement(o, n)
          \/ Allocate(o, n)
          \/ Commit(o, n)
    \/ \E o \in Owners : DropReservation(o) \/ DropOwner(o)
    \/ \E b \in Blocks, n \in Bytes \ {0} : ReservePinned(b, n)
    \/ \E b \in Blocks : ReleasePinned(b)
    \/ ClearPinnedAfterContextDrop

Spec == Init /\ [][Next]_vars

-----------------------------------------------------------------------------
TypeOK ==
    /\ auth \in HostBudgetState
    /\ registered \subseteq Owners
    /\ bytes \in [Owners -> 0..Cap]
    /\ open \subseteq registered
    /\ reserved \in [Owners -> 0..Cap]
    /\ excluded \in [Owners -> 0..Cap]
    /\ working \in [Owners -> Nat]
    /\ pin \in [Blocks -> 0..Cap]
    /\ context \in {"live", "dropped"}

\* The three counters of the authority are exactly the sums of what its
\* clients hold, whatever the order in which they register, reserve, commit,
\* give up and drop.  This is what makes the subtractions of
\* host_budget.rs never underflow, so that the authority is never poisoned.
ExactCharges ==
    /\ ~auth.poisoned
    /\ auth.external = Total(bytes, Cap)
    /\ auth.provisional = Total(reserved, Cap)
    /\ auth.pinned = Total(pin, Cap)

\* Everything promised to somebody fits the cap: no interleaving of
\* reservations, refused commits and pinned charges oversubscribes it, and
\* the recorded peak lies between what is charged now and the cap.
WithinCap ==
    /\ Admitted(auth) <= Cap
    /\ auth.external + auth.pinned <= auth.peak
    /\ auth.peak <= Cap

\* What open transactions hold beyond their owners' registered charges.
Unregistered ==
    [o \in Owners |-> IF working[o] > excluded[o]
                      THEN working[o] - excluded[o] ELSE 0]

\* Memory that transactions have allocated and not yet registered, on top of
\* everything registered, fits the cap as well: the allocation an owner makes
\* between reserve_replacement and commit is covered by its reservation even
\* while other owners and pinned uploads grow.
UncommittedWithinCap ==
    auth.external + auth.pinned + Total(Unregistered, Cap) <= Cap

\* A transaction that kept to the bytes it was told it had is never refused
\* when it commits, whatever its competitors did since it reserved.
CommitHonoured ==
    [][\A o \in open, n \in Bytes :
          Commit(o, n) /\ n <= (bytes[o] - excluded[o]) + working[o]
          => bytes'[o] = n]_vars

\* Per owner: no charge without registration, nothing reserved without an
\* open transaction, and a transaction that neither replaces more than its
\* owner is charged nor holds more than it may.
OwnerBooks ==
    \A o \in Owners :
        /\ o \notin registered => bytes[o] = 0
        /\ o \notin open => reserved[o] = 0 /\ excluded[o] = 0 /\ working[o] = 0
        /\ excluded[o] <= bytes[o]
        /\ working[o] <= excluded[o] + reserved[o]

\* The inductive strengthening of the safety invariants.
BudgetInv == TypeOK /\ ExactCharges /\ WithinCap /\ OwnerBooks
=============================================================================
