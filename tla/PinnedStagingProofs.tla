------------------------- MODULE PinnedStagingProofs -------------------------
(***************************************************************************)
(* Proofs about the page-locked staging pool.                              *)
(*                                                                         *)
(* Every step of the composition is a step of the authority or leaves it   *)
(* alone (StepImplements), so the authority's own inductive invariant, its *)
(* exact charges included, holds here as well.  StagingInv adds where each *)
(* block is, which part of the operation carries it, and that the pool's   *)
(* four counters are the sums they stand for; that makes the subtractions  *)
(* of finish_active_checkout succeed, and the prepared slots suffice.      *)
(***************************************************************************)
EXTENDS PinnedStaging, HostBudgetProofs

\* The steps of an operation at which it carries a block of its own, and
\* those at which that block still counts as checked out.
Counted == {"allocate", "finish", "admit", "evicted", "unpinVictim", "release"}
Carrying == Counted \cup {"unpin"}
Evicting == {"evicted", "unpinVictim"}

StagingTypes ==
    /\ cached \subseteq Blocks /\ uncertain \subseteq Blocks
    /\ checkouts \subseteq Blocks /\ alive \subseteq Blocks
    /\ dma \subseteq Blocks
    /\ job \in Blocks \cup {NoBlock} /\ victim \in Blocks \cup {NoBlock}
    /\ slots \in Nat
    /\ lifecycle \in {"ok", "quarantined"}
    /\ pc \in {"idle", "open", "take"} \cup Carrying

\* What the position of the operation says about the rest.
Position ==
    /\ pc # "idle" => context = "live"
    /\ pc = "idle" => checkouts = {}
    /\ job # NoBlock <=> pc \in Carrying
    /\ victim # NoBlock <=> pc \in Evicting
    /\ pc = "take" => request \in Bytes \ {0} /\ dma = {}
    /\ pc = "evicted" => uncertain = {}
    /\ lifecycle = "ok" => dma = {}

Pooled(b) == b \in cached \/ b \in uncertain \/ b \in checkouts

\* A block is charged while it is in one of the three lists or carried; it
\* is in one place only, and it is freed before its charge is given back.
Placement ==
    /\ \A b \in Blocks :
          /\ pin[b] > 0 <=> Pooled(b) \/ b = job \/ b = victim
          /\ ~(b \in cached /\ b \in uncertain)
          /\ ~(b \in cached /\ b \in checkouts)
          /\ ~(b \in uncertain /\ b \in checkouts)
          /\ b \in alive => pin[b] > 0
    /\ ~Pooled(job) /\ ~Pooled(victim)
    /\ job = victim => job = NoBlock
    /\ pc \in {"allocate", "finish", "unpin"} => job \notin alive
    /\ pc = "unpinVictim" => victim \notin alive

\* The checked-out blocks, the one being recycled included.
Active == checkouts \cup {b \in Blocks : b = job /\ pc \in Counted}

Charge(S, p) == Total([b \in Blocks |-> IF b \in S THEN p[b] ELSE 0], Cap)

\* The counters of the pool are what they stand for.
PoolBooks ==
    /\ cachedBytes = Charge(cached, pin)
    /\ uncertainBytes = Charge(uncertain, pin)
    /\ activeBytes = Charge(Active, pin)
    /\ activeBuffers = Cardinality(Active)

\* What the operation is about to give back, and the pool no longer counts.
Returning ==
    IF pc = "unpin" THEN pin[job]
    ELSE IF pc \in Evicting THEN pin[victim] ELSE 0

\* The authority is charged for the pool and for that.
Booked == auth.pinned = RetainedBytes + Returning

\* A slot for every checked-out block, and one for an evicted block as long
\* as nothing is quarantined.
SlotsSuffice ==
    /\ Cardinality(uncertain) + activeBuffers <= slots
    /\ uncertain = {} /\ activeBuffers > 0 => activeBuffers + 1 <= slots

\* The inductive invariant of the composition.
StagingInv ==
    /\ BudgetInv
    /\ StagingTypes
    /\ NeverUntracked
    /\ Position
    /\ Placement
    /\ PoolBooks
    /\ Booked
    /\ SlotsSuffice

-----------------------------------------------------------------------------
(* Sums over lists of blocks                                               *)

\* A sum is a natural number and covers each of its blocks.
LEMMA ChargeBounds ==
    ASSUME NEW S \in SUBSET Blocks, NEW p \in [Blocks -> 0..Cap]
    PROVE  /\ Charge(S, p) \in Nat
           /\ \A b \in S : p[b] \in Nat /\ p[b] <= Charge(S, p)
<1> DEFINE f == [c \in Blocks |-> IF c \in S THEN p[c] ELSE 0]
<1>1. IsFiniteSet(Blocks) /\ Cap \in Nat
  BY BudgetAssumption
<1>2. f \in [Blocks -> 0..Cap] /\ f \in [Blocks -> Nat]
  BY <1>1
<1>3. \A b \in S : f[b] = p[b] /\ b \in Blocks /\ p[b] \in Nat
  BY <1>1
<1>4. Charge(S, p) = Total(f, Cap)
  BY DEF Charge
<1> HIDE DEF f
<1>5. Total(f, Cap) \in Nat
  BY <1>1, <1>2, TotalType
<1>6. \A b \in Blocks : f[b] <= Total(f, Cap)
  BY <1>1, <1>2, TotalBounds
<1> QED
  BY <1>3, <1>4, <1>5, <1>6

\* A block that joins a list adds the charge it then has,
LEMMA ChargeJoins ==
    ASSUME NEW S \in SUBSET Blocks, NEW p \in [Blocks -> 0..Cap],
           NEW q \in [Blocks -> 0..Cap], NEW b \in Blocks, b \notin S,
           \A c \in Blocks \ {b} : q[c] = p[c]
    PROVE  Charge(S \cup {b}, q) = Charge(S, p) + q[b]
<1> DEFINE f == [c \in Blocks |-> IF c \in S THEN p[c] ELSE 0]
<1> DEFINE g == [c \in Blocks |-> IF c \in S \cup {b} THEN q[c] ELSE 0]
<1>1. IsFiniteSet(Blocks) /\ Cap \in Nat /\ q[b] \in Nat
  BY BudgetAssumption
<1>2. f \in [Blocks -> 0..Cap] /\ g \in [Blocks -> 0..Cap]
  BY <1>1
<1>3. \A c \in Blocks \ {b} : g[c] = f[c]
  OBVIOUS
<1>4. f[b] = 0 /\ g[b] = q[b]
  OBVIOUS
<1>5. Charge(S, p) = Total(f, Cap) /\ Charge(S \cup {b}, q) = Total(g, Cap)
  BY DEF Charge
<1> HIDE DEF f, g
<1>6. Total(g, Cap) = (Total(f, Cap) - f[b]) + g[b]
  BY <1>1, <1>2, <1>3, TotalUpdate
<1>7. Charge(S, p) \in Nat
  BY ChargeBounds
<1> QED
  BY <1>1, <1>4, <1>5, <1>6, <1>7

\* and one that leaves it takes its charge along.
LEMMA ChargeLeaves ==
    ASSUME NEW S \in SUBSET Blocks, NEW p \in [Blocks -> 0..Cap], NEW b \in S
    PROVE  Charge(S \ {b}, p) = Charge(S, p) - p[b]
<1> DEFINE R == S \ {b}
<1>1. /\ R \in SUBSET Blocks /\ b \notin R /\ S = R \cup {b}
      /\ b \in Blocks /\ Cap \in Nat /\ p[b] \in Nat
      /\ \A c \in Blocks \ {b} : p[c] = p[c]
  BY BudgetAssumption
<1> HIDE DEF R
<1>2. Charge(R \cup {b}, p) = Charge(R, p) + p[b]
  BY <1>1, ChargeJoins
<1>3. Charge(R, p) \in Nat
  BY <1>1, ChargeBounds
<1>4. Charge(R, p) = Charge(S, p) - p[b]
  BY <1>1, <1>2, <1>3
<1> QED
  BY <1>4 DEF R

\* An empty list, and a list of blocks without charge, sum to nothing.
LEMMA ChargeNothing ==
    ASSUME NEW S, NEW p, S = {} \/ p = [b \in Blocks |-> 0]
    PROVE  Charge(S, p) = 0
<1> DEFINE f == [c \in Blocks |-> IF c \in S THEN p[c] ELSE 0]
<1>1. f \in [Blocks -> {0}] /\ Cap \in Nat
  BY BudgetAssumption
<1> QED
  BY <1>1, TotalZero DEF Charge

\* Changing the charge of a block outside the list changes nothing.
LEMMA ChargeElsewhere ==
    ASSUME NEW S, NEW p, NEW q, \A b \in S : q[b] = p[b]
    PROVE  Charge(S, q) = Charge(S, p)
<1>1. [c \in Blocks |-> IF c \in S THEN q[c] ELSE 0]
        = [c \in Blocks |-> IF c \in S THEN p[c] ELSE 0]
  OBVIOUS
<1> QED
  BY <1>1 DEF Charge

\* What the invariant says about the counters.
LEMMA Counters ==
    ASSUME StagingInv
    PROVE  /\ Active \in SUBSET Blocks /\ IsFiniteSet(Active)
           /\ IsFiniteSet(uncertain)
           /\ pin \in [Blocks -> 0..Cap] /\ Cap \in Nat
           /\ cachedBytes \in Nat /\ uncertainBytes \in Nat
           /\ activeBytes \in Nat /\ activeBuffers \in Nat
           /\ Cardinality(uncertain) \in Nat
           /\ auth.pinned \in Nat
           /\ \A b \in Active : pin[b] <= activeBytes /\ activeBuffers > 0
           /\ \A b \in cached : pin[b] <= cachedBytes
<1>1. Active \in SUBSET Blocks /\ cached \in SUBSET Blocks
      /\ uncertain \in SUBSET Blocks
  BY DEF StagingInv, StagingTypes, Active
<1>2. pin \in [Blocks -> 0..Cap] /\ Cap \in Nat /\ IsFiniteSet(Blocks)
      /\ auth.pinned \in Nat
  BY BudgetAssumption DEF StagingInv, BudgetInv, TypeOK, HostBudgetState
<1>3. IsFiniteSet(Active) /\ IsFiniteSet(uncertain)
  BY <1>1, <1>2, FS_Subset
<1>4. Cardinality(Active) \in Nat /\ Cardinality(uncertain) \in Nat
  BY <1>3, FS_CardinalityType
<1>5. Cardinality(Active) = 0 => Active = {}
  BY <1>3, FS_EmptySet
<1>6. PoolBooks
  BY DEF StagingInv
<1>7. \A b \in Active : activeBuffers > 0
  BY <1>4, <1>5, <1>6 DEF PoolBooks
<1> HIDE DEF Active
<1>8. /\ Charge(Active, pin) \in Nat
      /\ \A b \in Active : pin[b] <= Charge(Active, pin)
  BY <1>1, <1>2, ChargeBounds
<1>9. /\ Charge(cached, pin) \in Nat
      /\ \A b \in cached : pin[b] <= Charge(cached, pin)
  BY <1>1, <1>2, ChargeBounds
<1>10. Charge(uncertain, pin) \in Nat
  BY <1>1, <1>2, ChargeBounds
<1> QED
  BY <1>1, <1>2, <1>3, <1>4, <1>6, <1>7, <1>8, <1>9, <1>10 DEF PoolBooks

\* Every block the operation carries is charged.
LEMMA Carried ==
    ASSUME StagingInv
    PROVE  /\ pc \in Carrying => job \in Blocks /\ pin[job] > 0
           /\ pc \in Counted => job \in Active
           /\ pc \in Evicting => victim \in Blocks /\ pin[victim] > 0
           /\ pc # "idle" => context = "live"
  BY DEF StagingInv, StagingTypes, Position, Placement, Active, Carrying

-----------------------------------------------------------------------------
(* The refinement                                                          *)

\* At the two ends of a call the pool and the authority agree.
LEMMA Agree == ASSUME StagingInv PROVE TotalsAgree
<1>1. pc \in {"idle", "open", "take"} => auth.pinned = RetainedBytes
  BY Counters DEF StagingInv, Booked, Returning, RetainedBytes, Evicting
<1>2. ASSUME pc = "take", ReservePinnedOk(auth, request) PROVE GrowthFits
  <2>1. /\ auth.pinned = cachedBytes + uncertainBytes + activeBytes
        /\ auth.external + auth.pinned + request + auth.provisional <= Cap
    BY <1>1, <1>2 DEF ReservePinnedOk, RetainedBytes
  <2>2. auth.external \in Nat /\ auth.provisional \in Nat /\ request \in Nat
    BY <1>2, BudgetAssumption
       DEF StagingInv, BudgetInv, TypeOK, HostBudgetState, Position
  <2> QED
    BY <2>1, <2>2, Counters DEF GrowthFits
<1> QED
  BY <1>1, <1>2 DEF TotalsAgree

\* Every step of the composition is a step of the authority, or none.
LEMMA StepImplements ==
    ASSUME StagingInv, [StagingNext]_stagingVars
    PROVE  [Next]_vars
<1>1. ASSUME UNCHANGED budgetVars PROVE [Next]_vars
  BY <1>1 DEF budgetVars, ownerVars, vars
<1>2. ASSUME UNCHANGED stagingVars PROVE [Next]_vars
  BY <1>2 DEF stagingVars, vars
<1>3. /\ BeginOperation => [Next]_vars
      /\ EndOperation => [Next]_vars
      /\ TakeRefused => [Next]_vars
      /\ TakeCached => [Next]_vars
      /\ HostAlloc => [Next]_vars
      /\ HostAllocFails => [Next]_vars
      /\ FinishJob => [Next]_vars
      /\ Admit => [Next]_vars
      /\ AdmitInstead => [Next]_vars
      /\ Evict => [Next]_vars
      /\ ReleaseActive => [Next]_vars
      /\ ReleaseActiveFails => [Next]_vars
      /\ ReleaseVictim => [Next]_vars
      /\ ReleaseVictimFails => [Next]_vars
      /\ PeerQuarantines => [Next]_vars
      /\ (\E n \in Bytes : TakeCheck(n)) => [Next]_vars
      /\ (\E b \in Blocks : UploadFails(b)) => [Next]_vars
      /\ (\E b \in Blocks : Recycle(b)) => [Next]_vars
      /\ (\E b \in Blocks : AbandonCheckout(b)) => [Next]_vars
  BY <1>1 DEF BeginOperation, EndOperation, TakeRefused, TakeCached,
     HostAlloc, HostAllocFails, FinishJob, Admit, AdmitInstead, Evict,
     ReleaseActive, ReleaseActiveFails, ReleaseVictim, ReleaseVictimFails,
     PeerQuarantines, TakeCheck, UploadFails, Recycle, AbandonCheckout
<1>4. ASSUME NEW b \in Blocks, Grow(b) PROVE [Next]_vars
  <2>1. CASE ReservePinnedOk(auth, request)
    <3>1. GrowthFits
      BY <1>4, <2>1, Agree DEF TotalsAgree, Grow
    <3>2. context = "live" /\ request \in Bytes \ {0}
      BY <1>4 DEF StagingInv, Position, Grow
    <3>3. ReservePinned(b, request)
      BY <1>4, <2>1, <3>1, <3>2 DEF Grow, ReservePinned, ownerVars
    <3> QED
      BY <3>2, <3>3 DEF Next
  <2>2. CASE ~ReservePinnedOk(auth, request)
    BY <1>4, <2>2 DEF Grow, ownerVars, vars
  <2> QED
    BY <2>1, <2>2
<1>5. ASSUME Unpin PROVE [Next]_vars
  <2>1. job \in Blocks /\ pin[job] > 0 /\ context = "live"
    BY <1>5, Carried DEF Unpin, Carrying
  <2>2. ReleasePinned(job)
    BY <1>5, <2>1 DEF Unpin, ReleasePinned, ownerVars
  <2> QED
    BY <2>1, <2>2 DEF Next
<1>6. ASSUME UnpinVictim PROVE [Next]_vars
  <2>1. victim \in Blocks /\ pin[victim] > 0 /\ context = "live"
    BY <1>6, Carried DEF UnpinVictim, Evicting
  <2>2. ReleasePinned(victim)
    BY <1>6, <2>1 DEF UnpinVictim, ReleasePinned, ownerVars
  <2> QED
    BY <2>1, <2>2 DEF Next
<1>7. ASSUME VerifyHostBudget PROVE [Next]_vars
  <2>1. auth.pinned = RetainedBytes
    BY <1>7, Agree DEF TotalsAgree, VerifyHostBudget
  <2> QED
    BY <1>7, <2>1 DEF VerifyHostBudget, ownerVars, vars
<1>8. ASSUME DropContext PROVE [Next]_vars
  BY <1>8 DEF DropContext, Next
<1>9. ASSUME OwnerStep PROVE [Next]_vars
  BY <1>9 DEF OwnerStep, Next
<1> QED
  BY <1>2, <1>3, <1>4, <1>5, <1>6, <1>7, <1>8, <1>9 DEF StagingNext

\* What a step does to the pinned charge of the authority.
LEMMA PinnedMoves ==
    ASSUME StagingInv, BudgetInv', NEW b \in Blocks, NEW n \in 0..Cap,
           pin' = [pin EXCEPT ![b] = n]
    PROVE  auth'.pinned = (auth.pinned - pin[b]) + n
<1>1. BudgetInv /\ pin \in [Blocks -> 0..Cap] /\ pin' \in [Blocks -> 0..Cap]
  BY DEF StagingInv, BudgetInv, TypeOK
<1>2. /\ \A c \in Blocks \ {b} : pin'[c] = pin[c]
      /\ pin'[b] = n
  BY <1>1
<1>3. Total(pin', Cap) = (auth.pinned - pin[b]) + pin'[b]
  BY <1>1, <1>2, AdjustPinned
<1> QED
  BY <1>2, <1>3 DEF BudgetInv, ExactCharges

\* A step that charges no block leaves it alone.
LEMMA PinnedKept ==
    ASSUME StagingInv, BudgetInv', UNCHANGED pin
    PROVE  auth'.pinned = auth.pinned
  BY DEF StagingInv, BudgetInv, ExactCharges

-----------------------------------------------------------------------------
(* One step of the composition                                             *)

\* A step that moves nothing between the lists.
LEMMA BooksKept ==
    ASSUME StagingInv, BudgetInv',
           UNCHANGED <<pin, cached, cachedBytes, uncertain, uncertainBytes,
                       slots, activeBuffers, activeBytes>>,
           Active' = Active, Returning' = Returning
    PROVE  PoolBooks' /\ Booked' /\ SlotsSuffice'
<1>1. auth'.pinned = auth.pinned
  BY PinnedKept
<1>2. PoolBooks'
  BY DEF StagingInv, PoolBooks
<1>3. Booked'
  BY <1>1 DEF StagingInv, Booked, RetainedBytes
<1>4. SlotsSuffice'
  BY DEF StagingInv, SlotsSuffice
<1> QED
  BY <1>2, <1>3, <1>4

\* A block leaves the checked-out ones.
LEMMA ActiveLoses ==
    ASSUME StagingInv, BudgetInv', NEW b \in Active, UNCHANGED pin,
           Active' = Active \ {b}
    PROVE  /\ Charge(Active, pin)' = activeBytes - pin[b]
           /\ Cardinality(Active)' = activeBuffers - 1
<1>1. /\ Active \in SUBSET Blocks /\ IsFiniteSet(Active) /\ b \in Blocks
      /\ pin \in [Blocks -> 0..Cap] /\ pin' \in [Blocks -> 0..Cap]
      /\ activeBytes = Charge(Active, pin)
      /\ activeBuffers = Cardinality(Active)
      /\ pin[b] \in 0..Cap /\ Cap \in Nat /\ activeBytes \in Nat
  BY Counters DEF StagingInv, PoolBooks
<1> HIDE DEF Active
<1>2. Cardinality(Active \ {b}) = Cardinality(Active) - 1
  BY <1>1, FS_RemoveElement
<1>3. Charge(Active \ {b}, pin) = Charge(Active, pin) - pin[b]
  BY <1>1, ChargeLeaves
<1> QED
  BY <1>1, <1>2, <1>3

\* A block joins the checked-out ones with the charge it then has.
LEMMA ActiveGains ==
    ASSUME StagingInv, BudgetInv', NEW b \in Blocks, b \notin Active,
           \A c \in Blocks \ {b} : pin'[c] = pin[c],
           Active' = Active \cup {b}
    PROVE  /\ Charge(Active, pin)' = activeBytes + pin'[b]
           /\ Cardinality(Active)' = activeBuffers + 1
<1>1. /\ Active \in SUBSET Blocks /\ IsFiniteSet(Active)
      /\ pin \in [Blocks -> 0..Cap] /\ pin' \in [Blocks -> 0..Cap]
      /\ activeBytes = Charge(Active, pin)
      /\ activeBuffers = Cardinality(Active)
      /\ pin'[b] \in 0..Cap /\ Cap \in Nat /\ activeBytes \in Nat
  BY Counters DEF StagingInv, PoolBooks, BudgetInv, TypeOK
<1> HIDE DEF Active
<1>2. Cardinality(Active \cup {b}) = Cardinality(Active) + 1
  BY <1>1, FS_AddElement
<1>3. Charge(Active \cup {b}, pin') = Charge(Active, pin) + pin'[b]
  BY <1>1, ChargeJoins
<1> QED
  BY <1>1, <1>2, <1>3

\* A block joins or leaves the cache.
LEMMA CacheMoves ==
    ASSUME StagingInv, NEW b \in Blocks, UNCHANGED pin,
           \/ b \in cached /\ cached' = cached \ {b}
              /\ cachedBytes' = cachedBytes - pin[b]
           \/ b \notin cached /\ cached' = cached \cup {b}
              /\ cachedBytes' = cachedBytes + pin[b]
    PROVE  cachedBytes' = Charge(cached, pin)'
<1>1. /\ cached \in SUBSET Blocks /\ cached' \in SUBSET Blocks
      /\ pin \in [Blocks -> 0..Cap] /\ pin' \in [Blocks -> 0..Cap]
      /\ cachedBytes = Charge(cached, pin)
      /\ pin[b] \in 0..Cap /\ Cap \in Nat /\ cachedBytes \in Nat
  BY Counters DEF StagingInv, PoolBooks, StagingTypes
<1>2. CASE b \in cached
  <2>1. Charge(cached \ {b}, pin) = Charge(cached, pin) - pin[b]
    BY <1>1, <1>2, ChargeLeaves
  <2> QED
    BY <1>1, <1>2, <2>1
<1>3. CASE b \notin cached
  <2>1. Charge(cached \cup {b}, pin) = Charge(cached, pin) + pin[b]
    BY <1>1, <1>3, ChargeJoins
  <2> QED
    BY <1>1, <1>3, <2>1
<1> QED
  BY <1>2, <1>3

\* A block joins the quarantined ones.
LEMMA QuarantineGains ==
    ASSUME StagingInv, NEW b \in Blocks, UNCHANGED pin, b \notin uncertain,
           uncertain' = uncertain \cup {b},
           uncertainBytes' = uncertainBytes + pin[b]
    PROVE  /\ uncertainBytes' = Charge(uncertain, pin)'
           /\ Cardinality(uncertain)' = Cardinality(uncertain) + 1
<1>1. /\ uncertain \in SUBSET Blocks /\ uncertain' \in SUBSET Blocks
      /\ IsFiniteSet(uncertain)
      /\ pin \in [Blocks -> 0..Cap] /\ pin' \in [Blocks -> 0..Cap]
      /\ uncertainBytes = Charge(uncertain, pin)
      /\ pin[b] \in 0..Cap /\ Cap \in Nat /\ uncertainBytes \in Nat
  BY Counters DEF StagingInv, PoolBooks, StagingTypes
<1>2. Charge(uncertain \cup {b}, pin) = Charge(uncertain, pin) + pin[b]
  BY <1>1, ChargeJoins
<1>3. Cardinality(uncertain \cup {b}) = Cardinality(uncertain) + 1
  BY <1>1, FS_AddElement
<1> QED
  BY <1>1, <1>2, <1>3

\* The charge of a block that is in no list changes.
LEMMA ListsKept ==
    ASSUME StagingInv, BudgetInv', UNCHANGED <<cached, uncertain>>,
           NEW b \in Blocks, \A c \in Blocks \ {b} : pin'[c] = pin[c],
           b \notin cached, b \notin uncertain
    PROVE  /\ cachedBytes = Charge(cached, pin)'
           /\ uncertainBytes = Charge(uncertain, pin)'
<1>1. /\ \A c \in cached : pin'[c] = pin[c]
      /\ \A c \in uncertain : pin'[c] = pin[c]
  BY DEF StagingInv, StagingTypes
<1>2. Charge(cached, pin') = Charge(cached, pin)
  BY <1>1, ChargeElsewhere
<1>3. Charge(uncertain, pin') = Charge(uncertain, pin)
  BY <1>1, ChargeElsewhere
<1> QED
  BY <1>2, <1>3 DEF StagingInv, PoolBooks

\* The operation gives back the charge of a block it has freed.
LEMMA ChargeReturned ==
    ASSUME StagingInv, BudgetInv', UNCHANGED poolVars, NEW b \in Blocks,
           ~Pooled(b), b \notin Active, pin' = [pin EXCEPT ![b] = 0],
           Active' = Active, Returning = pin[b], Returning' = 0
    PROVE  PoolBooks' /\ Booked' /\ SlotsSuffice'
<1>1. /\ \A c \in Blocks \ {b} : pin'[c] = pin[c]
      /\ b \notin cached /\ b \notin uncertain
      /\ UNCHANGED <<cached, uncertain, cachedBytes, uncertainBytes, slots,
                     activeBytes, activeBuffers>>
  BY DEF Pooled, StagingInv, BudgetInv, TypeOK, poolVars
<1>2. /\ cachedBytes = Charge(cached, pin)'
      /\ uncertainBytes = Charge(uncertain, pin)'
  BY <1>1, ListsKept
<1>3. \A c \in Active : pin'[c] = pin[c]
  BY <1>1, Counters
<1> HIDE DEF Active
<1>4. Charge(Active, pin') = Charge(Active, pin)
  BY <1>3, ChargeElsewhere
<1>5. PoolBooks'
  BY <1>1, <1>2, <1>4 DEF StagingInv, PoolBooks
<1>6. auth'.pinned = (auth.pinned - pin[b]) + 0
  <2>1. 0 \in 0..Cap
    BY BudgetAssumption
  <2> QED
    BY <2>1, PinnedMoves
<1>7. Booked'
  <2>1. auth.pinned = RetainedBytes + pin[b] /\ RetainedBytes \in Nat
        /\ pin[b] \in Nat
    BY Counters DEF StagingInv, Booked, RetainedBytes
  <2>2. RetainedBytes' = RetainedBytes
    BY <1>1 DEF RetainedBytes
  <2> QED
    BY <1>6, <2>1, <2>2 DEF Booked
<1>8. SlotsSuffice'
  BY <1>1 DEF StagingInv, SlotsSuffice
<1> QED
  BY <1>5, <1>7, <1>8

\* finish_active_checkout succeeds for every checked-out block.
LEMMA FinishSucceeds ==
    ASSUME StagingInv, NEW b \in Active, FinishActive(pin[b])
    PROVE  /\ activeBuffers' = activeBuffers - 1
           /\ activeBytes' = activeBytes - pin[b]
           /\ UNCHANGED accounting
  BY Counters DEF FinishActive

\* So does its quarantine: a slot was prepared for it.
LEMMA QuarantineSucceeds ==
    ASSUME StagingInv, NEW b \in Active, QuarantineActive(b)
    PROVE  /\ uncertain' = uncertain \cup {b}
           /\ uncertainBytes' = uncertainBytes + pin[b]
           /\ activeBuffers' = activeBuffers - 1
           /\ activeBytes' = activeBytes - pin[b]
           /\ UNCHANGED accounting
<1>1. /\ activeBuffers > 0 /\ activeBytes >= pin[b]
      /\ Cardinality(uncertain) < slots
  BY Counters DEF StagingInv, SlotsSuffice, StagingTypes
<1> QED
  BY <1>1 DEF QuarantineActive

\* And that of an evicted block, for which one more was prepared.
LEMMA RetainSucceeds ==
    ASSUME StagingInv, pc = "evicted", RetainUncertain(victim)
    PROVE  /\ uncertain' = uncertain \cup {victim}
           /\ uncertainBytes' = uncertainBytes + pin[victim]
           /\ UNCHANGED accounting
           /\ activeBuffers + 1 <= slots
<1>1. uncertain = {} /\ job \in Active
  BY Carried DEF StagingInv, Position, Counted
<1>2. activeBuffers + 1 <= slots /\ Cardinality(uncertain) = 0
  BY <1>1, Counters, FS_EmptySet DEF StagingInv, SlotsSuffice
<1>3. Cardinality(uncertain) < slots
  BY <1>2, Counters DEF StagingInv, StagingTypes
<1> QED
  BY <1>2, <1>3 DEF RetainUncertain

\* The gate is taken.
LEMMA StepBeginOperation ==
    ASSUME StagingInv, BudgetInv', BeginOperation PROVE StagingInv'
<1>1. StagingTypes'
  BY DEF StagingInv, BeginOperation, budgetVars, ownerVars, poolVars, opVars,
     driverVars, StagingTypes, Carrying, Counted
<1>2. NeverUntracked'
  BY DEF StagingInv, BeginOperation, budgetVars, ownerVars, poolVars, opVars,
     driverVars, NeverUntracked
<1>3. Position'
  BY StagingAssumption DEF StagingInv, BeginOperation, budgetVars, ownerVars,
     poolVars, opVars, driverVars, Position, StagingTypes, Carrying, Counted,
     Evicting
<1>4. Placement'
  BY StagingAssumption DEF StagingInv, BeginOperation, budgetVars, ownerVars,
     poolVars, opVars, driverVars, Placement, Pooled, Position, StagingTypes,
     Carrying, Counted, Evicting
<1>5. PoolBooks' /\ Booked' /\ SlotsSuffice'
  <2>1. UNCHANGED <<pin, cached, cachedBytes, uncertain, uncertainBytes,
                    slots, activeBuffers, activeBytes>>
    BY DEF BeginOperation, budgetVars, ownerVars, poolVars, opVars, driverVars
  <2>2. Active' = Active
    BY StagingAssumption DEF StagingInv, BeginOperation, budgetVars,
       ownerVars, poolVars, opVars, driverVars, Active, Counted, Position,
       StagingTypes, Carrying
  <2>3. Returning' = Returning
    BY DEF StagingInv, BeginOperation, budgetVars, ownerVars, poolVars,
       opVars, driverVars, Returning, Evicting, Position, StagingTypes,
       Carrying, Counted
  <2> QED
    BY <2>1, <2>2, <2>3, BooksKept
<1> QED
  BY <1>1, <1>2, <1>3, <1>4, <1>5 DEF StagingInv

\* The gate is released.
LEMMA StepEndOperation ==
    ASSUME StagingInv, BudgetInv', EndOperation PROVE StagingInv'
<1>1. StagingTypes'
  BY DEF StagingInv, EndOperation, budgetVars, ownerVars, poolVars, opVars,
     driverVars, StagingTypes, Carrying, Counted
<1>2. NeverUntracked'
  BY DEF StagingInv, EndOperation, budgetVars, ownerVars, poolVars, opVars,
     driverVars, NeverUntracked
<1>3. Position'
  BY StagingAssumption DEF StagingInv, EndOperation, budgetVars, ownerVars,
     poolVars, opVars, driverVars, Position, StagingTypes, Carrying, Counted,
     Evicting
<1>4. Placement'
  BY StagingAssumption DEF StagingInv, EndOperation, budgetVars, ownerVars,
     poolVars, opVars, driverVars, Placement, Pooled, Position, StagingTypes,
     Carrying, Counted, Evicting
<1>5. PoolBooks' /\ Booked' /\ SlotsSuffice'
  <2>1. UNCHANGED <<pin, cached, cachedBytes, uncertain, uncertainBytes,
                    slots, activeBuffers, activeBytes>>
    BY DEF EndOperation, budgetVars, ownerVars, poolVars, opVars, driverVars
  <2>2. Active' = Active
    BY StagingAssumption DEF StagingInv, EndOperation, budgetVars, ownerVars,
       poolVars, opVars, driverVars, Active, Counted, Position, StagingTypes,
       Carrying
  <2>3. Returning' = Returning
    BY DEF StagingInv, EndOperation, budgetVars, ownerVars, poolVars, opVars,
       driverVars, Returning, Evicting, Position, StagingTypes, Carrying,
       Counted
  <2> QED
    BY <2>1, <2>2, <2>3, BooksKept
<1> QED
  BY <1>1, <1>2, <1>3, <1>4, <1>5 DEF StagingInv

\* A checkout is refused.
LEMMA StepTakeRefused ==
    ASSUME StagingInv, BudgetInv', TakeRefused PROVE StagingInv'
<1>1. StagingTypes'
  BY DEF StagingInv, TakeRefused, budgetVars, ownerVars, poolVars, opVars,
     driverVars, StagingTypes, Carrying, Counted
<1>2. NeverUntracked'
  BY DEF StagingInv, TakeRefused, budgetVars, ownerVars, poolVars, opVars,
     driverVars, NeverUntracked
<1>3. Position'
  BY StagingAssumption DEF StagingInv, TakeRefused, budgetVars, ownerVars,
     poolVars, opVars, driverVars, Position, StagingTypes, Carrying, Counted,
     Evicting
<1>4. Placement'
  BY StagingAssumption DEF StagingInv, TakeRefused, budgetVars, ownerVars,
     poolVars, opVars, driverVars, Placement, Pooled, Position, StagingTypes,
     Carrying, Counted, Evicting
<1>5. PoolBooks' /\ Booked' /\ SlotsSuffice'
  <2>1. UNCHANGED <<pin, cached, cachedBytes, uncertain, uncertainBytes,
                    slots, activeBuffers, activeBytes>>
    BY DEF TakeRefused, budgetVars, ownerVars, poolVars, opVars, driverVars
  <2>2. Active' = Active
    BY StagingAssumption DEF StagingInv, TakeRefused, budgetVars, ownerVars,
       poolVars, opVars, driverVars, Active, Counted, Position, StagingTypes,
       Carrying
  <2>3. Returning' = Returning
    BY DEF StagingInv, TakeRefused, budgetVars, ownerVars, poolVars, opVars,
       driverVars, Returning, Evicting, Position, StagingTypes, Carrying,
       Counted
  <2> QED
    BY <2>1, <2>2, <2>3, BooksKept
<1> QED
  BY <1>1, <1>2, <1>3, <1>4, <1>5 DEF StagingInv

\* The block that was charged for is allocated and checked out.
LEMMA StepHostAlloc ==
    ASSUME StagingInv, BudgetInv', HostAlloc PROVE StagingInv'
<1>1. StagingTypes'
  BY Carried DEF StagingInv, HostAlloc, budgetVars, ownerVars, poolVars,
     opVars, driverVars, StagingTypes, Carrying, Counted
<1>2. NeverUntracked'
  BY Carried DEF StagingInv, HostAlloc, budgetVars, ownerVars, poolVars,
     opVars, driverVars, NeverUntracked
<1>3. Position'
  BY Carried, StagingAssumption DEF StagingInv, HostAlloc, budgetVars,
     ownerVars, poolVars, opVars, driverVars, Position, StagingTypes,
     Carrying, Counted, Evicting
<1>4. Placement'
  BY Carried, StagingAssumption DEF StagingInv, HostAlloc, budgetVars,
     ownerVars, poolVars, opVars, driverVars, Placement, Pooled, Position,
     StagingTypes, Carrying, Counted, Evicting
<1>5. PoolBooks' /\ Booked' /\ SlotsSuffice'
  <2>1. UNCHANGED <<pin, cached, cachedBytes, uncertain, uncertainBytes,
                    slots, activeBuffers, activeBytes>>
    BY DEF HostAlloc, budgetVars, ownerVars, poolVars, opVars, driverVars
  <2>2. Active' = Active
    BY StagingAssumption DEF StagingInv, HostAlloc, budgetVars, ownerVars,
       poolVars, opVars, driverVars, Active, Counted, Position, StagingTypes,
       Carrying
  <2>3. Returning' = Returning
    BY DEF StagingInv, HostAlloc, budgetVars, ownerVars, poolVars, opVars,
       driverVars, Returning, Evicting, Position, StagingTypes, Carrying,
       Counted
  <2> QED
    BY <2>1, <2>2, <2>3, BooksKept
<1> QED
  BY <1>1, <1>2, <1>3, <1>4, <1>5 DEF StagingInv

\* The driver refuses it.
LEMMA StepHostAllocFails ==
    ASSUME StagingInv, BudgetInv', HostAllocFails PROVE StagingInv'
<1>1. StagingTypes'
  BY DEF StagingInv, HostAllocFails, budgetVars, ownerVars, poolVars, opVars,
     driverVars, StagingTypes, Carrying, Counted
<1>2. NeverUntracked'
  BY DEF StagingInv, HostAllocFails, budgetVars, ownerVars, poolVars, opVars,
     driverVars, NeverUntracked
<1>3. Position'
  BY StagingAssumption DEF StagingInv, HostAllocFails, budgetVars, ownerVars,
     poolVars, opVars, driverVars, Position, StagingTypes, Carrying, Counted,
     Evicting
<1>4. Placement'
  BY StagingAssumption DEF StagingInv, HostAllocFails, budgetVars, ownerVars,
     poolVars, opVars, driverVars, Placement, Pooled, Position, StagingTypes,
     Carrying, Counted, Evicting
<1>5. PoolBooks' /\ Booked' /\ SlotsSuffice'
  <2>1. UNCHANGED <<pin, cached, cachedBytes, uncertain, uncertainBytes,
                    slots, activeBuffers, activeBytes>>
    BY DEF HostAllocFails, budgetVars, ownerVars, poolVars, opVars, driverVars
  <2>2. Active' = Active
    BY StagingAssumption DEF StagingInv, HostAllocFails, budgetVars,
       ownerVars, poolVars, opVars, driverVars, Active, Counted, Position,
       StagingTypes, Carrying
  <2>3. Returning' = Returning
    BY DEF StagingInv, HostAllocFails, budgetVars, ownerVars, poolVars,
       opVars, driverVars, Returning, Evicting, Position, StagingTypes,
       Carrying, Counted
  <2> QED
    BY <2>1, <2>2, <2>3, BooksKept
<1> QED
  BY <1>1, <1>2, <1>3, <1>4, <1>5 DEF StagingInv

\* The block that is given back does not go to the cache.
LEMMA StepAdmitInstead ==
    ASSUME StagingInv, BudgetInv', AdmitInstead PROVE StagingInv'
<1>1. StagingTypes'
  BY DEF StagingInv, AdmitInstead, budgetVars, ownerVars, poolVars, opVars,
     driverVars, StagingTypes, Carrying, Counted
<1>2. NeverUntracked'
  BY DEF StagingInv, AdmitInstead, budgetVars, ownerVars, poolVars, opVars,
     driverVars, NeverUntracked
<1>3. Position'
  BY StagingAssumption DEF StagingInv, AdmitInstead, budgetVars, ownerVars,
     poolVars, opVars, driverVars, Position, StagingTypes, Carrying, Counted,
     Evicting
<1>4. Placement'
  BY StagingAssumption DEF StagingInv, AdmitInstead, budgetVars, ownerVars,
     poolVars, opVars, driverVars, Placement, Pooled, Position, StagingTypes,
     Carrying, Counted, Evicting
<1>5. PoolBooks' /\ Booked' /\ SlotsSuffice'
  <2>1. UNCHANGED <<pin, cached, cachedBytes, uncertain, uncertainBytes,
                    slots, activeBuffers, activeBytes>>
    BY DEF AdmitInstead, budgetVars, ownerVars, poolVars, opVars, driverVars
  <2>2. Active' = Active
    BY StagingAssumption DEF StagingInv, AdmitInstead, budgetVars, ownerVars,
       poolVars, opVars, driverVars, Active, Counted, Position, StagingTypes,
       Carrying
  <2>3. Returning' = Returning
    BY DEF StagingInv, AdmitInstead, budgetVars, ownerVars, poolVars, opVars,
       driverVars, Returning, Evicting, Position, StagingTypes, Carrying,
       Counted
  <2> QED
    BY <2>1, <2>2, <2>3, BooksKept
<1> QED
  BY <1>1, <1>2, <1>3, <1>4, <1>5 DEF StagingInv

\* It is freed.
LEMMA StepReleaseActive ==
    ASSUME StagingInv, BudgetInv', ReleaseActive PROVE StagingInv'
<1>1. StagingTypes'
  BY DEF StagingInv, ReleaseActive, budgetVars, ownerVars, poolVars, opVars,
     driverVars, StagingTypes, Carrying, Counted
<1>2. NeverUntracked'
  BY DEF StagingInv, ReleaseActive, budgetVars, ownerVars, poolVars, opVars,
     driverVars, NeverUntracked
<1>3. Position'
  BY StagingAssumption DEF StagingInv, ReleaseActive, budgetVars, ownerVars,
     poolVars, opVars, driverVars, Position, StagingTypes, Carrying, Counted,
     Evicting
<1>4. Placement'
  BY StagingAssumption DEF StagingInv, ReleaseActive, budgetVars, ownerVars,
     poolVars, opVars, driverVars, Placement, Pooled, Position, StagingTypes,
     Carrying, Counted, Evicting
<1>5. PoolBooks' /\ Booked' /\ SlotsSuffice'
  <2>1. UNCHANGED <<pin, cached, cachedBytes, uncertain, uncertainBytes,
                    slots, activeBuffers, activeBytes>>
    BY DEF ReleaseActive, budgetVars, ownerVars, poolVars, opVars, driverVars
  <2>2. Active' = Active
    BY StagingAssumption DEF StagingInv, ReleaseActive, budgetVars, ownerVars,
       poolVars, opVars, driverVars, Active, Counted, Position, StagingTypes,
       Carrying
  <2>3. Returning' = Returning
    BY DEF StagingInv, ReleaseActive, budgetVars, ownerVars, poolVars, opVars,
       driverVars, Returning, Evicting, Position, StagingTypes, Carrying,
       Counted
  <2> QED
    BY <2>1, <2>2, <2>3, BooksKept
<1> QED
  BY <1>1, <1>2, <1>3, <1>4, <1>5 DEF StagingInv

\* The evicted block is freed.
LEMMA StepReleaseVictim ==
    ASSUME StagingInv, BudgetInv', ReleaseVictim PROVE StagingInv'
<1>1. StagingTypes'
  BY DEF StagingInv, ReleaseVictim, budgetVars, ownerVars, poolVars, opVars,
     driverVars, StagingTypes, Carrying, Counted
<1>2. NeverUntracked'
  BY DEF StagingInv, ReleaseVictim, budgetVars, ownerVars, poolVars, opVars,
     driverVars, NeverUntracked
<1>3. Position'
  BY StagingAssumption DEF StagingInv, ReleaseVictim, budgetVars, ownerVars,
     poolVars, opVars, driverVars, Position, StagingTypes, Carrying, Counted,
     Evicting
<1>4. Placement'
  BY StagingAssumption DEF StagingInv, ReleaseVictim, budgetVars, ownerVars,
     poolVars, opVars, driverVars, Placement, Pooled, Position, StagingTypes,
     Carrying, Counted, Evicting
<1>5. PoolBooks' /\ Booked' /\ SlotsSuffice'
  <2>1. UNCHANGED <<pin, cached, cachedBytes, uncertain, uncertainBytes,
                    slots, activeBuffers, activeBytes>>
    BY DEF ReleaseVictim, budgetVars, ownerVars, poolVars, opVars, driverVars
  <2>2. Active' = Active
    BY StagingAssumption DEF StagingInv, ReleaseVictim, budgetVars, ownerVars,
       poolVars, opVars, driverVars, Active, Counted, Position, StagingTypes,
       Carrying
  <2>3. Returning' = Returning
    BY DEF StagingInv, ReleaseVictim, budgetVars, ownerVars, poolVars, opVars,
       driverVars, Returning, Evicting, Position, StagingTypes, Carrying,
       Counted
  <2> QED
    BY <2>1, <2>2, <2>3, BooksKept
<1> QED
  BY <1>1, <1>2, <1>3, <1>4, <1>5 DEF StagingInv

\* Another thread quarantines the context.
LEMMA StepPeerQuarantines ==
    ASSUME StagingInv, BudgetInv', PeerQuarantines PROVE StagingInv'
<1>1. StagingTypes'
  BY DEF StagingInv, PeerQuarantines, budgetVars, ownerVars, poolVars, opVars,
     driverVars, StagingTypes, Carrying, Counted
<1>2. NeverUntracked'
  BY DEF StagingInv, PeerQuarantines, budgetVars, ownerVars, poolVars, opVars,
     driverVars, NeverUntracked
<1>3. Position'
  BY StagingAssumption DEF StagingInv, PeerQuarantines, budgetVars, ownerVars,
     poolVars, opVars, driverVars, Position, StagingTypes, Carrying, Counted,
     Evicting
<1>4. Placement'
  BY StagingAssumption DEF StagingInv, PeerQuarantines, budgetVars, ownerVars,
     poolVars, opVars, driverVars, Placement, Pooled, Position, StagingTypes,
     Carrying, Counted, Evicting
<1>5. PoolBooks' /\ Booked' /\ SlotsSuffice'
  <2>1. UNCHANGED <<pin, cached, cachedBytes, uncertain, uncertainBytes,
                    slots, activeBuffers, activeBytes>>
    BY DEF PeerQuarantines, budgetVars, ownerVars, poolVars, opVars,
       driverVars
  <2>2. Active' = Active
    BY StagingAssumption DEF StagingInv, PeerQuarantines, budgetVars,
       ownerVars, poolVars, opVars, driverVars, Active, Counted, Position,
       StagingTypes, Carrying
  <2>3. Returning' = Returning
    BY DEF StagingInv, PeerQuarantines, budgetVars, ownerVars, poolVars,
       opVars, driverVars, Returning, Evicting, Position, StagingTypes,
       Carrying, Counted
  <2> QED
    BY <2>1, <2>2, <2>3, BooksKept
<1> QED
  BY <1>1, <1>2, <1>3, <1>4, <1>5 DEF StagingInv

\* The totals are compared.
LEMMA StepVerifyHostBudget ==
    ASSUME StagingInv, BudgetInv', VerifyHostBudget PROVE StagingInv'
<1>1. StagingTypes'
  BY DEF StagingInv, VerifyHostBudget, budgetVars, ownerVars, poolVars,
     opVars, driverVars, StagingTypes, Carrying, Counted
<1>2. NeverUntracked'
  BY DEF StagingInv, VerifyHostBudget, budgetVars, ownerVars, poolVars,
     opVars, driverVars, NeverUntracked
<1>3. Position'
  BY StagingAssumption DEF StagingInv, VerifyHostBudget, budgetVars,
     ownerVars, poolVars, opVars, driverVars, Position, StagingTypes,
     Carrying, Counted, Evicting
<1>4. Placement'
  BY StagingAssumption DEF StagingInv, VerifyHostBudget, budgetVars,
     ownerVars, poolVars, opVars, driverVars, Placement, Pooled, Position,
     StagingTypes, Carrying, Counted, Evicting
<1>5. PoolBooks' /\ Booked' /\ SlotsSuffice'
  <2>1. UNCHANGED <<pin, cached, cachedBytes, uncertain, uncertainBytes,
                    slots, activeBuffers, activeBytes>>
    BY DEF VerifyHostBudget, budgetVars, ownerVars, poolVars, opVars,
       driverVars
  <2>2. Active' = Active
    BY StagingAssumption DEF StagingInv, VerifyHostBudget, budgetVars,
       ownerVars, poolVars, opVars, driverVars, Active, Counted, Position,
       StagingTypes, Carrying
  <2>3. Returning' = Returning
    BY DEF StagingInv, VerifyHostBudget, budgetVars, ownerVars, poolVars,
       opVars, driverVars, Returning, Evicting, Position, StagingTypes,
       Carrying, Counted
  <2> QED
    BY <2>1, <2>2, <2>3, BooksKept
<1> QED
  BY <1>1, <1>2, <1>3, <1>4, <1>5 DEF StagingInv

\* A checkout begins.
LEMMA StepTakeCheck ==
    ASSUME StagingInv, BudgetInv', NEW n \in Bytes, TakeCheck(n)
    PROVE  StagingInv'
<1>1. StagingTypes'
  BY DEF StagingInv, TakeCheck, budgetVars, ownerVars, poolVars, opVars,
     driverVars, StagingTypes, Carrying, Counted
<1>2. NeverUntracked'
  BY DEF StagingInv, TakeCheck, budgetVars, ownerVars, poolVars, opVars,
     driverVars, NeverUntracked
<1>3. Position'
  BY StagingAssumption DEF StagingInv, TakeCheck, budgetVars, ownerVars,
     poolVars, opVars, driverVars, Position, StagingTypes, Carrying, Counted,
     Evicting
<1>4. Placement'
  BY StagingAssumption DEF StagingInv, TakeCheck, budgetVars, ownerVars,
     poolVars, opVars, driverVars, Placement, Pooled, Position, StagingTypes,
     Carrying, Counted, Evicting
<1>5. PoolBooks' /\ Booked' /\ SlotsSuffice'
  <2>1. UNCHANGED <<pin, cached, cachedBytes, uncertain, uncertainBytes,
                    slots, activeBuffers, activeBytes>>
    BY DEF TakeCheck, budgetVars, ownerVars, poolVars, opVars, driverVars
  <2>2. Active' = Active
    BY StagingAssumption DEF StagingInv, TakeCheck, budgetVars, ownerVars,
       poolVars, opVars, driverVars, Active, Counted, Position, StagingTypes,
       Carrying
  <2>3. Returning' = Returning
    BY DEF StagingInv, TakeCheck, budgetVars, ownerVars, poolVars, opVars,
       driverVars, Returning, Evicting, Position, StagingTypes, Carrying,
       Counted
  <2> QED
    BY <2>1, <2>2, <2>3, BooksKept
<1> QED
  BY <1>1, <1>2, <1>3, <1>4, <1>5 DEF StagingInv

\* A transfer may still read the block.
LEMMA StepUploadFails ==
    ASSUME StagingInv, BudgetInv', NEW b \in Blocks, UploadFails(b)
    PROVE  StagingInv'
<1>1. StagingTypes'
  BY DEF StagingInv, UploadFails, budgetVars, ownerVars, poolVars, opVars,
     driverVars, StagingTypes, Carrying, Counted
<1>2. NeverUntracked'
  BY DEF StagingInv, UploadFails, budgetVars, ownerVars, poolVars, opVars,
     driverVars, NeverUntracked
<1>3. Position'
  BY StagingAssumption DEF StagingInv, UploadFails, budgetVars, ownerVars,
     poolVars, opVars, driverVars, Position, StagingTypes, Carrying, Counted,
     Evicting
<1>4. Placement'
  BY StagingAssumption DEF StagingInv, UploadFails, budgetVars, ownerVars,
     poolVars, opVars, driverVars, Placement, Pooled, Position, StagingTypes,
     Carrying, Counted, Evicting
<1>5. PoolBooks' /\ Booked' /\ SlotsSuffice'
  <2>1. UNCHANGED <<pin, cached, cachedBytes, uncertain, uncertainBytes,
                    slots, activeBuffers, activeBytes>>
    BY DEF UploadFails, budgetVars, ownerVars, poolVars, opVars, driverVars
  <2>2. Active' = Active
    BY StagingAssumption DEF StagingInv, UploadFails, budgetVars, ownerVars,
       poolVars, opVars, driverVars, Active, Counted, Position, StagingTypes,
       Carrying
  <2>3. Returning' = Returning
    BY DEF StagingInv, UploadFails, budgetVars, ownerVars, poolVars, opVars,
       driverVars, Returning, Evicting, Position, StagingTypes, Carrying,
       Counted
  <2> QED
    BY <2>1, <2>2, <2>3, BooksKept
<1> QED
  BY <1>1, <1>2, <1>3, <1>4, <1>5 DEF StagingInv

\* A block is given back.
LEMMA StepRecycle ==
    ASSUME StagingInv, BudgetInv', NEW b \in Blocks, Recycle(b)
    PROVE  StagingInv'
<1>1. StagingTypes'
  BY DEF StagingInv, Recycle, budgetVars, ownerVars, poolVars, opVars,
     driverVars, StagingTypes, Carrying, Counted
<1>2. NeverUntracked'
  BY DEF StagingInv, Recycle, budgetVars, ownerVars, poolVars, opVars,
     driverVars, NeverUntracked
<1>3. Position'
  BY StagingAssumption DEF StagingInv, Recycle, budgetVars, ownerVars,
     poolVars, opVars, driverVars, Position, StagingTypes, Carrying, Counted,
     Evicting
<1>4. Placement'
  BY StagingAssumption DEF StagingInv, Recycle, budgetVars, ownerVars,
     poolVars, opVars, driverVars, Placement, Pooled, Position, StagingTypes,
     Carrying, Counted, Evicting
<1>5. PoolBooks' /\ Booked' /\ SlotsSuffice'
  <2>1. UNCHANGED <<pin, cached, cachedBytes, uncertain, uncertainBytes,
                    slots, activeBuffers, activeBytes>>
    BY DEF Recycle, budgetVars, ownerVars, poolVars, opVars, driverVars
  <2>2. Active' = Active
    BY StagingAssumption DEF StagingInv, Recycle, budgetVars, ownerVars,
       poolVars, opVars, driverVars, Active, Counted, Position, StagingTypes,
       Carrying
  <2>3. Returning' = Returning
    BY DEF StagingInv, Recycle, budgetVars, ownerVars, poolVars, opVars,
       driverVars, Returning, Evicting, Position, StagingTypes, Carrying,
       Counted
  <2> QED
    BY <2>1, <2>2, <2>3, BooksKept
<1> QED
  BY <1>1, <1>2, <1>3, <1>4, <1>5 DEF StagingInv
\* External owners come and go.
LEMMA StepOwner ==
    ASSUME StagingInv, BudgetInv', OwnerStep PROVE StagingInv'
<1>1. UNCHANGED <<pin, context>> /\ UNCHANGED <<poolVars, opVars, driverVars>>
  BY DEF OwnerStep, RegisterExternalOwner, Reconcile, ReserveReplacement,
         Allocate, Commit, DropReservation, DropOwner
<1>2. StagingTypes' /\ NeverUntracked'
  BY <1>1 DEF StagingInv, StagingTypes, NeverUntracked, poolVars, opVars,
              driverVars
<1>3. Position' /\ Placement'
  BY <1>1 DEF StagingInv, Position, Placement, Pooled, poolVars, opVars,
              driverVars
<1>4. PoolBooks' /\ Booked' /\ SlotsSuffice'
  BY <1>1, BooksKept DEF poolVars, opVars, Active, Returning
<1> QED
  BY <1>2, <1>3, <1>4 DEF StagingInv

\* A cached block is checked out; the slots are prepared first.
LEMMA StepTakeCached ==
    ASSUME StagingInv, BudgetInv', TakeCached PROVE StagingInv'
<1>0. PICK b \in cached :
          /\ cached' = cached \ {b}
          /\ cachedBytes' = cachedBytes - pin[b]
          /\ activeBytes' = activeBytes + pin[b]
          /\ checkouts' = checkouts \cup {b}
  BY DEF TakeCached, BestFit, Fitting
<1>a. /\ pc = "take" /\ Usable /\ Prepare
      /\ activeBuffers' = activeBuffers + 1
      /\ pc' = "open" /\ request' = 0
      /\ UNCHANGED <<pin, context, lifecycle, alive, dma, uncertain,
                     uncertainBytes, accounting, job, victim>>
  BY DEF TakeCached, budgetVars, driverVars
<1>b. b \in Blocks /\ pin[b] > 0 /\ ~(b \in uncertain) /\ ~(b \in checkouts)
      /\ b # job /\ b # victim
  BY <1>0 DEF StagingInv, StagingTypes, Placement, Pooled
<1>c. slots' \in Nat /\ slots' >= activeBuffers + 2 /\ slots' >= slots
  BY <1>a, Counters DEF StagingInv, StagingTypes, Prepare, PreparedSlots
<1>1. StagingTypes' /\ NeverUntracked'
  BY <1>0, <1>a, <1>b, <1>c DEF StagingInv, StagingTypes, NeverUntracked
<1>2. Position'
  BY <1>a DEF StagingInv, Position, Carrying, Counted, Evicting
<1>3. Placement'
  BY <1>0, <1>a, <1>b DEF StagingInv, Placement, Pooled
<1>4. Active' = Active \cup {b} /\ b \notin Active
  BY <1>0, <1>a, <1>b DEF Active, Counted
<1>5. /\ Charge(Active, pin)' = activeBytes + pin[b]
      /\ Cardinality(Active)' = activeBuffers + 1
  BY <1>a, <1>b, <1>4, ActiveGains
<1>6. cachedBytes' = Charge(cached, pin)'
  BY <1>0, <1>a, <1>b, CacheMoves
<1>7. PoolBooks'
  BY <1>0, <1>a, <1>5, <1>6 DEF StagingInv, PoolBooks
<1>8. Booked'
  <2>1. auth'.pinned = auth.pinned
    BY <1>a, PinnedKept
  <2>2. Returning = 0 /\ Returning' = 0
    BY <1>a DEF Returning, Evicting
  <2>3. pin[b] \in Nat /\ pin[b] <= cachedBytes
    BY <1>0, <1>b, Counters
  <2> QED
    BY <1>0, <1>a, <2>1, <2>2, <2>3, Counters
       DEF StagingInv, Booked, RetainedBytes
<1>9. SlotsSuffice'
  <2>1. uncertain' = {} /\ Cardinality(uncertain)' = 0
    BY <1>a, FS_EmptySet DEF Usable
  <2> QED
    BY <1>a, <1>c, <2>1, Counters DEF SlotsSuffice
<1> QED
  BY <1>1, <1>2, <1>3, <1>7, <1>8, <1>9 DEF StagingInv

\* A new block is charged for, or the growth is refused.
LEMMA StepGrow ==
    ASSUME StagingInv, BudgetInv', NEW b \in Blocks, Grow(b)
    PROVE  StagingInv'
<1>a. /\ pc = "take" /\ Usable /\ Prepare /\ pin[b] = 0 /\ request' = 0
      /\ UNCHANGED <<context, cached, cachedBytes, uncertain, uncertainBytes,
                     accounting, lifecycle, alive, dma, victim, checkouts>>
  BY DEF Grow, driverVars
<1>b. /\ b \notin cached /\ b \notin uncertain /\ b \notin checkouts
      /\ b # job /\ b # victim /\ b \notin alive
      /\ job = NoBlock /\ victim = NoBlock
  BY <1>a DEF StagingInv, StagingTypes, Placement, Pooled, Position, Carrying,
              Counted, Evicting
<1>c. slots' \in Nat /\ slots' >= activeBuffers + 2 /\ slots' >= slots
  BY <1>a, Counters DEF StagingInv, StagingTypes, Prepare, PreparedSlots
<1>d. /\ uncertain = {} /\ uncertain' = {} /\ Cardinality(uncertain') = 0
      /\ request \in Nat \ {0}
  BY <1>a, FS_EmptySet, BudgetAssumption DEF Usable, StagingInv, Position
<1>1. CASE /\ UNCHANGED <<auth, pin, activeBuffers, activeBytes, job>>
           /\ pc' = "open"
  <2>1. StagingTypes' /\ NeverUntracked'
    BY <1>1, <1>a, <1>c DEF StagingInv, StagingTypes, NeverUntracked
  <2>2. Position' /\ Placement'
    BY <1>1, <1>a, <1>b
       DEF StagingInv, Position, Placement, Pooled, Carrying, Counted, Evicting
  <2>3. Active' = Active /\ Returning' = Returning
    BY <1>1, <1>a DEF Active, Returning, Counted, Evicting
  <2>4. PoolBooks'
    BY <1>1, <1>a, <2>3 DEF StagingInv, PoolBooks
  <2>5. Booked'
    BY <1>1, <1>a, <2>3 DEF StagingInv, Booked, RetainedBytes
  <2>6. SlotsSuffice'
    BY <1>1, <1>c, <1>d, Counters DEF SlotsSuffice
  <2> QED
    BY <2>1, <2>2, <2>4, <2>5, <2>6 DEF StagingInv
<1>2. CASE /\ pin' = [pin EXCEPT ![b] = request]
           /\ activeBuffers' = activeBuffers + 1
           /\ activeBytes' = activeBytes + request
           /\ job' = b /\ pc' = "allocate"
  <2>0. /\ pin \in [Blocks -> 0..Cap] /\ pin' \in [Blocks -> 0..Cap]
        /\ pin'[b] = request /\ request \in 0..Cap
        /\ \A c \in Blocks \ {b} : pin'[c] = pin[c]
    BY <1>2, Counters DEF BudgetInv, TypeOK
  <2>1. StagingTypes' /\ NeverUntracked'
    BY <1>2, <1>a, <1>c
       DEF StagingInv, StagingTypes, NeverUntracked, Carrying, Counted
  <2>2. Position'
    BY <1>2, <1>a, <1>b, StagingAssumption
       DEF StagingInv, Position, Carrying, Counted, Evicting
  <2>3. Placement'
    BY <2>0, <1>2, <1>a, <1>b, <1>d, StagingAssumption
       DEF StagingInv, Placement, Pooled
  <2>4. Active' = Active \cup {b} /\ b \notin Active
    BY <1>2, <1>a, <1>b DEF Active, Counted
  <2>5. /\ Charge(Active, pin)' = activeBytes + request
        /\ Cardinality(Active)' = activeBuffers + 1
    BY <2>0, <2>4, ActiveGains
  <2>6. /\ cachedBytes = Charge(cached, pin)'
        /\ uncertainBytes = Charge(uncertain, pin)'
    BY <2>0, <1>a, <1>b, ListsKept
  <2>7. PoolBooks'
    BY <1>2, <1>a, <2>5, <2>6 DEF PoolBooks
  <2>8. Booked'
    <3>1. auth'.pinned = (auth.pinned - pin[b]) + request
      BY <2>0, <1>2, PinnedMoves
    <3>2. Returning = 0 /\ Returning' = 0
      BY <1>2, <1>a DEF Returning, Evicting
    <3> QED
      BY <1>2, <1>a, <1>d, <3>1, <3>2, Counters
         DEF StagingInv, Booked, RetainedBytes
  <2>9. SlotsSuffice'
    BY <1>2, <1>c, <1>d, Counters DEF SlotsSuffice
  <2> QED
    BY <2>1, <2>2, <2>3, <2>7, <2>8, <2>9 DEF StagingInv
<1> QED
  BY <1>1, <1>2 DEF Grow

\* The block that was not allocated, or was freed, is checked out no more.
LEMMA StepFinishJob ==
    ASSUME StagingInv, BudgetInv', FinishJob PROVE StagingInv'
<1>a. /\ pc = "finish" /\ pc' = "unpin" /\ FinishActive(pin[job])
      /\ UNCHANGED <<pin, context, lifecycle, alive, dma, cached, cachedBytes,
                     uncertain, uncertainBytes, slots, job, victim, request,
                     checkouts>>
  BY DEF FinishJob, budgetVars, driverVars
<1>b. job \in Active /\ job \in Blocks /\ job \notin checkouts
  BY <1>a, Carried DEF Counted, Carrying, StagingInv, Placement, Pooled
<1>c. /\ activeBuffers' = activeBuffers - 1
      /\ activeBytes' = activeBytes - pin[job] /\ UNCHANGED accounting
  BY <1>a, <1>b, FinishSucceeds
<1>1. StagingTypes' /\ NeverUntracked'
  BY <1>a, <1>c DEF StagingInv, StagingTypes, NeverUntracked, Carrying
<1>2. Position' /\ Placement'
  BY <1>a DEF StagingInv, Position, Placement, Pooled, Carrying, Counted,
              Evicting
<1>3. Active' = Active \ {job}
  BY <1>a, <1>b DEF Active, Counted
<1>4. /\ Charge(Active, pin)' = activeBytes - pin[job]
      /\ Cardinality(Active)' = activeBuffers - 1
  BY <1>a, <1>b, <1>3, ActiveLoses
<1>5. PoolBooks'
  BY <1>a, <1>c, <1>4 DEF StagingInv, PoolBooks
<1>6. Booked'
  <2>1. auth'.pinned = auth.pinned
    BY <1>a, PinnedKept
  <2>2. Returning = 0 /\ Returning' = pin[job]
    BY <1>a DEF Returning, Evicting
  <2>3. pin[job] \in Nat /\ pin[job] <= activeBytes
    BY <1>b, Counters
  <2> QED
    BY <1>a, <1>c, <2>1, <2>2, <2>3, Counters
       DEF StagingInv, Booked, RetainedBytes
<1>7. SlotsSuffice'
  BY <1>a, <1>c, Counters DEF StagingInv, SlotsSuffice, StagingTypes
<1> QED
  BY <1>1, <1>2, <1>5, <1>6, <1>7 DEF StagingInv

\* Its charge goes back to the authority.
LEMMA StepUnpin ==
    ASSUME StagingInv, BudgetInv', Unpin PROVE StagingInv'
<1>a. /\ pc = "unpin" /\ pc' = "open" /\ pin' = [pin EXCEPT ![job] = 0]
      /\ job' = NoBlock
      /\ UNCHANGED <<context, poolVars, lifecycle, alive, dma, victim, request,
                     checkouts>>
  BY DEF Unpin, driverVars
<1>b. /\ job \in Blocks /\ ~Pooled(job) /\ job \notin alive
      /\ job # victim /\ victim = NoBlock
      /\ pin'[job] = 0 /\ \A c \in Blocks \ {job} : pin'[c] = pin[c]
  BY <1>a, Carried, Counters, StagingAssumption
     DEF StagingInv, Placement, Position, Carrying, Evicting
<1>1. StagingTypes' /\ NeverUntracked'
  BY <1>a DEF StagingInv, StagingTypes, NeverUntracked, poolVars
<1>2. Position'
  BY <1>a DEF StagingInv, Position, Carrying, Counted, Evicting, poolVars
<1>3. Placement'
  BY <1>a, <1>b, StagingAssumption
     DEF StagingInv, Placement, Pooled, StagingTypes, poolVars
<1>4. Active' = Active /\ job \notin Active
  BY <1>a, <1>b DEF Active, Counted, Pooled
<1>5. Returning = pin[job] /\ Returning' = 0
  BY <1>a DEF Returning, Evicting
<1>6. PoolBooks' /\ Booked' /\ SlotsSuffice'
  BY <1>a, <1>b, <1>4, <1>5, ChargeReturned
<1> QED
  BY <1>1, <1>2, <1>3, <1>6 DEF StagingInv

\* Likewise for the evicted block.
LEMMA StepUnpinVictim ==
    ASSUME StagingInv, BudgetInv', UnpinVictim PROVE StagingInv'
<1>a. /\ pc = "unpinVictim" /\ pc' = "admit"
      /\ pin' = [pin EXCEPT ![victim] = 0]
      /\ victim' = NoBlock
      /\ UNCHANGED <<context, poolVars, lifecycle, alive, dma, job, request,
                     checkouts>>
  BY DEF UnpinVictim, driverVars
<1>b. /\ victim \in Blocks /\ ~Pooled(victim) /\ victim \notin alive
      /\ job # victim /\ job \in Blocks
      /\ pin'[victim] = 0 /\ \A c \in Blocks \ {victim} : pin'[c] = pin[c]
  BY <1>a, Carried, Counters, StagingAssumption
     DEF StagingInv, Placement, Position, Carrying, Counted, Evicting
<1>1. StagingTypes' /\ NeverUntracked'
  BY <1>a DEF StagingInv, StagingTypes, NeverUntracked, poolVars, Carrying,
              Counted
<1>2. Position'
  BY <1>a DEF StagingInv, Position, Carrying, Counted, Evicting, poolVars
<1>3. Placement'
  BY <1>a, <1>b, StagingAssumption
     DEF StagingInv, Placement, Pooled, StagingTypes, poolVars
<1>4. Active' = Active /\ victim \notin Active
  BY <1>a, <1>b DEF Active, Counted, Pooled
<1>5. Returning = pin[victim] /\ Returning' = 0
  BY <1>a DEF Returning, Evicting
<1>6. PoolBooks' /\ Booked' /\ SlotsSuffice'
  BY <1>a, <1>b, <1>4, <1>5, ChargeReturned
<1> QED
  BY <1>1, <1>2, <1>3, <1>6 DEF StagingInv

\* A checked-out block is quarantined: its checkout was abandoned, or the
\* driver did not free it.
LEMMA Quarantined ==
    ASSUME StagingInv, BudgetInv', NEW b \in Active, QuarantineActive(b),
           Active' = Active \ {b}, Returning = 0, Returning' = 0,
           UNCHANGED <<pin, cached, cachedBytes, slots>>
    PROVE  PoolBooks' /\ Booked' /\ SlotsSuffice' /\ NeverUntracked'
<1>a. /\ uncertain' = uncertain \cup {b}
      /\ uncertainBytes' = uncertainBytes + pin[b]
      /\ activeBuffers' = activeBuffers - 1
      /\ activeBytes' = activeBytes - pin[b]
      /\ UNCHANGED accounting
  BY QuarantineSucceeds
<1>b. b \in Blocks /\ b \notin uncertain
  BY DEF StagingInv, StagingTypes, Placement, Pooled, Active
<1>1. /\ Charge(Active, pin)' = activeBytes - pin[b]
      /\ Cardinality(Active)' = activeBuffers - 1
  BY ActiveLoses
<1>2. /\ uncertainBytes' = Charge(uncertain, pin)'
      /\ Cardinality(uncertain)' = Cardinality(uncertain) + 1
  BY <1>a, <1>b, QuarantineGains
<1>3. PoolBooks'
  BY <1>a, <1>1, <1>2 DEF StagingInv, PoolBooks
<1>4. Booked'
  <2>1. auth'.pinned = auth.pinned
    BY PinnedKept
  <2>2. pin[b] \in Nat /\ pin[b] <= activeBytes
    BY <1>b, Counters
  <2> QED
    BY <1>a, <2>1, <2>2, Counters DEF StagingInv, Booked, RetainedBytes
<1>5. SlotsSuffice'
  BY <1>a, <1>2, Counters DEF StagingInv, SlotsSuffice, StagingTypes
<1> QED
  BY <1>a, <1>3, <1>4, <1>5 DEF StagingInv, NeverUntracked

\* A checkout is dropped without having been given back.
LEMMA StepAbandonCheckout ==
    ASSUME StagingInv, BudgetInv', NEW b \in Blocks, AbandonCheckout(b)
    PROVE  StagingInv'
<1>a. /\ pc = "open" /\ b \in checkouts /\ checkouts' = checkouts \ {b}
      /\ QuarantineActive(b)
      /\ UNCHANGED <<pin, context, lifecycle, alive, dma, cached, cachedBytes,
                     slots, pc, job, victim, request>>
  BY DEF AbandonCheckout, budgetVars, driverVars
<1>b. b \in Active
  BY <1>a DEF Active
<1>c. uncertain' = uncertain \cup {b}
  BY <1>a, <1>b, QuarantineSucceeds
<1>1. StagingTypes'
  BY <1>a, <1>c DEF StagingInv, StagingTypes
<1>2. Position'
  BY <1>a, <1>c DEF StagingInv, Position
<1>3. Placement'
  BY <1>a, <1>c DEF StagingInv, Placement, Pooled
<1>4. Active' = Active \ {b} /\ Returning = 0 /\ Returning' = 0
  BY <1>a DEF Active, Counted, Returning, Evicting
<1>5. PoolBooks' /\ Booked' /\ SlotsSuffice' /\ NeverUntracked'
  BY <1>a, <1>b, <1>4, Quarantined
<1> QED
  BY <1>1, <1>2, <1>3, <1>5 DEF StagingInv

\* The driver does not free the block that is given back.
LEMMA StepReleaseActiveFails ==
    ASSUME StagingInv, BudgetInv', ReleaseActiveFails PROVE StagingInv'
<1>a. /\ pc = "release" /\ lifecycle' = "quarantined" /\ QuarantineActive(job)
      /\ job' = NoBlock /\ pc' = "open"
      /\ UNCHANGED <<pin, context, alive, dma, cached, cachedBytes,
                     slots, victim, request, checkouts>>
  BY DEF ReleaseActiveFails, budgetVars
<1>b. job \in Active /\ job \in Blocks /\ ~Pooled(job) /\ victim = NoBlock
  BY <1>a, Carried
     DEF Counted, Carrying, Evicting, StagingInv, Placement, Position
<1>c. uncertain' = uncertain \cup {job}
  BY <1>a, <1>b, QuarantineSucceeds
<1>1. StagingTypes'
  BY <1>a, <1>b, <1>c DEF StagingInv, StagingTypes
<1>2. Position'
  BY <1>a DEF StagingInv, Position, Carrying, Counted, Evicting
<1>3. Placement'
  BY <1>a, <1>b, <1>c, StagingAssumption
     DEF StagingInv, StagingTypes, Placement, Pooled
<1>4. Active' = Active \ {job} /\ Returning = 0 /\ Returning' = 0
  BY <1>a, <1>b DEF Active, Counted, Returning, Evicting, Pooled
<1>5. PoolBooks' /\ Booked' /\ SlotsSuffice' /\ NeverUntracked'
  BY <1>a, <1>b, <1>4, Quarantined
<1> QED
  BY <1>1, <1>2, <1>3, <1>5 DEF StagingInv

\* The block that is given back goes to the cache.
LEMMA StepAdmit ==
    ASSUME StagingInv, BudgetInv', Admit PROVE StagingInv'
<1>a. /\ pc = "admit" /\ cached' = cached \cup {job}
      /\ cachedBytes' = cachedBytes + pin[job]
      /\ FinishActive(pin[job]) /\ job' = NoBlock /\ pc' = "open"
      /\ UNCHANGED <<pin, context, lifecycle, alive, dma, uncertain,
                     uncertainBytes, slots, victim, request, checkouts>>
  BY DEF Admit, budgetVars, driverVars
<1>b. job \in Active /\ job \in Blocks /\ ~Pooled(job) /\ victim = NoBlock
  BY <1>a, Carried
     DEF Counted, Carrying, Evicting, StagingInv, Placement, Position
<1>c. /\ activeBuffers' = activeBuffers - 1
      /\ activeBytes' = activeBytes - pin[job] /\ UNCHANGED accounting
  BY <1>a, <1>b, FinishSucceeds
<1>1. StagingTypes' /\ NeverUntracked'
  BY <1>a, <1>b, <1>c DEF StagingInv, StagingTypes, NeverUntracked
<1>2. Position'
  BY <1>a DEF StagingInv, Position, Carrying, Counted, Evicting
<1>3. Placement'
  BY <1>a, <1>b, StagingAssumption
     DEF StagingInv, StagingTypes, Placement, Pooled
<1>4. Active' = Active \ {job} /\ Returning = 0 /\ Returning' = 0
  BY <1>a, <1>b DEF Active, Counted, Returning, Evicting, Pooled
<1>5. /\ Charge(Active, pin)' = activeBytes - pin[job]
      /\ Cardinality(Active)' = activeBuffers - 1
  BY <1>a, <1>b, <1>4, ActiveLoses
<1>6. cachedBytes' = Charge(cached, pin)'
  BY <1>a, <1>b, CacheMoves DEF Pooled
<1>7. PoolBooks'
  BY <1>a, <1>c, <1>5, <1>6 DEF StagingInv, PoolBooks
<1>8. Booked'
  <2>1. auth'.pinned = auth.pinned
    BY <1>a, PinnedKept
  <2>2. pin[job] \in Nat /\ pin[job] <= activeBytes
    BY <1>b, Counters
  <2> QED
    BY <1>a, <1>c, <1>4, <2>1, <2>2, Counters
       DEF StagingInv, Booked, RetainedBytes
<1>9. SlotsSuffice'
  BY <1>a, <1>c, Counters DEF StagingInv, SlotsSuffice, StagingTypes
<1> QED
  BY <1>1, <1>2, <1>3, <1>7, <1>8, <1>9 DEF StagingInv

\* A cached block makes room.
LEMMA StepEvict ==
    ASSUME StagingInv, BudgetInv', Evict PROVE StagingInv'
<1>0. PICK b \in cached :
          /\ cached' = cached \ {b}
          /\ cachedBytes' = cachedBytes - pin[b]
          /\ victim' = b
  BY DEF Evict, LargestCached
<1>a. /\ pc = "admit" /\ pc' = "evicted" /\ uncertain = {}
      /\ UNCHANGED <<pin, context, lifecycle, alive, dma, uncertain,
                     uncertainBytes, slots, activeBuffers, activeBytes,
                     accounting, job, request, checkouts>>
  BY DEF Evict, Usable, budgetVars, driverVars
<1>b. /\ b \in Blocks /\ pin[b] > 0 /\ b \notin uncertain /\ b \notin checkouts
      /\ b # job /\ job \in Blocks
  BY <1>0, <1>a, Carried
     DEF StagingInv, StagingTypes, Placement, Pooled, Carrying, Counted
<1>1. StagingTypes' /\ NeverUntracked'
  BY <1>0, <1>a, <1>b
     DEF StagingInv, StagingTypes, NeverUntracked, Carrying, Counted
<1>2. Position'
  BY <1>0, <1>a, <1>b, StagingAssumption
     DEF StagingInv, Position, Carrying, Counted, Evicting
<1>3. Placement'
  BY <1>0, <1>a, <1>b, StagingAssumption
     DEF StagingInv, StagingTypes, Placement, Pooled, Position, Evicting
<1>4. Active' = Active /\ Returning = 0 /\ Returning' = pin[b]
  BY <1>0, <1>a DEF Active, Counted, Returning, Evicting
<1>5. cachedBytes' = Charge(cached, pin)'
  BY <1>0, <1>a, <1>b, CacheMoves
<1>6. PoolBooks'
  BY <1>a, <1>4, <1>5 DEF StagingInv, PoolBooks
<1>7. Booked'
  <2>1. auth'.pinned = auth.pinned
    BY <1>a, PinnedKept
  <2>2. pin[b] \in Nat /\ pin[b] <= cachedBytes
    BY <1>0, <1>b, Counters
  <2> QED
    BY <1>0, <1>a, <1>4, <2>1, <2>2, Counters
       DEF StagingInv, Booked, RetainedBytes
<1>8. SlotsSuffice'
  BY <1>a DEF StagingInv, SlotsSuffice
<1> QED
  BY <1>1, <1>2, <1>3, <1>6, <1>7, <1>8 DEF StagingInv

\* The driver does not free the evicted block.
LEMMA StepReleaseVictimFails ==
    ASSUME StagingInv, BudgetInv', ReleaseVictimFails PROVE StagingInv'
<1>a. /\ pc = "evicted" /\ lifecycle' = "quarantined"
      /\ RetainUncertain(victim) /\ victim' = NoBlock /\ pc' = "release"
      /\ UNCHANGED <<pin, context, alive, dma, cached, cachedBytes, slots,
                     activeBuffers, activeBytes, job, request, checkouts>>
  BY DEF ReleaseVictimFails, budgetVars
<1>b. /\ victim \in Blocks /\ ~Pooled(victim) /\ job # victim
      /\ job \in Blocks /\ uncertain = {}
  BY <1>a, Carried, StagingAssumption
     DEF Counted, Carrying, Evicting, StagingInv, Placement, Position
<1>c. /\ uncertain' = uncertain \cup {victim}
      /\ uncertainBytes' = uncertainBytes + pin[victim]
      /\ UNCHANGED accounting /\ activeBuffers + 1 <= slots
  BY <1>a, RetainSucceeds
<1>1. StagingTypes' /\ NeverUntracked'
  BY <1>a, <1>b, <1>c
     DEF StagingInv, StagingTypes, NeverUntracked, Carrying, Counted
<1>2. Position'
  BY <1>a DEF StagingInv, Position, Carrying, Counted, Evicting
<1>3. Placement'
  BY <1>a, <1>b, <1>c, StagingAssumption
     DEF StagingInv, StagingTypes, Placement, Pooled
<1>4. Active' = Active /\ Returning = pin[victim] /\ Returning' = 0
  BY <1>a DEF Active, Counted, Returning, Evicting
<1>5. /\ uncertainBytes' = Charge(uncertain, pin)'
      /\ Cardinality(uncertain)' = Cardinality(uncertain) + 1
  BY <1>a, <1>b, <1>c, QuarantineGains DEF Pooled
<1>6. PoolBooks'
  BY <1>a, <1>4, <1>5 DEF StagingInv, PoolBooks
<1>7. Booked'
  <2>1. auth'.pinned = auth.pinned
    BY <1>a, PinnedKept
  <2>2. pin[victim] \in Nat
    BY <1>b, Counters
  <2> QED
    BY <1>a, <1>c, <1>4, <2>1, <2>2, Counters
       DEF StagingInv, Booked, RetainedBytes
<1>8. SlotsSuffice'
  <2>1. Cardinality(uncertain)' = 1
    BY <1>b, <1>5, FS_EmptySet
  <2> QED
    BY <1>a, <1>c, <2>1, Counters DEF SlotsSuffice, StagingInv, StagingTypes
<1> QED
  BY <1>1, <1>2, <1>3, <1>6, <1>7, <1>8 DEF StagingInv

\* The context is torn down with every block.
LEMMA StepDropContext ==
    ASSUME StagingInv, BudgetInv', DropContext PROVE StagingInv'
<1>a. /\ pc = "idle" /\ pin' = [b \in Blocks |-> 0]
      /\ cached' = {} /\ cachedBytes' = 0 /\ uncertain' = {}
      /\ uncertainBytes' = 0 /\ alive' = {}
      /\ auth'.pinned = 0
      /\ UNCHANGED <<slots, activeBuffers, activeBytes, accounting, lifecycle,
                     dma, pc, job, victim, request, checkouts>>
  BY DEF DropContext, ClearPinnedAfterContextDrop, opVars, StagingInv,
         BudgetInv, TypeOK, HostBudgetState
<1>b. /\ checkouts = {} /\ job = NoBlock /\ victim = NoBlock
      /\ Active = {} /\ Active' = {}
  BY <1>a DEF StagingInv, Position, Carrying, Counted, Evicting, Active
<1>1. StagingTypes' /\ NeverUntracked'
  BY <1>a DEF StagingInv, StagingTypes, NeverUntracked
<1>2. Position'
  BY <1>a DEF StagingInv, Position
<1>3. Placement'
  BY <1>a, <1>b, StagingAssumption DEF StagingInv, Placement, Pooled
<1>4. activeBuffers = 0 /\ activeBytes = 0
  BY <1>b, ChargeNothing, FS_EmptySet DEF StagingInv, PoolBooks
<1>5. PoolBooks'
  <2>1. Charge({}, pin') = 0
    BY ChargeNothing
  <2> QED
    BY <1>a, <1>b, <1>4, <2>1, FS_EmptySet DEF PoolBooks
<1>6. Booked'
  BY <1>a, <1>4 DEF Booked, RetainedBytes, Returning, Evicting
<1>7. SlotsSuffice'
  BY <1>a, <1>4, FS_EmptySet DEF StagingInv, StagingTypes, SlotsSuffice
<1> QED
  BY <1>1, <1>2, <1>3, <1>5, <1>6, <1>7 DEF StagingInv

-----------------------------------------------------------------------------
(* The theorems                                                            *)

\* The staging pool begins with empty books.
LEMMA InitStaging == StagingInit => StagingInv
<1> SUFFICES ASSUME StagingInit PROVE StagingInv
  OBVIOUS
<1>1. BudgetInv
  BY InitBudget DEF StagingInit
<1>2. /\ pin = [b \in Blocks |-> 0] /\ auth.pinned = 0 /\ Active = {}
      /\ cached = {} /\ uncertain = {} /\ checkouts = {} /\ alive = {}
  BY DEF StagingInit, Init, NewBudget, Active, Counted
<1>3. StagingTypes /\ NeverUntracked
  BY DEF StagingInit, StagingTypes, NeverUntracked
<1>4. Position /\ Placement
  BY <1>2, StagingAssumption
     DEF StagingInit, Init, Position, Placement, Pooled, Carrying, Counted,
         Evicting
<1>5. PoolBooks
  <2>1. Charge({}, pin) = 0
    BY ChargeNothing
  <2> QED
    BY <1>2, <2>1, FS_EmptySet DEF StagingInit, PoolBooks
<1>6. Booked
  BY <1>2 DEF StagingInit, Booked, RetainedBytes, Returning, Evicting
<1>7. SlotsSuffice
  BY <1>2, FS_EmptySet DEF StagingInit, SlotsSuffice
<1> QED
  BY <1>1, <1>3, <1>4, <1>5, <1>6, <1>7 DEF StagingInv

\* Every step of the staging pool preserves the invariant.
LEMMA StepStaging == StagingInv /\ [StagingNext]_stagingVars => StagingInv'
<1> SUFFICES ASSUME StagingInv, [StagingNext]_stagingVars PROVE StagingInv'
  OBVIOUS
<1>1. BudgetInv'
  <2>1. BudgetInv /\ [Next]_vars
    BY StepImplements DEF StagingInv
  <2> QED
    BY <2>1, StepBudget
<1>2. CASE UNCHANGED stagingVars
  <2>1. StagingTypes' /\ NeverUntracked' /\ Position' /\ Placement'
    BY <1>2 DEF StagingInv, stagingVars, StagingTypes, NeverUntracked,
                Position, Placement, Pooled
  <2>2. PoolBooks' /\ Booked' /\ SlotsSuffice'
    BY <1>1, <1>2, BooksKept DEF stagingVars, Active, Returning
  <2> QED
    BY <1>1, <2>1, <2>2 DEF StagingInv
<1>3. CASE StagingNext
  BY <1>1, <1>3, StepBeginOperation, StepEndOperation, StepTakeCheck,
     StepTakeRefused, StepTakeCached, StepGrow, StepHostAlloc,
     StepHostAllocFails, StepFinishJob, StepUnpin, StepUploadFails,
     StepRecycle, StepAbandonCheckout, StepAdmit, StepAdmitInstead, StepEvict,
     StepReleaseActive, StepReleaseActiveFails, StepReleaseVictim,
     StepUnpinVictim, StepReleaseVictimFails, StepVerifyHostBudget,
     StepDropContext, StepPeerQuarantines, StepOwner DEF StagingNext
<1> QED
  BY <1>2, <1>3

\* The inductive invariant holds in every behaviour.
THEOREM StagingInvariant == StagingSpec => []StagingInv
  BY InitStaging, StepStaging, PTL DEF StagingSpec

\* The staging pool uses the authority as HostBudget prescribes, so the
\* results of HostBudgetProofs hold of the composition: whatever uploads,
\* evictions, refused releases and owners do, the authority is charged the
\* exact sums and is never poisoned.
THEOREM StagingImplementsBudget == StagingSpec => ImplementsBudget
<1>1. StagingInit => Init
  BY DEF StagingInit
<1>2. StagingInv /\ [StagingNext]_stagingVars => [Next]_vars
  BY StepImplements
<1> QED
  BY <1>1, <1>2, StagingInvariant, PTL DEF StagingSpec, ImplementsBudget, Spec

\* verify_host_budget never finds a difference, and the pool never refuses
\* a growth that the authority has admitted.
THEOREM TotalsAlwaysAgree == StagingSpec => []TotalsAgree
<1>1. StagingInv => TotalsAgree
  BY Agree
<1> QED
  BY <1>1, StagingInvariant, PTL

\* The prepared slots always suffice, so no block is lost from the books.
THEOREM NothingUntracked == StagingSpec => []NeverUntracked
<1>1. StagingInv => NeverUntracked
  BY DEF StagingInv
<1> QED
  BY <1>1, StagingInvariant, PTL

\* Every allocated block is in one place and charged.
THEOREM BlocksArePlaced == StagingSpec => []EveryBlockPlaced
<1>1. StagingInv => EveryBlockPlaced
  <2> SUFFICES ASSUME StagingInv PROVE EveryBlockPlaced
    OBVIOUS
  <2> DEFINE carried == {b \in Blocks : b = victim \/ b = job}
  <2> DEFINE places == <<cached, uncertain, checkouts>>
  <2>1. alive \subseteq cached \cup uncertain \cup checkouts \cup carried
    BY DEF StagingInv, StagingTypes, Placement, Pooled
  <2>2. \A i, j \in 1..3 : i # j => places[i] \cap places[j] = {}
    <3>1. /\ cached \cap uncertain = {} /\ cached \cap checkouts = {}
          /\ uncertain \cap checkouts = {}
      BY DEF StagingInv, StagingTypes, Placement
    <3>2. \A i \in 1..3 : i = 1 \/ i = 2 \/ i = 3
      OBVIOUS
    <3>3. places[1] = cached /\ places[2] = uncertain /\ places[3] = checkouts
      OBVIOUS
    <3> HIDE DEF places
    <3> QED
      BY <3>1, <3>2, <3>3
  <2>3. carried \cap (cached \cup uncertain \cup checkouts) = {}
    BY DEF StagingInv, Placement, Pooled
  <2>4. \A b \in alive : pin[b] > 0
    BY DEF StagingInv, StagingTypes, Placement
  <2> QED
    BY <2>1, <2>2, <2>3, <2>4 DEF EveryBlockPlaced
<1> QED
  BY <1>1, StagingInvariant, PTL

\* A block that a failed transfer may still read is neither freed on its own
\* nor checked out again: the quarantine of the context stops both.
THEOREM TransferKeepsItsBlock == StagingSpec => NoReuseUnderTransfer
<1> DEFINE Kept ==
      /\ dma \cap alive \subseteq alive' \/ context' = "dropped"
      /\ dma \cap (checkouts' \ checkouts) = {}
<1>1. StagingInv /\ [StagingNext]_stagingVars => [Kept]_stagingVars
  <2> SUFFICES ASSUME StagingInv, StagingNext PROVE Kept
    BY DEF stagingVars
  <2>1. lifecycle = "ok" \/ pc = "take" => dma = {}
    BY DEF StagingInv, Position
  <2>2. CASE dma = {}
    BY <2>2
  <2>3. CASE lifecycle # "ok" /\ pc # "take"
    <3>1. UNCHANGED alive \/ context' = "dropped"
      BY <2>3 DEF StagingNext, BeginOperation, EndOperation, TakeCheck,
         TakeRefused, TakeCached, Grow, HostAlloc, HostAllocFails, FinishJob,
         Unpin, UploadFails, Recycle, AbandonCheckout, Admit, AdmitInstead,
         Evict, ReleaseActive, ReleaseActiveFails, ReleaseVictim, UnpinVictim,
         ReleaseVictimFails, VerifyHostBudget, DropContext, PeerQuarantines,
         OwnerStep, ClearPinnedAfterContextDrop, opVars, driverVars
    <3>2. checkouts' \subseteq checkouts
      BY <2>3 DEF StagingNext, BeginOperation, EndOperation, TakeCheck,
         TakeRefused, TakeCached, Grow, HostAlloc, HostAllocFails, FinishJob,
         Unpin, UploadFails, Recycle, AbandonCheckout, Admit, AdmitInstead,
         Evict, ReleaseActive, ReleaseActiveFails, ReleaseVictim, UnpinVictim,
         ReleaseVictimFails, VerifyHostBudget, DropContext, PeerQuarantines,
         OwnerStep, ClearPinnedAfterContextDrop, opVars, driverVars
    <3> QED
      BY <3>1, <3>2
  <2> QED
    BY <2>1, <2>2, <2>3
<1> QED
  BY <1>1, StagingInvariant, PTL DEF StagingSpec, NoReuseUnderTransfer
=============================================================================
