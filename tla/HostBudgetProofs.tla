-------------------------- MODULE HostBudgetProofs --------------------------
(***************************************************************************)
(* BudgetInv is an inductive invariant of HostBudget, for every finite set *)
(* of owners and blocks, every cap and every set of requested sizes.  The  *)
(* exact sums (ExactCharges) are what makes it inductive: they bound every *)
(* subtraction of the code, so no poisoning branch can be taken, and they  *)
(* turn a reservation's share of provisional into room under the cap that  *)
(* only its owner can use.                                                 *)
(***************************************************************************)
EXTENDS HostBudget, ByteTotalsTheorems

\* The initial state of the authority has charged and promised nothing.
LEMMA InitBudget == Init => BudgetInv
<1> USE BudgetAssumption
<1> SUFFICES ASSUME Init PROVE BudgetInv
  OBVIOUS
<1>1. /\ bytes \in [Owners -> {0}] /\ reserved \in [Owners -> {0}]
      /\ pin \in [Blocks -> {0}]
  BY DEF Init
<1>2. Total(bytes, Cap) = 0 /\ Total(reserved, Cap) = 0 /\ Total(pin, Cap) = 0
  BY <1>1, TotalZero
<1>3. TypeOK
  BY DEF Init, TypeOK, NewBudget, HostBudgetState
<1>4. ExactCharges /\ WithinCap /\ OwnerBooks
  BY <1>2 DEF Init, ExactCharges, WithinCap, OwnerBooks, NewBudget, Admitted
<1>5. QED
  BY <1>3, <1>4 DEF BudgetInv

\* The high-water mark is one of its two arguments and covers both.
LEMMA MaxFacts ==
    ASSUME NEW m \in Nat, NEW n \in Nat
    PROVE  /\ Max2(m, n) \in Nat /\ m <= Max2(m, n) /\ n <= Max2(m, n)
           /\ Max2(m, n) = m \/ Max2(m, n) = n
  BY DEF Max2

\* In a state of the invariant no subtraction of the code can underflow.
LEMMA NoUnderflow ==
    ASSUME BudgetInv
    PROVE  /\ \A o \in Owners : bytes[o] <= auth.external
           /\ \A o \in Owners : reserved[o] <= auth.provisional
           /\ \A b \in Blocks : pin[b] <= auth.pinned
<1> USE BudgetAssumption
<1>1. /\ bytes \in [Owners -> 0..Cap] /\ reserved \in [Owners -> 0..Cap]
      /\ pin \in [Blocks -> 0..Cap]
  BY DEF BudgetInv, TypeOK
<1>2. /\ \A o \in Owners : bytes[o] <= Total(bytes, Cap)
      /\ \A o \in Owners : reserved[o] <= Total(reserved, Cap)
      /\ \A b \in Blocks : pin[b] <= Total(pin, Cap)
  BY <1>1, TotalBounds
<1>3. QED
  BY <1>2 DEF BudgetInv, ExactCharges

\* Adjusting one owner's charge, its reservation or one block's charge
\* adjusts the corresponding sum by the same amount.
LEMMA AdjustBytes ==
    ASSUME BudgetInv, NEW o \in Owners, bytes' \in [Owners -> 0..Cap],
           \A p \in Owners \ {o} : bytes'[p] = bytes[p]
    PROVE  Total(bytes', Cap) = (auth.external - bytes[o]) + bytes'[o]
<1>0. bytes \in [Owners -> 0..Cap] /\ IsFiniteSet(Owners) /\ Cap \in Nat
  BY BudgetAssumption DEF BudgetInv, TypeOK
<1>1. Total(bytes', Cap) = (Total(bytes, Cap) - bytes[o]) + bytes'[o]
  BY <1>0, TotalUpdate
<1>2. QED
  BY <1>1 DEF BudgetInv, ExactCharges

\* The same for the headroom an owner has reserved.
LEMMA AdjustReserved ==
    ASSUME BudgetInv, NEW o \in Owners, reserved' \in [Owners -> 0..Cap],
           \A p \in Owners \ {o} : reserved'[p] = reserved[p]
    PROVE  Total(reserved', Cap)
             = (auth.provisional - reserved[o]) + reserved'[o]
<1>0. reserved \in [Owners -> 0..Cap] /\ IsFiniteSet(Owners) /\ Cap \in Nat
  BY BudgetAssumption DEF BudgetInv, TypeOK
<1>1. Total(reserved', Cap)
        = (Total(reserved, Cap) - reserved[o]) + reserved'[o]
  BY <1>0, TotalUpdate
<1>2. QED
  BY <1>1 DEF BudgetInv, ExactCharges

\* The same for the charge of a page-locked block.
LEMMA AdjustPinned ==
    ASSUME BudgetInv, NEW b \in Blocks, pin' \in [Blocks -> 0..Cap],
           \A p \in Blocks \ {b} : pin'[p] = pin[p]
    PROVE  Total(pin', Cap) = (auth.pinned - pin[b]) + pin'[b]
<1>0. pin \in [Blocks -> 0..Cap] /\ IsFiniteSet(Blocks) /\ Cap \in Nat
  BY BudgetAssumption DEF BudgetInv, TypeOK
<1>1. Total(pin', Cap) = (Total(pin, Cap) - pin[b]) + pin'[b]
  BY <1>0, TotalUpdate
<1>2. QED
  BY <1>1 DEF BudgetInv, ExactCharges

\* Every operation of the authority, its clients and the context's teardown
\* preserves the invariant.
LEMMA StepBudget == BudgetInv /\ [Next]_vars => BudgetInv'
<1> USE BudgetAssumption
<1> SUFFICES ASSUME BudgetInv, [Next]_vars PROVE BudgetInv'
  OBVIOUS
<1> DEFINE ext == auth.external
<1> DEFINE pnd == auth.pinned
<1> DEFINE prov == auth.provisional
<1>0. /\ TypeOK /\ ExactCharges /\ WithinCap /\ OwnerBooks
  BY DEF BudgetInv
<1>a. /\ auth \in HostBudgetState /\ auth.poisoned = FALSE
      /\ ext \in Nat /\ pnd \in Nat /\ prov \in Nat /\ auth.peak \in Nat
      /\ ext + pnd + prov <= Cap /\ ext + pnd <= auth.peak /\ auth.peak <= Cap
  BY <1>0 DEF TypeOK, ExactCharges, WithinCap, Admitted, HostBudgetState
<1>b. /\ registered \subseteq Owners /\ open \subseteq registered
      /\ bytes \in [Owners -> 0..Cap] /\ reserved \in [Owners -> 0..Cap]
      /\ excluded \in [Owners -> 0..Cap] /\ working \in [Owners -> Nat]
      /\ pin \in [Blocks -> 0..Cap] /\ context \in {"live", "dropped"}
  BY <1>0 DEF TypeOK
<1>c. /\ ext = Total(bytes, Cap) /\ prov = Total(reserved, Cap)
      /\ pnd = Total(pin, Cap)
  BY <1>0 DEF ExactCharges
\* An admitted charge of owner o: what register, reconcile, commit and drop
\* have in common.
<1>d. ASSUME NEW a \in HostBudgetState, NEW old \in Nat, NEW n \in Nat,
             ReconcileOk(a, old, n), a.pinned = pnd, a.peak = auth.peak,
             auth' = ReconcileExternal(a, old, n)
      PROVE  /\ auth' \in HostBudgetState /\ auth'.poisoned = FALSE
             /\ auth'.external = (a.external - old) + n
             /\ auth'.pinned = pnd /\ auth'.provisional = a.provisional
             /\ auth'.external + pnd + a.provisional <= Cap
             /\ auth'.external + pnd <= auth'.peak
             /\ auth'.peak <= Cap /\ n <= Cap
  <2> DEFINE e == (a.external - old) + n
  <2> DEFINE m == Max2(auth.peak, e + pnd)
  <2>1. /\ a.external \in Nat /\ a.provisional \in Nat /\ old <= a.external
        /\ a.poisoned = FALSE /\ e + pnd + a.provisional <= Cap
    BY <1>d DEF ReconcileOk, ReconcileFits, HostBudgetState
  <2>2. e \in Nat /\ e + pnd \in Nat /\ e + pnd <= Cap /\ n <= Cap
    BY <1>a, <1>d, <2>1
  <2>3. /\ m \in Nat /\ auth.peak <= m /\ e + pnd <= m
        /\ m = auth.peak \/ m = e + pnd
    BY <1>a, <2>2, MaxFacts
  <2>4. auth' = [a EXCEPT !.external = e, !.peak = m]
    BY <1>d, <2>1 DEF ReconcileExternal, ReconcileOk
  <2> HIDE DEF e, m
  <2>5. /\ auth' \in HostBudgetState /\ auth'.poisoned = FALSE
        /\ auth'.external = e /\ auth'.pinned = pnd
        /\ auth'.provisional = a.provisional /\ auth'.peak = m
    BY <1>d, <2>1, <2>2, <2>3, <2>4 DEF HostBudgetState
  <2>6. QED
    BY <1>a, <2>1, <2>2, <2>3, <2>5 DEF e
<1>1. ASSUME NEW o \in Owners, NEW n \in Bytes, RegisterExternalOwner(o, n)
      PROVE  BudgetInv'
  <2>1. n \in Nat /\ bytes[o] = 0 /\ o \notin open
    BY <1>0, <1>1, <1>b DEF RegisterExternalOwner, OwnerBooks
  <2>2. CASE ReconcileOk(auth, 0, n)
    <3>1. /\ auth' = ReconcileExternal(auth, 0, n)
          /\ registered' = registered \cup {o}
          /\ bytes' = [bytes EXCEPT ![o] = n]
          /\ UNCHANGED <<open, reserved, excluded, working, pin, context>>
      BY <1>1, <2>2 DEF RegisterExternalOwner
    <3>2. /\ auth' \in HostBudgetState /\ auth'.poisoned = FALSE
          /\ auth'.external = (ext - 0) + n
          /\ auth'.pinned = pnd /\ auth'.provisional = prov
          /\ auth'.external + pnd + prov <= Cap
          /\ auth'.external + pnd <= auth'.peak
          /\ auth'.peak <= Cap /\ n <= Cap
      BY <1>a, <1>d, <2>1, <2>2, <3>1, 0 \in Nat
    <3>3. /\ bytes' \in [Owners -> 0..Cap] /\ bytes'[o] = n
          /\ \A p \in Owners \ {o} : bytes'[p] = bytes[p]
      BY <1>b, <2>1, <3>1, <3>2
    <3>4. Total(bytes', Cap) = ext + n
      BY <1>a, <2>1, <3>3, AdjustBytes
    <3>5. TypeOK'
      BY <1>b, <3>1, <3>2, <3>3 DEF TypeOK
    <3>6. ExactCharges' /\ WithinCap'
      BY <1>a, <1>c, <2>1, <3>1, <3>2, <3>4 DEF ExactCharges, WithinCap, Admitted
    <3>7. OwnerBooks'
      BY <1>0, <1>b, <2>1, <3>1, <3>3 DEF OwnerBooks
    <3>8. QED
      BY <3>5, <3>6, <3>7 DEF BudgetInv
  <2>3. CASE ~ReconcileOk(auth, 0, n)
    <3>1. UNCHANGED vars
      BY <1>1, <1>a, <2>1, <2>3
      DEF RegisterExternalOwner, ReconcileOk, ReconcileExternal, vars
    <3>2. QED
      BY <1>0, <3>1
      DEF BudgetInv, TypeOK, ExactCharges, WithinCap, OwnerBooks, vars
  <2>4. QED
    BY <2>2, <2>3
<1>2. ASSUME NEW o \in Owners, NEW n \in Bytes, Reconcile(o, n)
      PROVE  BudgetInv'
  <2>1. /\ n \in Nat /\ bytes[o] \in Nat /\ bytes[o] <= ext
        /\ o \notin open /\ o \in registered
    BY <1>2, <1>b, NoUnderflow DEF Reconcile
  <2>2. CASE ReconcileOk(auth, bytes[o], n)
    <3>1. /\ auth' = ReconcileExternal(auth, bytes[o], n)
          /\ bytes' = [bytes EXCEPT ![o] = n]
          /\ UNCHANGED <<registered, open, reserved, excluded, working, pin,
                         context>>
      BY <1>2, <2>2 DEF Reconcile
    <3>2. /\ auth' \in HostBudgetState /\ auth'.poisoned = FALSE
          /\ auth'.external = (ext - bytes[o]) + n
          /\ auth'.pinned = pnd /\ auth'.provisional = prov
          /\ auth'.external + pnd + prov <= Cap
          /\ auth'.external + pnd <= auth'.peak
          /\ auth'.peak <= Cap /\ n <= Cap
      BY <1>a, <1>d, <2>1, <2>2, <3>1
    <3>3. /\ bytes' \in [Owners -> 0..Cap] /\ bytes'[o] = n
          /\ \A p \in Owners \ {o} : bytes'[p] = bytes[p]
      BY <1>b, <2>1, <3>1, <3>2
    <3>4. Total(bytes', Cap) = (ext - bytes[o]) + n
      BY <3>3, AdjustBytes
    <3>5. TypeOK'
      BY <1>b, <3>1, <3>2, <3>3 DEF TypeOK
    <3>6. ExactCharges' /\ WithinCap'
      BY <1>c, <3>1, <3>2, <3>4 DEF ExactCharges, WithinCap, Admitted
    <3>7. OwnerBooks'
      BY <1>0, <1>b, <2>1, <3>1, <3>3 DEF OwnerBooks
    <3>8. QED
      BY <3>5, <3>6, <3>7 DEF BudgetInv
  <2>3. CASE ~ReconcileOk(auth, bytes[o], n)
    <3>1. UNCHANGED vars
      BY <1>2, <1>a, <2>1, <2>3
      DEF Reconcile, ReconcileOk, ReconcileExternal, vars
    <3>2. QED
      BY <1>0, <3>1
      DEF BudgetInv, TypeOK, ExactCharges, WithinCap, OwnerBooks, vars
  <2>4. QED
    BY <2>2, <2>3
<1>3. ASSUME NEW o \in Owners, NEW n \in Bytes, ReserveReplacement(o, n)
      PROVE  BudgetInv'
  <2> DEFINE r == Cap - (ext + pnd + prov)
  <2>1. /\ n \in Nat /\ n <= bytes[o] /\ o \in registered
        /\ r \in 0..Cap /\ reserved[o] = 0 /\ n \in 0..Cap
    BY <1>0, <1>3, <1>a, <1>b DEF ReserveReplacement, OwnerBooks
  <2>2. /\ auth' = [auth EXCEPT !.provisional = prov + r]
        /\ open' = open \cup {o}
        /\ reserved' = [reserved EXCEPT ![o] = r]
        /\ excluded' = [excluded EXCEPT ![o] = n]
        /\ working' = [working EXCEPT ![o] = n]
        /\ UNCHANGED <<registered, bytes, pin, context>>
    BY <1>3 DEF ReserveReplacement, ReservedHeadroom, Admitted
  <2>3. /\ auth' \in HostBudgetState /\ auth'.poisoned = FALSE
        /\ auth'.external = ext /\ auth'.pinned = pnd
        /\ auth'.provisional = prov + r /\ auth'.peak = auth.peak
        /\ auth'.external + auth'.pinned + auth'.provisional = Cap
    BY <1>a, <2>1, <2>2 DEF HostBudgetState
  <2> HIDE DEF r
  <2>4. /\ reserved' \in [Owners -> 0..Cap] /\ reserved'[o] = r
        /\ \A p \in Owners \ {o} : reserved'[p] = reserved[p]
    BY <1>b, <2>1, <2>2
  <2>5. Total(reserved', Cap) = prov + r
    BY <1>a, <2>1, <2>4, AdjustReserved
  <2>6. TypeOK'
    BY <1>b, <2>1, <2>2, <2>3, <2>4 DEF TypeOK
  <2>7. ExactCharges' /\ WithinCap'
    BY <1>a, <1>c, <2>2, <2>3, <2>5 DEF ExactCharges, WithinCap, Admitted
  <2>8. OwnerBooks'
    BY <1>0, <1>b, <2>1, <2>2, <2>4 DEF OwnerBooks
  <2>9. QED
    BY <2>6, <2>7, <2>8 DEF BudgetInv
<1>4. ASSUME NEW o \in Owners, NEW n \in Bytes, Allocate(o, n)
      PROVE  BudgetInv'
  <2>1. /\ n \in Nat /\ o \in open
        /\ n <= excluded[o] + reserved[o]
        /\ working' = [working EXCEPT ![o] = n]
        /\ UNCHANGED <<auth, registered, bytes, open, reserved, excluded, pin,
                       context>>
    BY <1>4, <1>b DEF Allocate
  <2>2. TypeOK'
    BY <1>a, <1>b, <2>1 DEF TypeOK
  <2>3. ExactCharges' /\ WithinCap'
    BY <1>0, <2>1 DEF ExactCharges, WithinCap
  <2>4. OwnerBooks'
    BY <1>0, <1>b, <2>1 DEF OwnerBooks
  <2>5. QED
    BY <2>2, <2>3, <2>4 DEF BudgetInv
\* A reservation that ends, committed or not, gives its share back.
<1>e. ASSUME NEW o \in Owners, o \in open, CloseReservation(o)
      PROVE  /\ reserved[o] \in 0..Cap /\ reserved[o] <= prov
             /\ open' = open \ {o} /\ open' \subseteq registered
             /\ reserved' \in [Owners -> 0..Cap]
             /\ excluded' \in [Owners -> 0..Cap]
             /\ working' \in [Owners -> Nat]
             /\ \A p \in Owners \ {o} :
                   /\ reserved'[p] = reserved[p] /\ excluded'[p] = excluded[p]
                   /\ working'[p] = working[p]
             /\ reserved'[o] = 0 /\ excluded'[o] = 0 /\ working'[o] = 0
             /\ Total(reserved', Cap) = prov - reserved[o]
  <2>1. reserved[o] \in 0..Cap /\ reserved[o] <= prov
    BY <1>b, NoUnderflow
  <2>2. /\ open' = open \ {o} /\ open' \subseteq registered
        /\ reserved' = [reserved EXCEPT ![o] = 0]
        /\ excluded' = [excluded EXCEPT ![o] = 0]
        /\ working' = [working EXCEPT ![o] = 0]
    BY <1>b, <1>e DEF CloseReservation
  <2>3. /\ reserved' \in [Owners -> 0..Cap]
        /\ excluded' \in [Owners -> 0..Cap]
        /\ working' \in [Owners -> Nat]
    BY <1>b, <2>2
  <2>4. /\ \A p \in Owners \ {o} :
              /\ reserved'[p] = reserved[p] /\ excluded'[p] = excluded[p]
              /\ working'[p] = working[p]
        /\ reserved'[o] = 0 /\ excluded'[o] = 0 /\ working'[o] = 0
    BY <1>b, <2>2
  <2>5. Total(reserved', Cap) = prov - reserved[o]
    BY <1>a, <2>1, <2>3, <2>4, AdjustReserved
  <2>6. QED
    BY <2>1, <2>2, <2>3, <2>4, <2>5
<1>f. ASSUME NEW n \in Nat, n <= prov
      PROVE  /\ ReleaseReservation(auth, n)
                   = [auth EXCEPT !.provisional = prov - n]
             /\ ReleaseReservation(auth, n) \in HostBudgetState
  BY <1>a, <1>f DEF ReleaseReservation, HostBudgetState
<1>5. ASSUME NEW o \in Owners, NEW n \in Bytes, Commit(o, n)
      PROVE  BudgetInv'
  <2> DEFINE rel == ReleaseReservation(auth, reserved[o])
  <2>1. /\ n \in Nat /\ bytes[o] \in Nat /\ bytes[o] <= ext
        /\ o \in open /\ o \in registered
    BY <1>5, <1>b, NoUnderflow DEF Commit
  <2>2. CloseReservation(o) /\ UNCHANGED <<registered, pin, context>>
    BY <1>5 DEF Commit
  <2>3. /\ reserved[o] \in 0..Cap /\ reserved[o] <= prov
        /\ Total(reserved', Cap) = prov - reserved[o]
    BY <1>e, <2>1, <2>2
  <2>4. /\ rel \in HostBudgetState /\ rel.poisoned = FALSE
        /\ rel.external = ext /\ rel.pinned = pnd
        /\ rel.peak = auth.peak /\ rel.provisional = prov - reserved[o]
    <3>1. /\ rel = [auth EXCEPT !.provisional = prov - reserved[o]]
          /\ rel \in HostBudgetState
      BY <1>f, <2>3
    <3>2. QED
      BY <1>a, <3>1 DEF HostBudgetState
  <2>5. /\ auth' = ReconcileExternal(rel, bytes[o], n)
        /\ bytes' = IF ReconcileOk(rel, bytes[o], n)
                    THEN [bytes EXCEPT ![o] = n] ELSE bytes
    BY <1>5, <2>4 DEF Commit
  <2> HIDE DEF rel
  <2>6. /\ auth' \in HostBudgetState /\ auth'.poisoned = FALSE
        /\ auth'.external = (ext - bytes[o]) + bytes'[o]
        /\ auth'.pinned = pnd /\ auth'.provisional = prov - reserved[o]
        /\ auth'.external + auth'.pinned + auth'.provisional <= Cap
        /\ auth'.external + pnd <= auth'.peak /\ auth'.peak <= Cap
        /\ bytes' \in [Owners -> 0..Cap]
        /\ \A p \in Owners \ {o} : bytes'[p] = bytes[p]
    <3>1. CASE ReconcileOk(rel, bytes[o], n)
      <4>1. /\ auth' \in HostBudgetState /\ auth'.poisoned = FALSE
            /\ auth'.external = (rel.external - bytes[o]) + n
            /\ auth'.pinned = pnd /\ auth'.provisional = rel.provisional
            /\ auth'.external + pnd + rel.provisional <= Cap
            /\ auth'.external + pnd <= auth'.peak
            /\ auth'.peak <= Cap /\ n <= Cap
        BY <1>d, <2>1, <2>4, <2>5, <3>1
      <4>2. bytes' = [bytes EXCEPT ![o] = n]
        BY <2>5, <3>1
      <4>3. /\ bytes' \in [Owners -> 0..Cap] /\ bytes'[o] = n
            /\ \A p \in Owners \ {o} : bytes'[p] = bytes[p]
        BY <1>b, <2>1, <4>1, <4>2
      <4>4. QED
        BY <2>4, <4>1, <4>3
    <3>2. CASE ~ReconcileOk(rel, bytes[o], n)
      <4>1. bytes' = bytes
        BY <2>5, <3>2
      <4>2. ~ReconcileFits(rel, bytes[o], n)
        BY <2>1, <2>4, <3>2 DEF ReconcileOk
      <4>3. auth' = rel
        <5>1. ~(rel.external < bytes[o]) /\ rel.poisoned = FALSE
          BY <1>a, <2>1, <2>4
        <5>2. QED
          BY <2>5, <4>2, <5>1 DEF ReconcileExternal
      <4>4. QED
        BY <1>a, <1>b, <2>1, <2>3, <2>4, <4>1, <4>3
    <3>3. QED
      BY <3>1, <3>2
  <2>7. Total(bytes', Cap) = (ext - bytes[o]) + bytes'[o]
    BY <2>6, AdjustBytes
  <2>8. TypeOK'
    BY <1>b, <1>e, <2>1, <2>2, <2>6 DEF TypeOK
  <2>9. ExactCharges' /\ WithinCap'
    BY <1>c, <2>2, <2>3, <2>6, <2>7 DEF ExactCharges, WithinCap, Admitted
  <2>10. OwnerBooks'
    BY <1>0, <1>b, <1>e, <2>1, <2>2, <2>6 DEF OwnerBooks
  <2>11. QED
    BY <2>8, <2>9, <2>10 DEF BudgetInv
<1>6. ASSUME NEW o \in Owners, DropReservation(o)
      PROVE  BudgetInv'
  <2>1. /\ o \in open /\ CloseReservation(o)
        /\ auth' = ReleaseReservation(auth, reserved[o])
        /\ UNCHANGED <<registered, bytes, pin, context>>
    BY <1>6 DEF DropReservation
  <2>2. /\ reserved[o] \in 0..Cap /\ reserved[o] <= prov
        /\ Total(reserved', Cap) = prov - reserved[o]
    BY <1>e, <2>1
  <2>3. /\ auth' \in HostBudgetState /\ auth'.poisoned = FALSE
        /\ auth'.external = ext /\ auth'.pinned = pnd
        /\ auth'.peak = auth.peak /\ auth'.provisional = prov - reserved[o]
    <3>1. /\ auth' = [auth EXCEPT !.provisional = prov - reserved[o]]
          /\ auth' \in HostBudgetState
      BY <1>f, <2>1, <2>2
    <3>2. QED
      BY <1>a, <3>1 DEF HostBudgetState
  <2>4. TypeOK'
    BY <1>b, <1>e, <2>1, <2>3 DEF TypeOK
  <2>5. ExactCharges' /\ WithinCap'
    BY <1>a, <1>c, <2>1, <2>2, <2>3 DEF ExactCharges, WithinCap, Admitted
  <2>6. OwnerBooks'
    BY <1>0, <1>b, <1>e, <2>1 DEF OwnerBooks
  <2>7. QED
    BY <2>4, <2>5, <2>6 DEF BudgetInv
<1>7. ASSUME NEW o \in Owners, DropOwner(o)
      PROVE  BudgetInv'
  <2>1. /\ bytes[o] <= ext /\ bytes[o] \in 0..Cap
        /\ o \in registered /\ o \notin open
    BY <1>7, <1>b, NoUnderflow DEF DropOwner
  <2>2. ReconcileOk(auth, bytes[o], 0)
    BY <1>a, <2>1 DEF ReconcileOk, ReconcileFits
  <2>3. /\ auth' = ReconcileExternal(auth, bytes[o], 0)
        /\ registered' = registered \ {o}
        /\ bytes' = [bytes EXCEPT ![o] = 0]
        /\ UNCHANGED <<open, reserved, excluded, working, pin, context>>
    BY <1>7, <2>2 DEF DropOwner
  <2>4. /\ auth' \in HostBudgetState /\ auth'.poisoned = FALSE
        /\ auth'.external = (ext - bytes[o]) + 0
        /\ auth'.pinned = pnd /\ auth'.provisional = prov
        /\ auth'.external + pnd + prov <= Cap
        /\ auth'.external + pnd <= auth'.peak
        /\ auth'.peak <= Cap
    BY <1>a, <1>d, <2>1, <2>2, <2>3, 0 \in Nat, bytes[o] \in Nat
  <2>5. /\ bytes' \in [Owners -> 0..Cap] /\ bytes'[o] = 0
        /\ \A p \in Owners \ {o} : bytes'[p] = bytes[p]
    BY <1>b, <2>1, <2>3
  <2>6. Total(bytes', Cap) = (ext - bytes[o]) + 0
    BY <2>5, AdjustBytes
  <2>7. TypeOK'
    BY <1>b, <2>1, <2>3, <2>4, <2>5 DEF TypeOK
  <2>8. ExactCharges' /\ WithinCap'
    BY <1>c, <2>3, <2>4, <2>6 DEF ExactCharges, WithinCap, Admitted
  <2>9. OwnerBooks'
    BY <1>0, <1>b, <2>1, <2>3, <2>5 DEF OwnerBooks
  <2>10. QED
    BY <2>7, <2>8, <2>9 DEF BudgetInv
<1>8. ASSUME NEW b \in Blocks, NEW n \in Bytes \ {0}, ReservePinned(b, n)
      PROVE  BudgetInv'
  <2>1. n \in Nat /\ pin[b] = 0
    BY <1>8 DEF ReservePinned
  <2>2. CASE ReservePinnedOk(auth, n)
    <3>1. /\ auth' = ReservePinnedBytes(auth, n)
          /\ pin' = [pin EXCEPT ![b] = n]
          /\ UNCHANGED <<registered, bytes, open, reserved, excluded, working,
                         context>>
      BY <1>8, <2>2 DEF ReservePinned
    <3>2. /\ auth' \in HostBudgetState /\ auth'.poisoned = FALSE
          /\ auth'.external = ext /\ auth'.pinned = pnd + n
          /\ auth'.provisional = prov /\ ext + auth'.pinned + prov <= Cap
          /\ ext + auth'.pinned <= auth'.peak /\ auth'.peak <= Cap
          /\ n <= Cap
      <4> DEFINE m == Max2(auth.peak, ext + pnd + n)
      <4>1. ext + pnd + n + prov <= Cap
        BY <2>2 DEF ReservePinnedOk
      <4>a. pnd + n \in Nat /\ ext + pnd + n \in Nat
        BY <1>a, <2>1
      <4>2. /\ m \in Nat /\ auth.peak <= m /\ ext + pnd + n <= m
            /\ m = auth.peak \/ m = ext + pnd + n
        BY <1>a, <4>a, MaxFacts
      <4>3. auth' = [auth EXCEPT !.pinned = pnd + n, !.peak = m]
        BY <2>2, <3>1 DEF ReservePinnedBytes
      <4> HIDE DEF m
      <4>4. /\ auth' \in HostBudgetState /\ auth'.poisoned = FALSE
            /\ auth'.external = ext /\ auth'.pinned = pnd + n
            /\ auth'.provisional = prov /\ auth'.peak = m
        BY <1>a, <4>a, <4>2, <4>3 DEF HostBudgetState
      <4>5. QED
        BY <1>a, <2>1, <4>1, <4>2, <4>4
    <3>3. /\ pin' \in [Blocks -> 0..Cap] /\ pin'[b] = n
          /\ \A p \in Blocks \ {b} : pin'[p] = pin[p]
      BY <1>b, <2>1, <3>1, <3>2
    <3>4. Total(pin', Cap) = pnd + n
      BY <1>a, <2>1, <3>3, AdjustPinned
    <3>5. TypeOK'
      BY <1>b, <3>1, <3>2, <3>3 DEF TypeOK
    <3>6. ExactCharges' /\ WithinCap'
      BY <1>c, <3>1, <3>2, <3>4 DEF ExactCharges, WithinCap, Admitted
    <3>7. OwnerBooks'
      BY <1>0, <3>1 DEF OwnerBooks
    <3>8. QED
      BY <3>5, <3>6, <3>7 DEF BudgetInv
  <2>3. CASE ~ReservePinnedOk(auth, n)
    <3>1. UNCHANGED vars
      BY <1>8, <2>3 DEF ReservePinned, ReservePinnedBytes, vars
    <3>2. QED
      BY <1>0, <3>1
      DEF BudgetInv, TypeOK, ExactCharges, WithinCap, OwnerBooks, vars
  <2>4. QED
    BY <2>2, <2>3
<1>9. ASSUME NEW b \in Blocks, ReleasePinned(b)
      PROVE  BudgetInv'
  <2>1. pin[b] <= pnd /\ pin[b] \in 0..Cap
    BY <1>b, NoUnderflow
  <2>2. /\ auth' = ReleasePinnedBytes(auth, pin[b])
        /\ pin' = [pin EXCEPT ![b] = 0]
        /\ UNCHANGED <<registered, bytes, open, reserved, excluded, working,
                       context>>
    BY <1>9 DEF ReleasePinned
  <2>3. /\ auth' \in HostBudgetState /\ auth'.poisoned = FALSE
        /\ auth'.external = ext /\ auth'.pinned = pnd - pin[b]
        /\ auth'.provisional = prov /\ auth'.peak = auth.peak
    BY <1>a, <2>1, <2>2 DEF ReleasePinnedBytes, HostBudgetState
  <2>4. /\ pin' \in [Blocks -> 0..Cap] /\ pin'[b] = 0
        /\ \A p \in Blocks \ {b} : pin'[p] = pin[p]
    BY <1>b, <2>2
  <2>5. Total(pin', Cap) = pnd - pin[b]
    BY <1>a, <2>1, <2>4, AdjustPinned
  <2>6. TypeOK'
    BY <1>b, <2>2, <2>3, <2>4 DEF TypeOK
  <2>7. ExactCharges' /\ WithinCap'
    BY <1>a, <1>c, <2>1, <2>2, <2>3, <2>5
    DEF ExactCharges, WithinCap, Admitted
  <2>8. OwnerBooks'
    BY <1>0, <2>2 DEF OwnerBooks
  <2>9. QED
    BY <2>6, <2>7, <2>8 DEF BudgetInv
<1>10. ASSUME ClearPinnedAfterContextDrop
       PROVE  BudgetInv'
  <2>1. /\ pin' \in [Blocks -> {0}] /\ context' = "dropped"
        /\ auth' = [auth EXCEPT !.pinned = 0]
        /\ UNCHANGED <<registered, bytes, open, reserved, excluded, working>>
    BY <1>10 DEF ClearPinnedAfterContextDrop
  <2>2. Total(pin', Cap) = 0
    BY <2>1, TotalZero
  <2>3. /\ auth' \in HostBudgetState /\ auth'.poisoned = FALSE
        /\ auth'.external = ext /\ auth'.pinned = 0
        /\ auth'.provisional = prov /\ auth'.peak = auth.peak
    BY <1>a, <2>1 DEF HostBudgetState
  <2>4. TypeOK'
    BY <1>b, <2>1, <2>3 DEF TypeOK
  <2>5. ExactCharges' /\ WithinCap'
    BY <1>a, <1>c, <2>1, <2>2, <2>3 DEF ExactCharges, WithinCap, Admitted
  <2>6. OwnerBooks'
    BY <1>0, <2>1 DEF OwnerBooks
  <2>7. QED
    BY <2>4, <2>5, <2>6 DEF BudgetInv
<1>11. CASE UNCHANGED vars
  BY <1>0, <1>11
  DEF BudgetInv, TypeOK, ExactCharges, WithinCap, OwnerBooks, vars
<1>12. QED
  BY <1>1, <1>2, <1>3, <1>4, <1>5, <1>6, <1>7, <1>8, <1>9, <1>10, <1>11
  DEF Next

\* The inductive invariant holds in every reachable state.
THEOREM BudgetInvariant == Spec => []BudgetInv
  BY InitBudget, StepBudget, PTL DEF Spec

\* Type correctness of the authority and of everything its clients hold.
THEOREM TypeCorrect == Spec => []TypeOK
<1>1. BudgetInv => TypeOK
  BY DEF BudgetInv
<1>2. QED
  BY <1>1, BudgetInvariant, PTL

\* The authority's counters are the exact sums of the live charges, and no
\* accounting path of host_budget.rs ever poisons it.
THEOREM ChargesAreExact == Spec => []ExactCharges
<1>1. BudgetInv => ExactCharges
  BY DEF BudgetInv
<1>2. QED
  BY <1>1, BudgetInvariant, PTL

\* The cap on registered, pinned and promised bytes is never exceeded.
THEOREM CapRespected == Spec => []WithinCap
<1>1. BudgetInv => WithinCap
  BY DEF BudgetInv
<1>2. QED
  BY <1>1, BudgetInvariant, PTL

\* Nor is it exceeded by what open transactions have allocated already and
\* will only register when they commit.
THEOREM TransactionsWithinCap == Spec => []UncommittedWithinCap
<1> USE BudgetAssumption
<1>1. BudgetInv => UncommittedWithinCap
  <2> SUFFICES ASSUME BudgetInv PROVE UncommittedWithinCap
    OBVIOUS
  <2>1. /\ Unregistered \in [Owners -> Nat] /\ reserved \in [Owners -> Nat]
        /\ \A o \in Owners : Unregistered[o] <= reserved[o]
    BY DEF BudgetInv, TypeOK, OwnerBooks, Unregistered
  <2>2. Total(Unregistered, Cap) <= Total(reserved, Cap)
    BY <2>1, TotalMonotone
  <2>3. Total(Unregistered, Cap) \in Nat
    BY <2>1, TotalType
  <2>4. QED
    BY <2>2, <2>3
    DEF BudgetInv, TypeOK, ExactCharges, WithinCap, UncommittedWithinCap,
        Admitted, HostBudgetState
<1>2. QED
  BY <1>1, BudgetInvariant, PTL

\* A transaction that stayed within what it was told gets the charge it
\* commits: its own headroom is free again when the charge is tested.
LEMMA CommitGranted ==
    ASSUME BudgetInv, NEW o \in open, NEW n \in Nat, Commit(o, n),
           n <= (bytes[o] - excluded[o]) + working[o]
    PROVE  bytes' = [bytes EXCEPT ![o] = n]
<1> USE BudgetAssumption
<1> DEFINE rel == [auth EXCEPT !.provisional = auth.provisional - reserved[o]]
<1>1. /\ o \in Owners /\ bytes[o] <= auth.external
      /\ reserved[o] <= auth.provisional
      /\ bytes[o] \in 0..Cap /\ reserved[o] \in 0..Cap
      /\ excluded[o] \in 0..Cap /\ working[o] \in Nat
      /\ working[o] <= excluded[o] + reserved[o]
  BY NoUnderflow DEF BudgetInv, TypeOK, OwnerBooks
<1>2. ReleaseReservation(auth, reserved[o]) = rel
  BY <1>1 DEF ReleaseReservation, BudgetInv, ExactCharges, TypeOK,
              HostBudgetState
<1>3. ReconcileOk(rel, bytes[o], n)
  BY <1>1
  DEF ReconcileOk, ReconcileFits, BudgetInv, ExactCharges, WithinCap,
      TypeOK, HostBudgetState, Admitted
<1> HIDE DEF rel
<1>4. QED
  BY <1>2, <1>3 DEF Commit

\* It is never refused at its commit.
THEOREM CommitsAreHonoured == Spec => CommitHonoured
<1> DEFINE Honoured ==
      \A o \in open, n \in Bytes :
         Commit(o, n) /\ n <= (bytes[o] - excluded[o]) + working[o]
         => bytes'[o] = n
<1>1. BudgetInv /\ [Next]_vars => [Honoured]_vars
  <2> SUFFICES ASSUME BudgetInv, NEW o \in open, NEW n \in Bytes,
                      Commit(o, n),
                      n <= (bytes[o] - excluded[o]) + working[o]
               PROVE  bytes'[o] = n
    OBVIOUS
  <2>1. o \in Owners /\ n \in Nat /\ bytes \in [Owners -> 0..Cap]
    BY BudgetAssumption DEF BudgetInv, TypeOK
  <2>2. bytes' = [bytes EXCEPT ![o] = n]
    BY <2>1, CommitGranted
  <2>3. QED
    BY <2>1, <2>2
<1>2. QED
  BY <1>1, BudgetInvariant, PTL DEF Spec, CommitHonoured
=============================================================================
