------------------------- MODULE StagedBatchProofs -------------------------
(***************************************************************************)
(* What a CpuBatchDecoder answers, for every batch, window, number of      *)
(* workers, tiles and code blocks: the rows of a returned call hold their  *)
(* own inputs' samples, and every input is answered once.                  *)
(*                                                                         *)
(* The properties speak of a call that has returned.  Inductive is what    *)
(* every stage has made of every image by then: what its scratch holds     *)
(* (Ready, Opened), which faults it has survived (Spared), whom an error   *)
(* may be blamed on (Calm), and that each job of the entropy stage has a   *)
(* worker before it or an answer behind it (Staffing).                     *)
(***************************************************************************)
EXTENDS StagedBatch, ByteTotalsTheorems

-----------------------------------------------------------------------------
(* Filters, groups, jobs                                                   *)


\* What concatenation gives.
LEMMA Joined ==
    ASSUME NEW S, NEW a \in Seq(S), NEW b \in Seq(S)
    PROVE  /\ a \o b \in Seq(S) /\ Len(a \o b) = Len(a) + Len(b)
           /\ \A i \in 1..(Len(a) + Len(b)) :
                 (a \o b)[i] = IF i <= Len(a) THEN a[i] ELSE b[i - Len(a)]
  OBVIOUS

\* Induction, with the property as a set.
LEMMA Climb ==
    ASSUME NEW n \in Nat, NEW G, 0 \in G, \A k \in 1..n : k - 1 \in G => k \in G
    PROVE  \A k \in 0..n : k \in G
<1> DEFINE Bad == {k \in 0..n : k \notin G}
<1> SUFFICES ASSUME Bad # {} PROVE FALSE
  OBVIOUS
<1>1. Bad \subseteq Nat
  OBVIOUS
<1> HIDE DEF Bad
<1>2. PICK k \in Bad : \A j \in Bad : k <= j
  BY <1>1, LeastExists
<1> USE DEF Bad
<1>3. k # 0
  OBVIOUS
<1>4. k - 1 \in 0..n /\ k \in 1..n
  BY <1>3
<1>5. k - 1 \notin Bad
  BY <1>2, <1>4
<1> QED
  BY <1>4, <1>5

\* f is the recursion of Kept up to m.
Filters(f, seq, P, m) ==
    f = [n \in 0..m |->
            IF n = 0 THEN <<>>
            ELSE IF seq[n] \in P THEN Append(f[n - 1], seq[n]) ELSE f[n - 1]]

\* The recursion of Kept has a solution for every prefix.
LEMMA KeptDefined ==
    ASSUME NEW S, NEW seq \in Seq(S), NEW P
    PROVE  \E f : Filters(f, seq, P, Len(seq))
<1> DEFINE Solves(f, k) == Filters(f, seq, P, k)
<1> USE DEF Filters
<1> DEFINE G == {k \in 0..Len(seq) : \E f : Solves(f, k)}
<1>1. 0 \in G
  <2>1. Solves([n \in 0..0 |-> <<>>], 0) /\ 0 \in 0..Len(seq)
    OBVIOUS
  <2> HIDE DEF Solves
  <2> QED
    BY <2>1
<1>2. ASSUME NEW k \in 1..Len(seq), k - 1 \in G PROVE k \in G
  <2>2. PICK f : Solves(f, k - 1)
    BY <1>2
  <2> DEFINE h == [n \in 0..k |->
                     IF n < k THEN f[n]
                     ELSE IF seq[n] \in P THEN Append(f[n - 1], seq[n]) ELSE f[n - 1]]
  <2>3. ASSUME NEW n \in 0..k
        PROVE  h[n] = IF n = 0 THEN <<>>
                      ELSE IF seq[n] \in P THEN Append(h[n - 1], seq[n]) ELSE h[n - 1]
    <3>1. CASE n < k
      <4>1. n \in 0..(k - 1) /\ h[n] = f[n] /\ (n # 0 => h[n - 1] = f[n - 1])
        BY <3>1
      <4> QED
        BY <4>1, <2>2
    <3>2. CASE n = k
      BY <3>2
    <3> QED
      BY <3>1, <3>2
  <2>4. h = [n \in 0..k |-> h[n]]
    OBVIOUS
  <2> HIDE DEF h
  <2>5. Solves(h, k)
    BY <2>3, <2>4
  <2> QED
    BY <2>5
<1>3. Len(seq) \in Nat
  OBVIOUS
<1> HIDE DEF G
<1>4. Len(seq) \in G
  <2>1. \A k \in 1..Len(seq) : k - 1 \in G => k \in G
    BY <1>2
  <2>2. \A k \in 0..Len(seq) : k \in G
    BY <1>1, <1>3, <2>1, Climb
  <2> QED
    BY <2>2, <1>3
<1> QED
  BY <1>4 DEF G

\* What k has of seq: the elements in P, in their order, found at places e.
Selects(k, e, seq, P, m) ==
    /\ e \in [1..Len(k) -> 1..m]
    /\ \A i \in 1..Len(k) : k[i] = seq[e[i]] /\ seq[e[i]] \in P /\ i <= e[i]
    /\ \A i, j \in 1..Len(k) : i < j => e[i] < e[j]
    /\ \A j \in 1..m : seq[j] \in P => \E i \in 1..Len(k) : e[i] = j

\* What a filter keeps: elements of the sequence, in its order, all that belong to P.
LEMMA KeptFacts ==
    ASSUME NEW S, NEW seq \in Seq(S), NEW P
    PROVE  /\ Kept(seq, P) \in Seq(S)
           /\ \E e : Selects(Kept(seq, P), e, seq, P, Len(seq))
<1> DEFINE Solves(f) == Filters(f, seq, P, Len(seq))
<1>1. PICK kept : Solves(kept) /\ Kept(seq, P) = kept[Len(seq)]
  <2> DEFINE kept == CHOOSE f : Solves(f)
  <2>1. Solves(kept)
    BY KeptDefined
  <2>2. Kept(seq, P) = kept[Len(seq)]
    BY DEF Kept, Filters
  <2> QED
    BY <2>1, <2>2
<1> USE DEF Filters
<1> DEFINE Good(n) == kept[n] \in Seq(S) /\ \E e : Selects(kept[n], e, seq, P, n)
<1> DEFINE G == {n \in 0..Len(seq) : Good(n)}
<1>2. kept[0] = <<>>
  BY <1>1
<1>3. \A n \in 1..Len(seq) :
         kept[n] = IF seq[n] \in P THEN Append(kept[n - 1], seq[n]) ELSE kept[n - 1]
  <2>1. \A n \in 0..Len(seq) :
           kept[n] = IF n = 0 THEN <<>>
                     ELSE IF seq[n] \in P THEN Append(kept[n - 1], seq[n]) ELSE kept[n - 1]
    BY <1>1
  <2> QED
    BY <2>1
<1> HIDE DEF Solves, Filters
<1>4. Good(0)
  <2>1. Selects(<<>>, [i \in 1..0 |-> 1], seq, P, 0)
    BY DEF Selects
  <2> QED
    BY <1>2, <2>1
<1>5. ASSUME NEW n \in 1..Len(seq), Good(n - 1) PROVE Good(n)
  <2>1. PICK e : Selects(kept[n - 1], e, seq, P, n - 1)
    BY <1>5
  <2>2. CASE seq[n] \notin P
    <3>1. Selects(kept[n - 1], e, seq, P, n)
      BY <2>1, <2>2 DEF Selects
    <3> QED
      BY <3>1, <1>3, <1>5, <2>2
  <2>3. CASE seq[n] \in P
    <3> DEFINE old == kept[n - 1]
    <3> DEFINE new == Append(old, seq[n])
    <3> DEFINE d == [i \in 1..(Len(old) + 1) |-> IF i <= Len(old) THEN e[i] ELSE n]
    <3>1. old \in Seq(S) /\ new \in Seq(S) /\ Len(new) = Len(old) + 1
          /\ Len(old) \in Nat /\ new[Len(old) + 1] = seq[n]
          /\ \A i \in 1..Len(old) : new[i] = old[i]
      BY <1>5
    <3>2. /\ e \in [1..Len(old) -> 1..(n - 1)]
          /\ \A i \in 1..Len(old) : old[i] = seq[e[i]] /\ seq[e[i]] \in P /\ i <= e[i]
          /\ \A i, j \in 1..Len(old) : i < j => e[i] < e[j]
          /\ \A j \in 1..(n - 1) : seq[j] \in P => \E i \in 1..Len(old) : e[i] = j
      BY <2>1 DEF Selects
    <3> HIDE DEF old, new
    <3>3. Len(old) <= n - 1
      <4>1. CASE Len(old) = 0
        BY <4>1
      <4>2. CASE Len(old) # 0
        <5>1. Len(old) \in 1..Len(old)
          BY <4>2, <3>1
        <5>2. Len(old) <= e[Len(old)] /\ e[Len(old)] \in 1..(n - 1)
          BY <5>1, <3>2
        <5> QED
          BY <5>2, <3>1
      <4> QED
        BY <4>1, <4>2
    <3>4. d \in [1..Len(new) -> 1..n]
      BY <3>1, <3>2
    <3>5. \A i \in 1..Len(new) : new[i] = seq[d[i]] /\ seq[d[i]] \in P /\ i <= d[i]
      BY <3>1, <3>2, <3>3, <2>3
    <3>6. \A i, j \in 1..Len(new) : i < j => d[i] < d[j]
      BY <3>1, <3>2
    <3>7. \A j \in 1..n : seq[j] \in P => \E i \in 1..Len(new) : d[i] = j
      <4> SUFFICES ASSUME NEW j \in 1..n, seq[j] \in P
                   PROVE  \E i \in 1..Len(new) : d[i] = j
        OBVIOUS
      <4>1. CASE j = n
        <5>1. Len(old) + 1 \in 1..Len(new) /\ d[Len(old) + 1] = n
          BY <3>1
        <5> QED
          BY <5>1, <4>1
      <4>2. CASE j # n
        <5>0. j \in 1..(n - 1)
          BY <4>2
        <5>1. PICK i \in 1..Len(old) : e[i] = j
          BY <3>2, <5>0, Zenon
        <5>2. i \in 1..Len(new) /\ d[i] = j
          BY <5>1, <3>1
        <5> QED
          BY <5>2
      <4> QED
        BY <4>1, <4>2
    <3> HIDE DEF d
    <3>8. Selects(new, d, seq, P, n)
      BY <3>4, <3>5, <3>6, <3>7 DEF Selects
    <3>9. kept[n] = new
      BY <1>3, <2>3 DEF new, old
    <3> QED
      BY <3>8, <3>9, <3>1
  <2> QED
    BY <2>2, <2>3
<1>6. Len(seq) \in Nat /\ 0 \in G /\ \A k \in 1..Len(seq) : k - 1 \in G => k \in G
  <2> HIDE DEF Good
  <2>1. Len(seq) \in Nat
    OBVIOUS
  <2> QED
    BY <1>4, <1>5, <2>1
<1>8. Len(seq) \in G
  <2> HIDE DEF G
  <2>1. \A k \in 0..Len(seq) : k \in G
    BY <1>6, Climb
  <2> QED
    BY <1>6, <2>1
<1>7. Good(Len(seq))
  BY <1>8
<1> QED
  BY <1>7, <1>1

\* k lists the numbers up to n that are in P, in order.
Lists(k, n, P) ==
    /\ k \in Seq(1..n)
    /\ \A i \in 1..Len(k) : k[i] \in 1..n /\ k[i] \in P /\ i <= k[i]
    /\ \A i, j \in 1..Len(k) : i < j => k[i] < k[j]
    /\ \A i, j \in 1..Len(k) : k[i] = k[j] => i = j
    /\ \A x \in 1..n : x \in P => \E i \in 1..Len(k) : k[i] = x

\* Filtering the indices of a sequence lists them.
LEMMA KeptLists ==
    ASSUME NEW seq, Len(seq) \in Nat, NEW P
    PROVE  Lists(Kept(Indices(seq), P), Len(seq), P)
<1> DEFINE n == Len(seq)
<1> DEFINE ix == Indices(seq)
<1>1. ix \in Seq(1..n) /\ Len(ix) = n /\ \A i \in 1..n : ix[i] = i
  BY DEF Indices
<1> HIDE DEF n, ix
<1> DEFINE k == Kept(ix, P)
<1>2. k \in Seq(1..n) /\ \E e : Selects(k, e, ix, P, n)
  BY <1>1, KeptFacts
<1>3. PICK e : Selects(k, e, ix, P, n)
  BY <1>2
<1> HIDE DEF k
<1>4. Len(k) \in Nat /\ n \in Nat
  BY <1>2 DEF n
<1>5. /\ e \in [1..Len(k) -> 1..n]
      /\ \A i \in 1..Len(k) : k[i] = e[i] /\ e[i] \in P /\ i <= e[i]
      /\ \A i, j \in 1..Len(k) : i < j => e[i] < e[j]
      /\ \A j \in 1..n : j \in P => \E i \in 1..Len(k) : e[i] = j
  BY <1>1, <1>3 DEF Selects
<1>6. \A i, j \in 1..Len(k) : k[i] = k[j] => i = j
  BY <1>5, <1>4
<1>7. Lists(k, n, P)
  BY <1>2, <1>5, <1>6 DEF Lists
<1> QED
  BY <1>7 DEF k, n, ix

\* f is the recursion of Compacted.
Copies(f, rows, kept) ==
    f = [n \in 0..Len(kept) |->
            IF n = 0 THEN rows
            ELSE [f[n - 1] EXCEPT ![n] = f[n - 1][kept[n]]]]

\* A function on the rows of n slots.
Rowed(rows, n) == \E h : rows = [i \in 1..n |-> h[i]]

\* Rows copied towards the front in order overwrite none that is still needed.
LEMMA CompactedRows ==
    ASSUME NEW n \in Nat, NEW P, NEW kept, Lists(kept, n, P),
           NEW rows, Rowed(rows, n)
    PROVE  Compacted(rows, kept) = [i \in 1..Len(kept) |-> rows[kept[i]]]
<1>a. PICK h : rows = [i \in 1..n |-> h[i]]
  BY DEF Rowed
<1> USE <1>a
<1> DEFINE m == Len(kept)
<1>0. DOMAIN rows = 1..n /\ \A f : f = [i \in 1..n |-> f[i]] /\ (\A i \in 1..n : f[i] = rows[i]) => f = rows
  OBVIOUS
<1>1. /\ m \in Nat /\ kept \in [1..m -> 1..n]
      /\ \A i \in 1..m : kept[i] \in 1..n /\ i <= kept[i] /\ i \in 1..n
      /\ \A i, j \in 1..m : i < j => kept[i] < kept[j]
  BY DEF Lists
<1> HIDE DEF m
<1> DEFINE front(k) == [i \in 1..n |-> IF i <= k THEN rows[kept[i]] ELSE rows[i]]
<1> DEFINE closed == [k \in 0..m |-> front(k)]
<1>2. front(0) = rows
  BY <1>0
<1>3. ASSUME NEW k \in 1..m
      PROVE  front(k) = [front(k - 1) EXCEPT ![k] = front(k - 1)[kept[k]]]
  <2>1. kept[k] \in 1..n /\ k \in 1..n /\ ~ (kept[k] <= k - 1)
    BY <1>1
  <2>2. front(k - 1)[kept[k]] = rows[kept[k]]
    BY <2>1
  <2>3. ASSUME NEW i \in 1..n
        PROVE  front(k)[i] = [front(k - 1) EXCEPT ![k] = front(k - 1)[kept[k]]][i]
    BY <2>1, <2>2
  <2> QED
    BY <2>3
<1> HIDE DEF front
<1>4. Copies(closed, rows, kept)
  <2>1. ASSUME NEW k \in 0..m
        PROVE  closed[k] = IF k = 0 THEN rows
                           ELSE [closed[k - 1] EXCEPT ![k] = closed[k - 1][kept[k]]]
    <3>1. CASE k = 0
      BY <3>1, <1>2
    <3>2. CASE k # 0
      <4>1. k \in 1..m /\ k - 1 \in 0..m /\ closed[k] = front(k)
            /\ closed[k - 1] = front(k - 1)
        BY <3>2, <1>1
      <4> HIDE DEF closed
      <4> QED
        BY <4>1, <3>2, <1>3
    <3> QED
      BY <3>1, <3>2
  <2>2. closed = [k \in 0..m |-> closed[k]]
    OBVIOUS
  <2> HIDE DEF closed
  <2> QED
    BY <2>1, <2>2 DEF Copies, m
<1> DEFINE f == CHOOSE c : Copies(c, rows, kept)
<1>5. Copies(f, rows, kept)
  BY <1>4
<1>6. Compacted(rows, kept) = [i \in 1..m |-> f[m][i]]
  BY DEF Compacted, Copies, m
<1> HIDE DEF f, closed
<1>7. /\ f[0] = rows
      /\ \A k \in 1..m : f[k] = [f[k - 1] EXCEPT ![k] = f[k - 1][kept[k]]]
  <2>1. \A k \in 0..m : f[k] = IF k = 0 THEN rows
                                 ELSE [f[k - 1] EXCEPT ![k] = f[k - 1][kept[k]]]
    BY <1>5 DEF Copies, m
  <2>2. 0 \in 0..m /\ \A k \in 1..m : k \in 0..m /\ k # 0
    BY <1>1
  <2> QED
    BY <2>1, <2>2
<1> DEFINE G == {k \in 0..m : f[k] = front(k)}
<1>8. 0 \in G /\ \A k \in 1..m : k - 1 \in G => k \in G
  <2>1. 0 \in G
    <3>1. f[0] = front(0) /\ 0 \in 0..m
      BY <1>2, <1>7, <1>1
    <3> QED
      BY <3>1
  <2>2. ASSUME NEW k \in 1..m, k - 1 \in G PROVE k \in G
    <3>1. f[k - 1] = front(k - 1) /\ k \in 0..m
      BY <2>2
    <3>2. f[k] = front(k)
      BY <3>1, <1>3, <1>7
    <3> QED
      BY <3>1, <3>2
  <2> QED
    BY <2>1, <2>2
<1>9. f[m] = front(m)
  <2> HIDE DEF G
  <2>1. \A k \in 0..m : k \in G
    BY <1>1, <1>8, Climb
  <2>2. m \in G
    BY <2>1, <1>1
  <2> QED
    BY <2>2 DEF G
<1>10. \A i \in 1..m : front(m)[i] = rows[kept[i]]
  BY <1>1 DEF front
<1>11. [i \in 1..m |-> f[m][i]] = [i \in 1..m |-> rows[kept[i]]]
  BY <1>9, <1>10
<1> QED
  BY <1>6, <1>11 DEF m

\* Distinct numbers are sorted into ascending order.
LEMMA SortedFacts ==
    ASSUME NEW seq, Len(seq) \in Nat, \A i \in 1..Len(seq) : seq[i] \in Nat,
           \A i, j \in 1..Len(seq) : seq[i] = seq[j] => i = j
    PROVE  /\ DOMAIN Sorted(seq) = 1..Len(seq) /\ Len(Sorted(seq)) = Len(seq)
           /\ \A i \in 1..Len(seq) : \E j \in 1..Len(seq) : Sorted(seq)[i] = seq[j]
           /\ \A j \in 1..Len(seq) : \E i \in 1..Len(seq) : Sorted(seq)[i] = seq[j]
           /\ \A i, j \in 1..Len(seq) : i < j => Sorted(seq)[i] < Sorted(seq)[j]
<1> DEFINE n == Len(seq)
<1> DEFINE D == 1..n
<1> DEFINE Ordered(p) == \A i, j \in D : i < j => seq[p[i]] <= seq[p[j]]
<1> DEFINE upto(i) == {j \in D : seq[j] <= seq[i]}
<1> DEFINE rank == [i \in D |-> Cardinality(upto(i))]
<1>1. IsFiniteSet(D) /\ Cardinality(D) = n
  <2>1. n \in Nat
    OBVIOUS
  <2> HIDE DEF n
  <2>2. 1 \in Int /\ n \in Int
    BY <2>1
  <2>3. IsFiniteSet(1..n) /\ Cardinality(1..n) = IF 1 > n THEN 0 ELSE n - 1 + 1
    BY <2>2, FS_Interval, Zenon
  <2> QED
    BY <2>1, <2>3
<1>0. /\ n \in Nat
      /\ \A i \in D : i \in Nat /\ i <= n /\ seq[i] \in Nat
      /\ \A i, j \in D : seq[i] = seq[j] => i = j
  OBVIOUS
<1> HIDE DEF D
<1>2. \A i \in D : IsFiniteSet(upto(i)) /\ Cardinality(upto(i)) \in D
  <2> TAKE i \in D
  <2>1. upto(i) \subseteq D /\ i \in upto(i)
    BY <1>0
  <2> HIDE DEF upto
  <2>2. /\ IsFiniteSet(upto(i)) /\ Cardinality(upto(i)) \in Nat
        /\ Cardinality(upto(i)) <= n
    BY <2>1, <1>1, FS_Subset, FS_CardinalityType
  <2>3. Cardinality(upto(i)) # 0
    BY <2>1, <2>2, FS_EmptySet
  <2> QED
    BY <1>0, <2>2, <2>3 DEF D
<1>3. ASSUME NEW i \in D, NEW j \in D, seq[i] < seq[j] PROVE rank[i] < rank[j]
  <2>1. upto(i) \subseteq upto(j) /\ j \in upto(j) /\ j \notin upto(i)
    BY <1>0, <1>3
  <2>2. rank[i] = Cardinality(upto(i)) /\ rank[j] = Cardinality(upto(j))
    OBVIOUS
  <2>3. rank[i] \in Nat /\ rank[j] \in Nat
    BY <1>0, <1>2, <2>2
  <2> HIDE DEF upto, rank
  <2>4. rank[i] <= rank[j] /\ rank[i] # rank[j]
    BY <2>1, <2>2, <1>2, FS_Subset
  <2> QED
    BY <2>3, <2>4
<1>4. rank \in Injection(D, D)
  <2>1. rank \in [D -> D]
    BY <1>2
  <2>2. ASSUME NEW i \in D, NEW j \in D, rank[i] = rank[j] PROVE i = j
    <3>0. rank[i] \in D /\ rank[j] \in D
      BY <2>1
    <3>1. rank[i] \in Nat /\ rank[j] \in Nat /\ seq[i] \in Nat /\ seq[j] \in Nat
      BY <1>0, <3>0
    <3> HIDE DEF rank
    <3>2. ~ (seq[i] < seq[j]) /\ ~ (seq[j] < seq[i])
      BY <1>3, <2>2, <3>1
    <3> QED
      BY <1>0, <3>1, <3>2
  <2> HIDE DEF rank
  <2> QED
    BY <2>1, <2>2 DEF Injection, IsInjective
<1> HIDE DEF rank, upto
<1>5. rank \in Surjection(D, D)
  BY <1>1, <1>4, FS_Injection
<1> DEFINE at == [r \in D |-> CHOOSE i \in D : rank[i] = r]
<1>6. \A r \in D : at[r] \in D /\ rank[at[r]] = r
  BY <1>5 DEF Surjection
<1>7. at \in Injection(D, D) /\ Ordered(at)
  <2>1. at \in [D -> D]
    BY <1>6
  <2> HIDE DEF at
  <2>2. at \in Injection(D, D)
    BY <2>1, <1>6 DEF Injection, IsInjective
  <2>3. ASSUME NEW i \in D, NEW j \in D, i < j PROVE seq[at[i]] <= seq[at[j]]
    <3>1. at[i] \in D /\ at[j] \in D /\ rank[at[i]] = i /\ rank[at[j]] = j
          /\ i \in Nat /\ j \in Nat
      BY <1>0, <1>6
    <3>2. seq[at[i]] \in Nat /\ seq[at[j]] \in Nat
      BY <1>0, <3>1
    <3>3. ~ (seq[at[j]] < seq[at[i]])
      <4> SUFFICES ASSUME seq[at[j]] < seq[at[i]] PROVE FALSE
        OBVIOUS
      <4>1. rank[at[j]] < rank[at[i]]
        BY <1>3, <3>1
      <4> QED
        BY <4>1, <3>1, <2>3
    <3> QED
      BY <3>2, <3>3
  <2> QED
    BY <2>2, <2>3
<1> DEFINE order == CHOOSE p \in Injection(D, D) : Ordered(p)
<1>8. order \in Injection(D, D) /\ Ordered(order)
  <2> HIDE DEF Ordered, at
  <2> QED
    BY <1>7
<1>9. Sorted(seq) = [i \in D |-> seq[order[i]]]
  BY DEF Sorted, D
<1> HIDE DEF order, at
<1>10. /\ \A i \in D : order[i] \in D
       /\ \A i, j \in D : order[i] = order[j] => i = j
  BY <1>8 DEF Injection, IsInjective
<1>11. \A j \in D : \E i \in D : order[i] = j
  <2>1. order \in Surjection(D, D)
    BY <1>1, <1>8, FS_Injection
  <2> QED
    BY <2>1 DEF Surjection
<1>12. ASSUME NEW i \in D, NEW j \in D, i < j PROVE seq[order[i]] < seq[order[j]]
  <2>1. seq[order[i]] <= seq[order[j]] /\ order[i] # order[j]
    BY <1>0, <1>8, <1>10, <1>12
  <2>2. seq[order[i]] # seq[order[j]] /\ seq[order[i]] \in Nat /\ seq[order[j]] \in Nat
    BY <1>0, <2>1, <1>10
  <2> QED
    BY <2>1, <2>2
<1>13. DOMAIN Sorted(seq) = D /\ Len(Sorted(seq)) = n
       /\ \A i \in D : Sorted(seq)[i] = seq[order[i]]
  BY <1>0, <1>9 DEF D
<1>14. /\ \A i \in D : \E j \in D : Sorted(seq)[i] = seq[j]
       /\ \A j \in D : \E i \in D : Sorted(seq)[i] = seq[j]
       /\ \A i, j \in D : i < j => Sorted(seq)[i] < Sorted(seq)[j]
  <2>1. \A i \in D : \E j \in D : Sorted(seq)[i] = seq[j]
    BY <1>10, <1>13
  <2>2. \A j \in D : \E i \in D : Sorted(seq)[i] = seq[j]
    BY <1>11, <1>13
  <2>3. \A i, j \in D : i < j => Sorted(seq)[i] < Sorted(seq)[j]
    BY <1>12, <1>13
  <2> QED
    BY <2>1, <2>2, <2>3
<1> QED
  BY <1>13, <1>14 DEF D
\* gs partitions the parsed images of in; a group takes one route.
Partitions(gs, in) ==
    /\ DOMAIN gs = 1..Len(gs) /\ Len(gs) \in Nat
    /\ \A n \in DOMAIN gs :
          /\ DOMAIN gs[n] = 1..Len(gs[n]) /\ Len(gs[n]) \in Nat \ {0}
          /\ \A s \in DOMAIN gs[n] :
                /\ gs[n][s] \in DOMAIN in /\ in[gs[n][s]].fault.at # "parse"
                /\ in[gs[n][s]].planned = in[gs[n][1]].planned
    /\ \A n, m \in DOMAIN gs : \A s \in DOMAIN gs[n], r \in DOMAIN gs[m] :
          gs[n][s] = gs[m][r] => n = m /\ s = r
    /\ \A i \in DOMAIN in : in[i].fault.at # "parse" =>
          \E n \in DOMAIN gs : \E s \in DOMAIN gs[n] : gs[n][s] = i


\* Grouping partitions the parsed images.
LEMMA GroupedPartitions ==
    ASSUME NEW in, DOMAIN in = 1..Len(in), Len(in) \in Nat
    PROVE  Partitions(Grouped(in), in)
<1> DEFINE n == Len(in)
<1> DEFINE A == Parsed(in)
<1> DEFINE first == {i \in A : \A j \in A : Alike(in[i], in[j]) => i <= j}
<1> DEFINE L == Leaders(in)
<1> DEFINE like(m) == {i \in A : Alike(in[L[m]], in[i])}
<1> DEFINE gs == Grouped(in)
<1>1. Lists(L, n, first)
  BY KeptLists DEF Leaders
<1>2. \A m : Lists(Kept(Indices(in), like(m)), n, like(m))
  BY KeptLists
<1>3. Len(L) \in Nat
  BY <1>1 DEF Lists
<1>4. DOMAIN gs = 1..Len(gs) /\ Len(gs) = Len(L)
      /\ \A m \in 1..Len(L) : gs[m] = Kept(Indices(in), like(m))
  BY <1>3 DEF Grouped
<1>5. \A m \in 1..Len(L) : Lists(gs[m], n, like(m))
  BY <1>2, <1>4
<1>6. A \subseteq 1..n /\ n \in Nat /\ \A i \in 1..n : i \in A <=> in[i].fault.at # "parse"
  BY DEF Parsed
<1> HIDE DEF gs, L, A, n
<1>7. \A m \in 1..Len(L) : L[m] \in first
  BY <1>1 DEF Lists
<1>8. \A i \in first : i \in A /\ i \in Nat /\ \A j \in A : Alike(in[i], in[j]) => i <= j
  BY <1>6
<1>9. ASSUME NEW m \in 1..Len(L)
      PROVE  /\ DOMAIN gs[m] = 1..Len(gs[m]) /\ Len(gs[m]) \in Nat \ {0}
             /\ \A s \in 1..Len(gs[m]) :
                   /\ gs[m][s] \in 1..n /\ gs[m][s] \in A
                   /\ Alike(in[L[m]], in[gs[m][s]])
             /\ \A s, r \in 1..Len(gs[m]) : gs[m][s] = gs[m][r] => s = r
             /\ \A i \in A : Alike(in[L[m]], in[i]) =>
                   \E s \in 1..Len(gs[m]) : gs[m][s] = i
  <2>1. /\ gs[m] \in Seq(1..n)
        /\ \A s \in 1..Len(gs[m]) : gs[m][s] \in 1..n /\ gs[m][s] \in like(m)
        /\ \A s, r \in 1..Len(gs[m]) : gs[m][s] = gs[m][r] => s = r
        /\ \A i \in 1..n : i \in like(m) => \E s \in 1..Len(gs[m]) : gs[m][s] = i
    BY <1>5 DEF Lists
  <2>2. \A i \in A : Alike(in[L[m]], in[i]) => \E s \in 1..Len(gs[m]) : gs[m][s] = i
    BY <2>1, <1>6
  <2>3. L[m] \in A /\ Alike(in[L[m]], in[L[m]])
    BY <1>7, <1>8 DEF Alike
  <2>4. Len(gs[m]) # 0 /\ Len(gs[m]) \in Nat
    BY <2>1, <2>2, <2>3
  <2> QED
    BY <2>1, <2>2, <2>4
<1>10. ASSUME NEW m \in 1..Len(L), NEW s \in 1..Len(gs[m])
       PROVE  /\ in[gs[m][s]].planned = in[gs[m][1]].planned
              /\ in[gs[m][s]].fault.at # "parse"
  <2>1. 1 \in 1..Len(gs[m])
    BY <1>9
  <2> QED
    BY <2>1, <1>9, <1>6 DEF Alike
<1>11. ASSUME NEW m \in 1..Len(L), NEW k \in 1..Len(L),
              NEW s \in 1..Len(gs[m]), NEW r \in 1..Len(gs[k]), gs[m][s] = gs[k][r]
       PROVE  m = k /\ s = r
  <2>1. Alike(in[L[m]], in[gs[m][s]]) /\ Alike(in[L[k]], in[gs[m][s]])
    BY <1>9, <1>11
  <2>2. Alike(in[L[m]], in[L[k]]) /\ Alike(in[L[k]], in[L[m]])
    BY <2>1 DEF Alike
  <2>3. /\ L[m] \in Nat /\ L[k] \in Nat /\ L[m] \in A /\ L[k] \in A
        /\ L[m] <= L[k] /\ L[k] <= L[m]
    BY <1>7, <1>8, <2>2
  <2>4. m = k
    BY <2>3, <1>1 DEF Lists
  <2> QED
    BY <2>4, <1>9, <1>11
<1>12. ASSUME NEW i \in A PROVE \E m \in 1..Len(L) : \E s \in 1..Len(gs[m]) : gs[m][s] = i
  <2> DEFINE alike == {j \in A : Alike(in[i], in[j])}
  <2>1. alike \subseteq Nat /\ i \in alike
    <3>1. \A j \in A : j \in Nat
      BY <1>6
    <3>2. Alike(in[i], in[i])
      BY DEF Alike
    <3> QED
      BY <3>1, <3>2
  <2>2. PICK j \in alike : \A k \in alike : j <= k
    <3> HIDE DEF alike
    <3> QED
      BY <2>1, LeastExists
  <2>3. j \in first
    <3>1. j \in A /\ Alike(in[i], in[j])
      OBVIOUS
    <3>2. \A k \in A : Alike(in[j], in[k]) => k \in alike
      BY <3>1 DEF Alike
    <3> QED
      BY <3>1, <3>2, <2>2
  <2>4. j \in 1..n
    BY <1>6
  <2>5. PICK m \in 1..Len(L) : L[m] = j
    BY <1>1, <2>3, <2>4 DEF Lists
  <2>6. Alike(in[L[m]], in[i])
    BY <2>5 DEF Alike
  <2> QED
    BY <2>6, <1>9
<1> USE DEF n
<1>13. \A i \in DOMAIN in : in[i].fault.at # "parse" => i \in A
  BY <1>6
<1>14. \A m \in DOMAIN gs :
          /\ DOMAIN gs[m] = 1..Len(gs[m]) /\ Len(gs[m]) \in Nat \ {0}
          /\ \A s \in DOMAIN gs[m] :
                /\ gs[m][s] \in DOMAIN in /\ in[gs[m][s]].fault.at # "parse"
                /\ in[gs[m][s]].planned = in[gs[m][1]].planned
  BY <1>4, <1>9, <1>10
<1>15. \A m, k \in DOMAIN gs : \A s \in DOMAIN gs[m], r \in DOMAIN gs[k] :
          gs[m][s] = gs[k][r] => m = k /\ s = r
  BY <1>4, <1>14, <1>11
<1>16. \A i \in DOMAIN in : in[i].fault.at # "parse" =>
          \E m \in DOMAIN gs : \E s \in DOMAIN gs[m] : gs[m][s] = i
  BY <1>4, <1>14, <1>12, <1>13
<1>17. Partitions(gs, in)
  BY <1>3, <1>4, <1>14, <1>15, <1>16 DEF Partitions
<1> QED
  BY <1>17 DEF gs

\* Division undoes multiplication.
LEMMA Divided ==
    ASSUME NEW a \in Nat, NEW b \in Nat \ {0}, NEW r \in 0..(b - 1)
    PROVE  (a * b + r) % b = r /\ (a * b + r) \div b = a
<1> DEFINE x == a * b + r
<1>1. x \in Nat
  BY SMT
<1>2. x \div b \in Nat /\ (x \div b) * b <= x /\ x < (x \div b) * b + b
  BY <1>1, Quotient
<1>3. x \div b = a
  <2> DEFINE q == x \div b
  <2>1. q * b < (a + 1) * b /\ a * b < (q + 1) * b
    BY <1>2, SMT
  <2>2. q < a + 1 /\ a < q + 1
    <3>1. q \in Nat
      BY <1>2
    <3> HIDE DEF q
    <3> QED
      BY <2>1, <3>1, Cancel
  <2> QED
    BY <1>2, <2>2
<1>4. x % b = x - (x \div b) * b
  BY <1>1, SMT
<1> QED
  BY <1>3, <1>4

\* The jobs of a tile are all blocks of the images in the window that have it.
LEMMA JobsFacts ==
    ASSUME w \in Nat, Count \in Nat \ {0}
    PROVE  /\ DOMAIN Jobs = 1..Len(Jobs) /\ Len(Jobs) \in Nat
           /\ \A j \in 1..Len(Jobs) :
                 /\ Jobs[j][1] \in InWindow /\ t <= Image(Jobs[j][1]).tiles
                 /\ Jobs[j][2] \in 1..Blocks
           /\ \A s \in InWindow, k \in 1..Blocks : t <= Image(s).tiles =>
                 \E j \in 1..Len(Jobs) : Jobs[j][1] = s /\ Jobs[j][2] = k
<1> DEFINE c == Count
<1> DEFINE N == Blocks * c
<1> DEFINE flattened == [j \in 1..N |->
                            <<w + ((j - 1) % c) + 1, ((j - 1) \div c) + 1>>]
<1> DEFINE slots == {s \in InWindow : t <= Image(s).tiles}
<1> DEFINE P == slots \X (1..Blocks)
<1>1. Jobs = Kept(flattened, P)
  BY DEF Jobs
<1>2. Blocks \in Nat \ {0} /\ c \in Nat \ {0} /\ InWindow = (w + 1)..(w + c)
  BY StagedAssumption DEF InWindow
<1>3. N \in Nat
  BY <1>2, SMT
<1> HIDE DEF c, slots
<1> DEFINE S == {flattened[j] : j \in 1..N}
<1>4. flattened \in Seq(S) /\ Len(flattened) = N
  <2> HIDE DEF N
  <2>1. flattened \in [1..N -> S]
    BY Zenon
  <2> HIDE DEF flattened, S
  <2> QED
    BY <2>1, <1>3
<1>5. \A j \in 1..N : flattened[j] = <<w + ((j - 1) % c) + 1, ((j - 1) \div c) + 1>>
  OBVIOUS
<1> HIDE DEF flattened, N, S, P
<1>6. Kept(flattened, P) \in Seq(S) /\ \E e : Selects(Kept(flattened, P), e, flattened, P, N)
  BY <1>4, KeptFacts
<1>7. PICK e : Selects(Jobs, e, flattened, P, N)
  BY <1>1, <1>6
<1>8. DOMAIN Jobs = 1..Len(Jobs) /\ Len(Jobs) \in Nat
  BY <1>1, <1>6
<1>9. /\ \A j \in 1..Len(Jobs) : e[j] \in 1..N /\ Jobs[j] = flattened[e[j]] /\ Jobs[j] \in P
      /\ \A i \in 1..N : flattened[i] \in P => \E j \in 1..Len(Jobs) : e[j] = i
  BY <1>7 DEF Selects
<1>10. \A p \in P : p[1] \in slots /\ p[2] \in 1..Blocks
  BY DEF P
<1>11. \A j \in 1..Len(Jobs) :
          /\ Jobs[j][1] \in InWindow /\ t <= Image(Jobs[j][1]).tiles
          /\ Jobs[j][2] \in 1..Blocks
  BY <1>9, <1>10 DEF slots
<1>12. ASSUME NEW s \in InWindow, NEW k \in 1..Blocks, t <= Image(s).tiles
       PROVE  \E j \in 1..Len(Jobs) : Jobs[j][1] = s /\ Jobs[j][2] = k
  <2> DEFINE r == s - w - 1
  <2> DEFINE i == (k - 1) * c + r + 1
  <2>1. r \in 0..(c - 1) /\ k - 1 \in Nat /\ s = w + r + 1
    BY <1>2
  <2>2. (k - 1) * c \in Nat /\ (k - 1) * c + c <= N
    <3>1. k \in Nat /\ k >= 1 /\ k <= Blocks
      BY <1>2
    <3> QED
      BY <1>2, <3>1, SMT DEF N
  <2> HIDE DEF r
  <2>3. ((k - 1) * c + r) % c = r /\ ((k - 1) * c + r) \div c = k - 1
    BY <2>1, <1>2, Divided
  <2>4. i \in 1..N /\ i - 1 = (k - 1) * c + r
    BY <2>1, <2>2, <1>2, <1>3
  <2> HIDE DEF i
  <2>5. flattened[i] = <<w + r + 1, (k - 1) + 1>>
    BY <2>3, <2>4, <1>5
  <2>6. flattened[i] = <<s, k>>
    BY <2>5, <2>1, <1>2
  <2>7. flattened[i] \in P
    <3>1. s \in slots
      BY <1>12 DEF slots
    <3> QED
      BY <3>1, <2>6 DEF P
  <2>8. PICK j \in 1..Len(Jobs) : e[j] = i
    BY <2>4, <2>7, <1>9
  <2>9. Jobs[j] = <<s, k>>
    BY <2>6, <2>8, <1>9
  <2> QED
    BY <2>9
<1> QED
  BY <1>8, <1>11, <1>12

\* Finitely many numbers have a bound.
LEMMA Bounded ==
    ASSUME NEW n \in Nat, NEW f, \A i \in 1..n : f[i] \in Nat
    PROVE  \E b \in Nat : \A i \in 1..n : f[i] <= b
<1> DEFINE G == {k \in 0..n : \E b \in Nat : \A i \in 1..k : f[i] <= b}
<1>1. 0 \in G
  OBVIOUS
<1>2. ASSUME NEW k \in 1..n, k - 1 \in G PROVE k \in G
  <2>1. PICK b \in Nat : \A i \in 1..(k - 1) : f[i] <= b
    BY <1>2
  <2>2. b + f[k] \in Nat /\ \A i \in 1..k : f[i] <= b + f[k]
    BY <2>1
  <2>3. k \in 0..n
    OBVIOUS
  <2> QED
    BY <2>2, <2>3
<1>3. n \in G
  <2> HIDE DEF G
  <2>1. \A k \in 0..n : k \in G
    BY <1>1, <1>2, Climb
  <2> QED
    BY <2>1
<1> QED
  BY <1>3

\* The largest of bounded numbers.
LEMMA Largest ==
    ASSUME NEW V, V \subseteq Nat, V # {}, NEW b \in Nat, \A v \in V : v <= b
    PROVE  Max(V) \in V /\ \A u \in V : u <= Max(V)
<1>1. PICK v \in V : \A u \in V : u <= v
  BY GreatestExists
<1>2. v \in V /\ \A u \in V : v >= u
  BY <1>1
<1>3. Max(V) \in V /\ \A u \in V : Max(V) >= u
  BY <1>2, Zenon DEF Max
<1> QED
  BY <1>3
-----------------------------------------------------------------------------
(* The invariant                                                           *)

\* What the batch a call was given looks like.
InputKnown(in) ==
    /\ DOMAIN in = 1..Len(in) /\ Len(in) \in Nat
    /\ \A i \in DOMAIN in :
          /\ in[i].tiles \in Nat \ {0} /\ in[i].fault \in Faults(in[i].tiles)
          /\ in[i].planned = "yes" => in[i].fault.at # "decode"

\* Answered so far: what was not parsed, and the groups up to m.
Settled(i, m) ==
    \/ input[i].fault.at = "parse"
    \/ \E n \in 1..m : \E s \in DOMAIN groups[n] : groups[n][s] = i

Samples(i) == {<<<<calls, i>>, m>> : m \in 1..input[i].tiles}

ErrorsKnown(m) ==
    /\ errors \in Seq(DOMAIN input)
    /\ \A a \in 1..Len(errors) : Blamed(errors[a]) /\ Settled(errors[a], m)
    /\ \A a, b \in 1..Len(errors) : errors[a] = errors[b] => a = b

RowsTyped ==
    decoded \in Seq([source : Seq(DOMAIN input), samples : Seq(SUBSET ((Nat \X Nat) \X Nat))])
RowsOwn(m) ==
    \A n \in 1..Len(decoded) :
        /\ Len(decoded[n].samples) = Len(decoded[n].source)
        /\ \A r \in 1..Len(decoded[n].source) :
              /\ ~Blamed(decoded[n].source[r]) /\ Settled(decoded[n].source[r], m)
              /\ decoded[n].samples[r] = Samples(decoded[n].source[r])
RowsOnce ==
    \A n, k \in 1..Len(decoded) :
        \A r \in 1..Len(decoded[n].source), q \in 1..Len(decoded[k].source) :
           decoded[n].source[r] = decoded[k].source[q] => n = k /\ r = q
RowsKnown(m) == RowsTyped /\ RowsOwn(m) /\ RowsOnce

AllAnswered(m) ==
    \A i \in DOMAIN input : Settled(i, m) =>
        \/ \E a \in 1..Len(errors) : errors[a] = i
        \/ \E n \in 1..Len(decoded) : \E r \in 1..Len(decoded[n].source) :
              decoded[n].source[r] = i

Answers(m) == ErrorsKnown(m) /\ RowsKnown(m) /\ AllAnswered(m)

\* A slot that is done with, and one that was not begun.
Past(s) ==
    /\ result[s] \in {"ok", "err"}
    /\ result[s] = "err" => Blamed(groups[g][s])
    /\ result[s] = "ok" => ~Blamed(groups[g][s]) /\ output[s] = Samples(groups[g][s])
Ahead(s) == result[s] = "none" /\ groups[g][s] \notin starved

\* The faults that an image has not met: those of tiles after the last one that
\* was prepared, decoded and finished.
Spared(s, prepared, blocks, finished) ==
    LET fault == Image(s).fault
    IN  \/ fault.at \in {"none", "store"}
        \/ fault.at = "prepare" /\ fault.tile > prepared
        \/ fault.at = "block" /\ fault.tile > blocks
        \/ fault.at = "finish" /\ fault.tile > finished

Tiles(s, n) == {<<Owner(s), m>> : m \in 1..n}

\* The scratch of an image between tiles, after its last tile, and in tile t.
Ready(s, next) ==
    scratch[s - w] = Scratch(At(next, 0, Image(s).tiles), {}, Tiles(s, next - 1))
Over(s) == Ready(s, Image(s).tiles + 1) /\ Image(s).fault.at \in {"none", "store"}
Opened(s, bands) ==
    scratch[s - w] = Scratch(At(t, t, Image(s).tiles), bands, Tiles(s, t - 1))

\* An image between the threads: the flag is up exactly if it failed, which it
\* does for a reason.
Calm(s) ==
    /\ result[s] \in {"ok", "err"}
    /\ result[s] = "err" => s \in failed /\ Blamed(groups[g][s])
    /\ result[s] = "ok" => s \notin failed /\ groups[g][s] \notin starved

\* An image of the window before, in and after a tile, and after all.
TileReady(s) ==
    Calm(s) /\ (result[s] = "ok" =>
        IF t > Image(s).tiles THEN Over(s)
        ELSE Ready(s, t) /\ Spared(s, t - 1, t - 1, t - 1))
TileOpen(s) ==
    Calm(s) /\ (result[s] = "ok" =>
        IF t > Image(s).tiles THEN Over(s)
        ELSE Opened(s, {}) /\ Spared(s, t, t - 1, t - 1))
TileDecoded(s) ==
    Calm(s) /\ (result[s] = "ok" =>
        IF t > Image(s).tiles THEN Over(s)
        ELSE Opened(s, {Block(s, k) : k \in 1..Blocks}) /\ Spared(s, t, t, t - 1))
Finished(s) == Calm(s) /\ (result[s] = "ok" => Over(s))

\* An image while threads decode its blocks.
Done(s) == {k \in 1..Blocks : \E j \in 1..Len(job) :
               job[j][1] = s /\ job[j][2] = k /\ jobResult[j] = "ok"}
Unharmed(s) ==
    /\ Opened(s, {Block(s, k) : k \in Done(s)}) /\ groups[g][s] \notin starved
    /\ \A k \in Done(s) : ~FaultAt(s, "block", t, k)
TileDecoding(s) ==
    /\ result[s] \in {"ok", "err"}
    /\ result[s] = "err" => s \in failed /\ Blamed(groups[g][s])
    /\ result[s] = "ok" =>
        IF t > Image(s).tiles
        THEN Over(s) /\ s \notin failed /\ groups[g][s] \notin starved
        ELSE /\ scratch[s - w].staged_state = At(t, t, Image(s).tiles)
             /\ Spared(s, t, t - 1, t - 1)
             /\ s \notin failed => Unharmed(s)
             /\ s \in failed =>
                   \E j \in 1..Len(job) : job[j][1] = s /\ jobResult[j] = "err"

\* The jobs of the entropy stage, and the workers before them.
JobsKnown ==
    /\ Len(job) \in Nat /\ DOMAIN job = 1..Len(job) /\ DOMAIN jobResult = 1..Len(job)
    /\ \A j \in 1..Len(job) :
          /\ job[j][1] \in InWindow /\ t <= Image(job[j][1]).tiles
          /\ job[j][2] \in 1..Blocks
    /\ \A s \in InWindow, k \in 1..Blocks : t <= Image(s).tiles =>
          \E j \in 1..Len(job) : job[j][1] = s /\ job[j][2] = k
ErrorsBlamed ==
    \A j \in 1..Len(job) :
        /\ jobResult[j] \in {"none", "ok", "err"}
        /\ jobResult[j] = "err" =>
              Blamed(groups[g][job[j][1]]) /\ job[j][1] \in failed
WorkersKnown ==
    /\ Len(worker) \in Nat /\ DOMAIN worker = 1..Len(worker)
    /\ \A c \in 1..Len(worker) :
          /\ worker[c].pc \in {"load", "execute", "done", "dead"}
          /\ worker[c].last \in 1..Len(job) /\ worker[c].at \in 1..worker[c].last
    /\ \A c, d \in 1..Len(worker) : c < d => worker[c].last < worker[d].at
Untaken ==
    \A c \in 1..Len(worker) : worker[c].pc \in {"load", "execute"} =>
        \A j \in worker[c].at..worker[c].last : jobResult[j] = "none"
Loaded ==
    \A c \in 1..Len(worker) : worker[c].pc = "execute" => result[Slot(c)] = "ok"
NoneLost ==
    \A j \in 1..Len(job) : jobResult[j] = "none" =>
        \E c \in 1..Len(worker) :
           worker[c].pc # "done" /\ j \in worker[c].at..worker[c].last
Staffing ==
    JobsKnown /\ ErrorsBlamed /\ WorkersKnown /\ Untaken /\ Loaded /\ NoneLost

Between == {"tile", "jobs", "entropy", "finish", "store"}
InGroup == Between \cup {"plain", "window", "collect"}

\* The slots before and after the window.
Sides ==
    /\ w \in Nat /\ w < Len(groups[g])
    /\ \A s \in 1..w : Past(s)
    /\ \A s \in (w + Count + 1)..Len(groups[g]) : Ahead(s)
Tally ==
    /\ t \in Nat \ {0} /\ tile_count \in Nat
    /\ \A s \in InWindow : result[s] = "ok" => Image(s).tiles <= tile_count
    /\ phase # "store" =>
          t <= tile_count /\ \E s \in InWindow : tile_count <= Image(s).tiles
Progress ==
    /\ phase = "tile" => \A s \in InWindow : TileReady(s)
    /\ phase = "jobs" => \A s \in InWindow : TileOpen(s)
    /\ phase = "entropy" => Staffing /\ \A s \in InWindow : TileDecoding(s)
    /\ phase = "finish" => \A s \in InWindow : TileDecoded(s)
    /\ phase = "store" => \A s \in InWindow : Finished(s)
WindowKnown == Sides /\ Tally /\ Progress /\ DOMAIN scratch = 1..Count

GroupKnown ==
    /\ g \in 1..Len(groups)
    /\ DOMAIN result = 1..Len(groups[g])
    /\ output \in [1..Len(groups[g]) -> SUBSET ((Nat \X Nat) \X Nat)]
    /\ phase \notin {"plain", "collect"} =>
          \A s \in 1..Len(groups[g]) : Image(s).planned = "yes"
    /\ phase = "plain" => \A s \in 1..Len(groups[g]) : Ahead(s)
    /\ phase = "collect" => \A s \in 1..Len(groups[g]) : Past(s)
    /\ phase = "window" =>
          /\ w \in Nat /\ w < Len(groups[g])
          /\ \A s \in 1..w : Past(s)
          /\ \A s \in (w + 1)..Len(groups[g]) : Ahead(s)
    /\ phase \in Between => WindowKnown

Ground ==
    /\ phase \in InGroup \cup {"idle", "group"} /\ outcome # "missing" /\ calls \in Nat
    /\ InputKnown(input) /\ Partitions(groups, input) /\ g \in 0..Len(groups)
    /\ \A i \in starved : \E n \in 1..g : \E s \in DOMAIN groups[n] : groups[n][s] = i

StagedInv ==
    /\ Ground
    /\ phase \in InGroup => GroupKnown /\ Answers(g - 1)
    /\ phase = "group" => Answers(g)
    /\ Returned => Answers(Len(groups))
                      /\ \A a, b \in 1..Len(errors) : a < b => errors[a] < errors[b]

-----------------------------------------------------------------------------
(* Slots and windows                                                       *)

\* The fields of the records the stages are built from.
LEMMA Fields ==
    /\ \A sc, v : Step(sc, v).scratch = sc /\ Step(sc, v).result = v
    /\ \A n, a, c : At(n, a, c).next = n /\ At(n, a, c).active = a /\ At(n, a, c).count = c
    /\ \A st, b, p : /\ Scratch(st, b, p).staged_state = st
                     /\ Scratch(st, b, p).bands = b /\ Scratch(st, b, p).planes = p
    /\ \A a, l, p, r : /\ Worker(a, l, p, r).at = a /\ Worker(a, l, p, r).last = l
                       /\ Worker(a, l, p, r).pc = p /\ Worker(a, l, p, r).ready = r
  BY DEF Step, At, Scratch, Worker

\* A fault has the tile and the block its kind calls for.
LEMMA FaultKnown ==
    ASSUME NEW n \in Nat \ {0}, NEW f \in Faults(n)
    PROVE  /\ f.at \in {"none", "parse", "begin", "store", "decode", "prepare", "finish", "block"}
           /\ f.at \in {"none", "parse", "begin", "store", "decode"} => f.tile = 0 /\ f.block = 0
           /\ f.at \in {"prepare", "finish"} => f.tile \in 1..n /\ f.block = 0
           /\ f.at = "block" => f.tile \in 1..n /\ f.block \in 1..Blocks
  BY DEF Faults

\* The slots of a group stand for different parsed inputs.
LEMMA SlotFacts ==
    ASSUME Ground, NEW n \in 1..Len(groups)
    PROVE  /\ Len(groups) \in Nat
           /\ Len(groups[n]) \in Nat \ {0} /\ DOMAIN groups[n] = 1..Len(groups[n])
           /\ \A s \in 1..Len(groups[n]) :
                 /\ groups[n][s] \in DOMAIN input
                 /\ input[groups[n][s]].tiles \in Nat \ {0}
                 /\ input[groups[n][s]].fault \in Faults(input[groups[n][s]].tiles)
                 /\ input[groups[n][s]].fault.at # "parse"
                 /\ input[groups[n][s]].planned = input[groups[n][1]].planned
                 /\ input[groups[n][s]].planned = "yes" =>
                       input[groups[n][s]].fault.at # "decode"
           /\ \A s, r \in 1..Len(groups[n]) : groups[n][s] = groups[n][r] => s = r
<1>1. InputKnown(input) /\ Partitions(groups, input)
  BY DEF Ground
<1>2. Len(groups) \in Nat /\ DOMAIN groups = 1..Len(groups)
  BY <1>1 DEF Partitions
<1>3. /\ Len(groups[n]) \in Nat \ {0} /\ DOMAIN groups[n] = 1..Len(groups[n])
      /\ \A s \in 1..Len(groups[n]) :
            /\ groups[n][s] \in DOMAIN input /\ input[groups[n][s]].fault.at # "parse"
            /\ input[groups[n][s]].planned = input[groups[n][1]].planned
  BY <1>1, <1>2 DEF Partitions
<1>4. \A s, r \in 1..Len(groups[n]) : groups[n][s] = groups[n][r] => s = r
  <2>1. \A a, b \in DOMAIN groups : \A s \in DOMAIN groups[a], r \in DOMAIN groups[b] :
           groups[a][s] = groups[b][r] => a = b /\ s = r
    BY <1>1 DEF Partitions
  <2> QED
    BY <1>2, <1>3, <2>1
<1>5. \A i \in DOMAIN input :
         /\ input[i].tiles \in Nat \ {0} /\ input[i].fault \in Faults(input[i].tiles)
         /\ input[i].planned = "yes" => input[i].fault.at # "decode"
  BY <1>1 DEF InputKnown
<1> QED
  BY <1>2, <1>3, <1>4, <1>5

\* An input that the groups before g, or the parser, have settled is in no slot
\* of g.
LEMMA SettledElsewhere ==
    ASSUME Ground, g \in 1..Len(groups), NEW s \in 1..Len(groups[g])
    PROVE  ~Settled(groups[g][s], g - 1)
<1>1. /\ Partitions(groups, input) /\ Len(groups) \in Nat /\ DOMAIN groups = 1..Len(groups)
      /\ DOMAIN groups[g] = 1..Len(groups[g]) /\ input[groups[g][s]].fault.at # "parse"
  BY SlotFacts DEF Ground, Partitions
<1> SUFFICES ASSUME NEW n \in 1..(g - 1), NEW r \in DOMAIN groups[n],
                    groups[n][r] = groups[g][s]
             PROVE  FALSE
  BY <1>1 DEF Settled
<1>2. n \in DOMAIN groups /\ g \in DOMAIN groups /\ s \in DOMAIN groups[g]
  BY <1>1
<1>3. n = g
  BY <1>1, <1>2 DEF Partitions
<1> QED
  BY <1>1, <1>3

\* The faults of the images of a group that has plans.
LEMMA ImageFacts ==
    ASSUME Ground, g \in 1..Len(groups), NEW s \in 1..Len(groups[g])
    PROVE  /\ groups[g][s] \in DOMAIN input /\ Image(s).tiles \in Nat \ {0}
           /\ Image(s).fault.at \in {"none", "begin", "store", "decode", "prepare", "finish", "block"}
           /\ Image(s).fault.at \in {"none", "begin", "store", "decode"} =>
                 Image(s).fault.tile = 0 /\ Image(s).fault.block = 0
           /\ Image(s).fault.at \in {"prepare", "finish"} =>
                 Image(s).fault.tile \in 1..Image(s).tiles /\ Image(s).fault.block = 0
           /\ Image(s).fault.at = "block" =>
                 Image(s).fault.tile \in 1..Image(s).tiles /\ Image(s).fault.block \in 1..Blocks
           /\ Image(s).planned = "yes" => Image(s).fault.at # "decode"
<1> DEFINE i == groups[g][s]
<1>1. /\ i \in DOMAIN input /\ input[i].tiles \in Nat \ {0}
      /\ input[i].fault \in Faults(input[i].tiles) /\ input[i].fault.at # "parse"
      /\ input[i].planned = "yes" => input[i].fault.at # "decode"
  BY SlotFacts
<1> HIDE DEF i
<1>2. Image(s) = input[i]
  BY DEF Image, i
<1>3. i = groups[g][s]
  BY DEF i
<1>4. Image(s).fault \in Faults(Image(s).tiles) /\ Image(s).tiles \in Nat \ {0}
  BY <1>1, <1>2
<1> QED
  BY <1>1, <1>2, <1>3, <1>4, FaultKnown

\* A window is a part of its group.
LEMMA WindowFacts ==
    ASSUME Ground, g \in 1..Len(groups), w \in Nat, w < Len(groups[g])
    PROVE  /\ Count \in Nat \ {0} /\ w + Count <= Len(groups[g])
           /\ Count = Window \/ w + Count = Len(groups[g])
           /\ Count <= Window
           /\ InWindow \subseteq 1..Len(groups[g])
           /\ \A s \in InWindow : s \in Int /\ s - w \in 1..Count /\ w + (s - w) = s
           /\ \A l \in 1..Count : w + l \in InWindow
<1>1. Len(groups[g]) \in Nat \ {0} /\ Window \in Nat \ {0}
  BY SlotFacts, StagedAssumption
<1> DEFINE a == Window
<1> DEFINE b == Len(groups[g]) - w
<1>2. a \in Nat \ {0} /\ b \in Nat \ {0}
  BY <1>1
<1>3. Min({a, b}) \in {a, b} /\ Min({a, b}) <= a /\ Min({a, b}) <= b
  <2> HIDE DEF a, b
  <2>1. \E x \in {a, b} : \A y \in {a, b} : x <= y
    BY <1>2
  <2>2. Min({a, b}) \in {a, b} /\ \A y \in {a, b} : Min({a, b}) <= y
    BY <2>1, Zenon DEF Min
  <2> QED
    BY <2>2
<1>4. /\ Count \in Nat \ {0} /\ w + Count <= Len(groups[g]) /\ Count <= Window
      /\ Count = Window \/ w + Count = Len(groups[g])
  BY <1>1, <1>2, <1>3 DEF Count
<1>5. \A s \in InWindow : s \in 1..Len(groups[g]) /\ s - w \in 1..Count /\ w + (s - w) = s
  BY <1>1, <1>4 DEF InWindow
<1> QED
  BY <1>1, <1>4, <1>5 DEF InWindow

\* What a step that stays in the group and the window leaves alone.
LEMMA SameGroup ==
    ASSUME UNCHANGED <<callVars, g>>
    PROVE  /\ input' = input /\ groups' = groups /\ calls' = calls
           /\ \A s : Image(s)' = Image(s) /\ Owner(s)' = Owner(s)
           /\ \A s, n : Tiles(s, n)' = Tiles(s, n)
           /\ \A i : Samples(i)' = Samples(i)
           /\ \A i, m : Settled(i, m)' <=> Settled(i, m)
           /\ \A s, at, n, k : FaultAt(s, at, n, k)' <=> FaultAt(s, at, n, k)
           /\ \A s, p, b, f : Spared(s, p, b, f)' <=> Spared(s, p, b, f)
<1>1. input' = input /\ groups' = groups /\ calls' = calls
  BY DEF callVars
<1>2. \A s : Image(s)' = Image(s) /\ Owner(s)' = Owner(s)
  BY <1>1 DEF Image, Owner
<1>3. \A s, n : Tiles(s, n)' = Tiles(s, n)
  BY <1>2 DEF Tiles
<1>4. \A i : Samples(i)' = Samples(i)
  BY <1>1 DEF Samples
<1>5. \A i, m : Settled(i, m)' <=> Settled(i, m)
  BY <1>1 DEF Settled
<1>6. \A s, at, n, k : FaultAt(s, at, n, k)' <=> FaultAt(s, at, n, k)
  BY <1>2 DEF FaultAt
<1>7. \A s, p, b, f : Spared(s, p, b, f)' <=> Spared(s, p, b, f)
  BY <1>2 DEF Spared
<1> QED
  BY <1>1, <1>2, <1>3, <1>4, <1>5, <1>6, <1>7

\* The window does not change unless the call, the group or its start does.
LEMMA SameWindow ==
    ASSUME UNCHANGED <<callVars, g, w>>
    PROVE  Count' = Count /\ InWindow' = InWindow
  BY DEF callVars, Count, InWindow

-----------------------------------------------------------------------------
(* What most steps have in common                                          *)

\* Lack of memory is met by slots of the current window only.
StarvedHere ==
    starved' = starved \/ \E s \in InWindow : starved' = starved \cup {groups[g][s]}

\* The source of a decoded group is a sequence of inputs.
LEMMA SourceSeq ==
    ASSUME NEW m, RowsKnown(m), NEW n \in 1..Len(decoded)
    PROVE  /\ decoded[n].source \in Seq(DOMAIN input)
           /\ DOMAIN decoded[n].source = 1..Len(decoded[n].source)
<1> DEFINE Group == [source : Seq(DOMAIN input), samples : Seq(SUBSET ((Nat \X Nat) \X Nat))]
<1>1. decoded \in Seq(Group)
  BY DEF RowsKnown, RowsTyped
<1>2. \A e \in Group : e.source \in Seq(DOMAIN input)
  OBVIOUS
<1>3. decoded[n] \in Group
  <2> HIDE DEF Group
  <2> QED
    BY <1>1
<1>4. decoded[n].source \in Seq(DOMAIN input)
  BY <1>2, <1>3
<1> QED
  BY <1>4

\* No input has two rows.
LEMMA RowOnce ==
    ASSUME NEW m, RowsKnown(m), NEW n \in 1..Len(decoded), NEW k \in 1..Len(decoded),
           NEW a \in 1..Len(decoded[n].source), NEW b \in 1..Len(decoded[k].source),
           decoded[n].source[a] = decoded[k].source[b]
    PROVE  n = k /\ a = b
  BY DEF RowsKnown, RowsOnce

\* It does not touch what is answered.
LEMMA AnswersKept ==
    ASSUME Ground, g \in 1..Len(groups), Answers(g - 1), InWindow \subseteq 1..Len(groups[g]),
           UNCHANGED <<callVars, resultVars, g>>, StarvedHere
    PROVE  Answers(g - 1)'
<1>1. /\ errors' = errors /\ decoded' = decoded /\ g' = g /\ input' = input
      /\ \A i : Samples(i)' = Samples(i)
      /\ \A i, m : Settled(i, m)' <=> Settled(i, m)
  BY SameGroup DEF resultVars
<1>2. \A i : Settled(i, g - 1) => (Blamed(i)' <=> Blamed(i))
  <2> SUFFICES ASSUME NEW i, Settled(i, g - 1) PROVE i \in starved' <=> i \in starved
    BY <1>1 DEF Blamed
  <2>1. \A s \in InWindow : i # groups[g][s]
    BY SettledElsewhere
  <2> QED
    BY <2>1 DEF StarvedHere
<1>3. ErrorsKnown(g - 1)'
  BY <1>1, <1>2 DEF Answers, ErrorsKnown
<1>4. RowsKnown(g - 1)'
  <2>1. RowsKnown(g - 1)
    BY DEF Answers
  <2>2. ASSUME NEW n \in 1..Len(decoded), NEW r \in 1..Len(decoded[n].source)
        PROVE  /\ ~Blamed(decoded[n].source[r])' /\ Settled(decoded[n].source[r], g - 1)'
               /\ decoded'[n].samples[r] = Samples(decoded[n].source[r])'
    <3> DEFINE i == decoded[n].source[r]
    <3>1. ~Blamed(i) /\ Settled(i, g - 1) /\ decoded[n].samples[r] = Samples(i)
      BY <2>1 DEF RowsKnown, RowsOwn
    <3>2. i' = i
      BY <1>1
    <3> HIDE DEF i
    <3>3. ~Blamed(i)' /\ Settled(i, g - 1)' /\ decoded'[n].samples[r] = Samples(i)'
      BY <1>1, <1>2, <3>1, <3>2
    <3> QED
      BY <3>3 DEF i
  <2> QED
    <3>1. RowsTyped'
      BY <1>1, <2>1 DEF RowsKnown, RowsTyped
    <3>2. RowsOwn(g - 1)'
      BY <1>1, <2>1, <2>2 DEF RowsKnown, RowsOwn
    <3>3. RowsOnce'
      BY <1>1, <2>1 DEF RowsKnown, RowsOnce
    <3> QED
      BY <3>1, <3>2, <3>3 DEF RowsKnown
<1>5. AllAnswered(g - 1)'
  BY <1>1 DEF Answers, AllAnswered
<1> QED
  BY <1>3, <1>4, <1>5 DEF Answers

\* What holds between the stages is kept by a step within a group or out of it.
LEMMA GroundKept ==
    ASSUME Ground, UNCHANGED <<callVars, g>>,
           phase' \in InGroup \cup {"idle", "group"}, outcome' # "missing",
           starved' = starved \/ /\ g \in 1..Len(groups) /\ InWindow \subseteq 1..Len(groups[g])
                                 /\ StarvedHere
    PROVE  Ground'
<1>1. input' = input /\ groups' = groups /\ calls' = calls /\ g' = g
  BY SameGroup
<1>2. ASSUME NEW i \in starved'
      PROVE  \E n \in 1..g : \E s \in DOMAIN groups[n] : groups[n][s] = i
  <2>1. CASE i \in starved
    BY <2>1 DEF Ground
  <2>2. CASE i \notin starved
    <3>1. PICK s \in InWindow : i = groups[g][s]
      BY <1>2, <2>2 DEF StarvedHere
    <3>2. g \in 1..Len(groups) /\ s \in 1..Len(groups[g])
      BY <1>2, <2>2
    <3>3. s \in DOMAIN groups[g] /\ g \in 1..g
      BY <3>2, SlotFacts
    <3> QED
      BY <3>1, <3>3
  <2> QED
    BY <2>1, <2>2
<1>3. InputKnown(input)' /\ Partitions(groups, input)'
  BY <1>1 DEF Ground, InputKnown, Partitions
<1> QED
  BY <1>1, <1>2, <1>3 DEF Ground

\* A call may fail as a whole at any time.
LEMMA AbortKeeps ==
    ASSUME StagedInv, Abort("aborted"), UNCHANGED <<callVars, g, starved>>
    PROVE  StagedInv'
<1>1. phase' = "idle" /\ outcome' = "aborted"
  BY DEF Abort
<1>2. Ground'
  BY <1>1, GroundKept DEF StagedInv
<1> QED
  BY <1>1, <1>2 DEF StagedInv, Returned, InGroup, Between

\* A step of a window: what is left of it is what it does to the window.
LEMMA WindowStep ==
    ASSUME StagedInv, phase \in Between \cup {"window"}, phase' \in Between,
           UNCHANGED <<callVars, resultVars, g, w, output>>, StarvedHere,
           DOMAIN result' = 1..Len(groups[g]),
           \A s \in 1..Len(groups[g]) : s \notin InWindow => result'[s] = result[s],
           DOMAIN scratch' = 1..Count, Tally', Progress'
    PROVE  StagedInv'
<1>1. /\ Ground /\ GroupKnown /\ Answers(g - 1) /\ g \in 1..Len(groups) /\ outcome # "missing"
      /\ phase \notin {"plain", "collect", "idle", "group"}
      /\ phase' \notin {"plain", "collect", "idle", "group", "window"}
      /\ phase' \in InGroup
  BY DEF StagedInv, InGroup, Between, GroupKnown, Ground
<1>2. /\ w \in Nat /\ w < Len(groups[g])
      /\ \A s \in 1..w : Past(s)
      /\ \A s \in (w + Count + 1)..Len(groups[g]) : Ahead(s)
  <2>1. CASE phase \in Between
    BY <1>1, <2>1 DEF GroupKnown, WindowKnown, Sides
  <2>2. CASE phase = "window"
    <3>1. /\ w \in Nat /\ w < Len(groups[g]) /\ \A s \in 1..w : Past(s)
          /\ \A s \in (w + 1)..Len(groups[g]) : Ahead(s)
      BY <1>1, <2>2 DEF GroupKnown
    <3>2. Count \in Nat /\ Len(groups[g]) \in Nat
      BY <1>1, <3>1, WindowFacts, SlotFacts
    <3>3. (w + Count + 1)..Len(groups[g]) \subseteq (w + 1)..Len(groups[g])
      BY <3>1, <3>2
    <3> QED
      BY <3>1, <3>3
  <2> QED
    BY <2>1, <2>2
<1>3. /\ Len(groups[g]) \in Nat \ {0} /\ Count \in Nat \ {0} /\ w + Count <= Len(groups[g])
      /\ InWindow \subseteq 1..Len(groups[g])
  BY <1>1, <1>2, SlotFacts, WindowFacts
<1>4. /\ input' = input /\ groups' = groups /\ calls' = calls /\ g' = g /\ w' = w
      /\ output' = output /\ Count' = Count /\ InWindow' = InWindow
      /\ errors' = errors /\ decoded' = decoded /\ outcome' = outcome
      /\ \A s : Image(s)' = Image(s)
      /\ \A i : Samples(i)' = Samples(i)
  BY SameGroup, SameWindow DEF resultVars
<1>5. \A s \in 1..Len(groups[g]) : s \notin InWindow =>
         (groups[g][s] \in starved' <=> groups[g][s] \in starved)
  <2>1. \A s, r \in 1..Len(groups[g]) : groups[g][s] = groups[g][r] => s = r
    BY <1>1, SlotFacts
  <2> QED
    BY <1>3, <2>1 DEF StarvedHere
<1>6. Sides'
  <2>1. ASSUME NEW s \in 1..w PROVE Past(s)'
    <3>1. Past(s) /\ s \in 1..Len(groups[g]) /\ s \notin InWindow
      BY <1>2, <1>3 DEF InWindow
    <3>2. Blamed(groups[g][s])' <=> Blamed(groups[g][s])
      BY <1>4, <1>5, <3>1 DEF Blamed
    <3>3. result'[s] = result[s]
      BY <3>1
    <3> QED
      BY <1>4, <3>1, <3>2, <3>3 DEF Past
  <2>2. ASSUME NEW s \in (w + Count + 1)..Len(groups[g]) PROVE Ahead(s)'
    <3>1. Ahead(s) /\ s \in 1..Len(groups[g]) /\ s \notin InWindow
      BY <1>2, <1>3 DEF InWindow
    <3> QED
      BY <1>4, <1>5, <3>1 DEF Ahead
  <2> QED
    BY <1>2, <1>4, <2>1, <2>2 DEF Sides
<1>7. WindowKnown'
  BY <1>4, <1>6 DEF WindowKnown
<1>8. GroupKnown'
  BY <1>1, <1>4, <1>7 DEF GroupKnown
<1>9. Ground' /\ Answers(g - 1)'
  BY <1>1, <1>3, <1>4, GroundKept, AnswersKept
<1> QED
  BY <1>1, <1>8, <1>9 DEF StagedInv, Returned

\* The images of a window in its middle.
LEMMA WindowImages ==
    ASSUME StagedInv, phase \in Between \cup {"window"}
    PROVE  /\ Ground /\ g \in 1..Len(groups) /\ w \in Nat /\ w < Len(groups[g])
           /\ Len(groups[g]) \in Nat \ {0} /\ DOMAIN result = 1..Len(groups[g])
           /\ Count \in Nat \ {0} /\ InWindow \subseteq 1..Len(groups[g])
           /\ \A s \in InWindow : s - w \in 1..Count /\ w + (s - w) = s
           /\ \A s \in InWindow :
                 /\ Image(s).tiles \in Nat \ {0}
                 /\ Image(s).fault.at \in {"none", "begin", "store", "prepare", "finish", "block"}
                 /\ Image(s).fault.at \in {"none", "begin", "store"} =>
                       Image(s).fault.tile = 0 /\ Image(s).fault.block = 0
                 /\ Image(s).fault.at \in {"prepare", "finish"} =>
                       Image(s).fault.tile \in 1..Image(s).tiles /\ Image(s).fault.block = 0
                 /\ Image(s).fault.at = "block" =>
                       /\ Image(s).fault.tile \in 1..Image(s).tiles
                       /\ Image(s).fault.block \in 1..Blocks
<1>1. /\ Ground /\ GroupKnown /\ g \in 1..Len(groups) /\ DOMAIN result = 1..Len(groups[g])
      /\ phase \notin {"plain", "collect"}
  BY DEF StagedInv, InGroup, Between, GroupKnown
<1>2. w \in Nat /\ w < Len(groups[g])
  BY <1>1 DEF GroupKnown, WindowKnown, Sides
<1>3. /\ Len(groups[g]) \in Nat \ {0} /\ Count \in Nat \ {0}
      /\ InWindow \subseteq 1..Len(groups[g])
      /\ \A s \in InWindow : s - w \in 1..Count /\ w + (s - w) = s
  BY <1>1, <1>2, SlotFacts, WindowFacts
<1>4. \A s \in InWindow : s \in 1..Len(groups[g]) /\ Image(s).planned = "yes"
  BY <1>1, <1>3 DEF GroupKnown
<1> QED
  BY <1>1, <1>2, <1>3, <1>4, ImageFacts

-----------------------------------------------------------------------------
(* The stages of a window                                                  *)

\* prepare_staged_tile_window keeps the invariant.
LEMMA PrepareTilesStep ==
    ASSUME StagedInv, PrepareTiles
    PROVE  StagedInv'
<1> DEFINE step == [s \in Working |-> PrepareTile(scratch[s - w], s)]
<1>1. /\ phase = "tile" /\ Stage(step, scratch, failed, "jobs")
      /\ UNCHANGED <<callVars, entropyVars, g, w, t, tile_count, output, starved>>
  BY DEF PrepareTiles
<1>2. CASE Abort("aborted")
  BY <1>1, <1>2, AbortKeeps
<1>3. CASE ~Abort("aborted")
  <2>1. /\ scratch' = [l \in 1..Count |-> IF (w + l) \in Working THEN step[w + l].scratch
                                          ELSE scratch[l]]
        /\ result' = [s \in DOMAIN result |->
                         IF s \in Working THEN step[s].result ELSE result[s]]
        /\ failed' = failed \cup {s \in Working : step[s].result = "err"}
        /\ phase' = "jobs" /\ UNCHANGED resultVars
    BY <1>1, <1>3 DEF Stage
  <2>2. phase \in Between \cup {"window"} /\ phase \in Between /\ phase' \in Between
    BY <1>1, <2>1 DEF Between
  <2>3. /\ WindowKnown /\ Tally /\ \A s \in InWindow : TileReady(s)
        /\ t \in Nat \ {0}
    BY <1>1, <2>2 DEF StagedInv, InGroup, GroupKnown, WindowKnown, Progress, Tally
  <2>4. /\ input' = input /\ groups' = groups /\ InWindow' = InWindow /\ t' = t
        /\ g' = g /\ w' = w /\ tile_count' = tile_count /\ starved' = starved
        /\ \A s : Image(s)' = Image(s)
        /\ \A s, n : Tiles(s, n)' = Tiles(s, n)
        /\ \A s, p, b, f : Spared(s, p, b, f)' <=> Spared(s, p, b, f)
    BY <1>1, SameGroup, SameWindow
  <2>5. \A i : Blamed(i)' <=> Blamed(i)
    BY <2>4 DEF Blamed
  <2>6. ASSUME NEW s \in InWindow PROVE TileOpen(s)' /\ result'[s] \in {"ok", "err"}
                                          /\ (result'[s] = "ok" => result[s] = "ok")
    <3>1. /\ TileReady(s) /\ s - w \in 1..Count /\ w + (s - w) = s /\ s \in DOMAIN result
          /\ Image(s).tiles \in Nat \ {0}
      BY <2>2, <2>3, WindowImages
    <3>2. /\ scratch'[s - w] = IF s \in Working THEN step[s].scratch ELSE scratch[s - w]
          /\ result'[s] = IF s \in Working THEN step[s].result ELSE result[s]
          /\ s \in failed' <=> s \in failed \/ (s \in Working /\ step[s].result = "err")
      BY <2>1, <3>1
    <3>3. s \in Working => step[s] = PrepareTile(scratch[s - w], s)
      OBVIOUS
    <3>4. s \in Working <=> result[s] # "err" /\ t <= Image(s).tiles
      BY DEF Working, Fine
    <3> HIDE DEF step
    <3>5. CASE result[s] = "err"
      BY <2>4, <2>5, <3>1, <3>2, <3>4, <3>5 DEF TileReady, TileOpen, Calm
    <3>6. CASE result[s] = "ok" /\ t > Image(s).tiles
      <4>1. s \notin Working /\ Over(s) /\ Calm(s)
        BY <2>3, <3>1, <3>4, <3>6 DEF TileReady
      <4>2. Over(s)'
        BY <2>4, <3>2, <4>1 DEF Over, Ready
      <4>3. Calm(s)'
        BY <2>4, <2>5, <3>2, <4>1 DEF Calm
      <4> QED
        BY <2>4, <3>2, <3>6, <4>1, <4>2, <4>3 DEF TileOpen
    <3>7. CASE result[s] = "ok" /\ t <= Image(s).tiles
      <4>1. s \in Working /\ Calm(s) /\ Ready(s, t) /\ Spared(s, t - 1, t - 1, t - 1)
        BY <2>3, <3>1, <3>4, <3>7 DEF TileReady
      <4> DEFINE sc == scratch[s - w]
      <4>2. /\ sc.staged_state = At(t, 0, Image(s).tiles) /\ sc.planes = Tiles(s, t - 1)
            /\ sc.staged_state.next = t /\ sc.staged_state.active = 0
            /\ sc.staged_state.count = Image(s).tiles
        BY <4>1, Fields DEF Ready
      <4>3. CASE FaultAt(s, "prepare", t, 0)
        <5>1. step[s].result = "err" /\ Blamed(groups[g][s])
          BY <3>3, <4>1, <4>3, Fields DEF PrepareTile, FaultAt, Blamed, Image
        <5> QED
          BY <2>4, <2>5, <3>2, <4>1, <5>1 DEF TileOpen, Calm
      <4>4. CASE ~FaultAt(s, "prepare", t, 0)
        <5>1. step[s] = Step(Scratch(At(t, t, Image(s).tiles), {}, Tiles(s, t - 1)), "ok")
          BY <3>3, <3>7, <4>1, <4>2, <4>4 DEF PrepareTile
        <5>2. Opened(s, {})' /\ result'[s] = "ok" /\ (s \in failed' <=> s \in failed)
          BY <2>4, <3>2, <4>1, <5>1, Fields DEF Opened
        <5>3. Spared(s, t, t - 1, t - 1)
          <6>1. Image(s).fault.at = "prepare" => /\ Image(s).fault.tile \in 1..Image(s).tiles
                                                 /\ Image(s).fault.block = 0
            BY <2>2, WindowImages
          <6>2. Image(s).fault.at = "prepare" => Image(s).fault.tile # t
            BY <4>4, <6>1 DEF FaultAt
          <6> QED
            BY <2>3, <4>1, <6>1, <6>2 DEF Spared
        <5>4. Calm(s)'
          BY <2>4, <2>5, <3>7, <4>1, <5>2 DEF Calm
        <5> QED
          BY <2>3, <2>4, <3>1, <3>7, <5>2, <5>3, <5>4 DEF TileOpen
      <4> QED
        BY <4>3, <4>4
    <3> QED
      BY <2>3, <3>1, <3>5, <3>6, <3>7 DEF TileReady, Calm
  <2> HIDE DEF step
  <2>7. Progress'
    BY <2>1, <2>4, <2>6 DEF Progress
  <2>8. Tally'
    BY <1>1, <2>1, <2>3, <2>4, <2>6 DEF Tally
  <2>9. /\ DOMAIN result' = 1..Len(groups[g]) /\ DOMAIN scratch' = 1..Count
        /\ \A s \in 1..Len(groups[g]) : s \notin InWindow => result'[s] = result[s]
    BY <2>1, <2>2, WindowImages DEF Working, Fine
  <2> QED
    BY <1>1, <2>1, <2>2, <2>4, <2>7, <2>8, <2>9, WindowStep DEF StarvedHere
<1> QED
  BY <1>2, <1>3

\* prepare_staged_window keeps the invariant, whatever the scratch held before.
LEMMA BeginWindowStep ==
    ASSUME StagedInv, BeginWindow
    PROVE  StagedInv'
<1> DEFINE old == [l \in 1..Count |-> IF l <= Len(scratch) THEN scratch[l] ELSE NewScratch]
<1> DEFINE step == [s \in InWindow |-> Begin(old[s - w], s)]
<1> DEFINE begun == {s \in InWindow : step[s].result = "ok"}
<1>1. /\ phase = "window" /\ Stage(step, old, {}, IF begun = {} THEN "store" ELSE "tile")
      /\ t' = 1 /\ tile_count' = Max({0} \cup {Image(s).tiles : s \in begun})
      /\ UNCHANGED <<callVars, entropyVars, g, w, output, starved>>
  BY DEF BeginWindow
<1>2. CASE Abort("aborted")
  BY <1>1, <1>2, AbortKeeps
<1>3. CASE ~Abort("aborted")
  <2>1. /\ scratch' = [l \in 1..Count |-> IF (w + l) \in InWindow THEN step[w + l].scratch
                                          ELSE old[l]]
        /\ result' = [s \in DOMAIN result |->
                         IF s \in InWindow THEN step[s].result ELSE result[s]]
        /\ failed' = {} \cup {s \in InWindow : step[s].result = "err"}
        /\ phase' = (IF begun = {} THEN "store" ELSE "tile") /\ UNCHANGED resultVars
    BY <1>1, <1>3 DEF Stage
  <2>2. phase \in Between \cup {"window"} /\ phase' \in Between
    BY <1>1, <2>1 DEF Between
  <2>3. /\ w \in Nat /\ Count \in Nat /\ InWindow = (w + 1)..(w + Count)
        /\ \A s \in InWindow : Ahead(s)
    <3>1. \A s \in (w + 1)..Len(groups[g]) : Ahead(s)
      BY <1>1 DEF StagedInv, InGroup, GroupKnown
    <3>2. /\ w \in Nat /\ Count \in Nat /\ InWindow \subseteq 1..Len(groups[g])
          /\ Len(groups[g]) \in Nat
      BY <2>2, WindowImages
    <3> QED
      BY <3>1, <3>2 DEF InWindow
  <2>4. /\ input' = input /\ groups' = groups /\ InWindow' = InWindow
        /\ g' = g /\ w' = w /\ starved' = starved
        /\ \A s : Image(s)' = Image(s)
        /\ \A s, n : Tiles(s, n)' = Tiles(s, n)
        /\ \A s, p, b, f : Spared(s, p, b, f)' <=> Spared(s, p, b, f)
    BY <1>1, SameGroup, SameWindow
  <2>5. \A i : Blamed(i)' <=> Blamed(i)
    BY <2>4 DEF Blamed
  <2>6. ASSUME NEW s \in InWindow
        PROVE  TileReady(s)' /\ result'[s] \in {"ok", "err"} /\ (result'[s] = "ok" <=> s \in begun)
    <3>1. /\ s - w \in 1..Count /\ w + (s - w) = s /\ s \in DOMAIN result
          /\ Image(s).tiles \in Nat \ {0}
          /\ Image(s).fault.at \in {"none", "begin", "store", "prepare", "finish", "block"}
          /\ Image(s).fault.at \in {"none", "begin", "store"} =>
                Image(s).fault.tile = 0 /\ Image(s).fault.block = 0
          /\ Image(s).fault.at \in {"prepare", "finish", "block"} =>
                Image(s).fault.tile \in 1..Image(s).tiles
      BY <2>2, WindowImages
    <3>2. /\ scratch'[s - w] = step[s].scratch /\ result'[s] = step[s].result
          /\ s \in failed' <=> step[s].result = "err"
      BY <2>1, <3>1
    <3>3. step[s] = Begin(old[s - w], s) /\ (s \in begun <=> step[s].result = "ok")
      OBVIOUS
    <3> HIDE DEF step, begun, old
    <3>4. CASE FaultAt(s, "begin", 0, 0)
      <4>1. step[s].result = "err" /\ Blamed(groups[g][s])
        BY <3>3, <3>4, Fields DEF Begin, FaultAt, Blamed, Image
      <4> QED
        BY <2>4, <2>5, <3>2, <3>3, <4>1 DEF TileReady, Calm
    <3>5. CASE ~FaultAt(s, "begin", 0, 0)
      <4>1. step[s] = Step(Scratch(At(1, 0, Image(s).tiles), {}, {}), "ok")
        BY <3>3, <3>5 DEF Begin
      <4>2. Tiles(s, 0) = {} /\ 1 - 1 = 0
        BY DEF Tiles
      <4>3. Ready(s, 1)' /\ result'[s] = "ok" /\ s \notin failed'
        <5>0. Tiles(s, 1 - 1) = {}
          BY <4>2, Zenon
        <5>1. step[s].scratch = Scratch(At(1, 0, Image(s).tiles), {}, Tiles(s, 1 - 1))
          <6>1. step[s] = Step(Scratch(At(1, 0, Image(s).tiles), {}, Tiles(s, 1 - 1)), "ok")
            BY <4>1, <5>0, Zenon
          <6> QED
            BY <6>1, Fields
        <5>2. result'[s] = "ok" /\ s \notin failed'
          BY <3>2, <4>1, Fields
        <5>3. scratch'[s - w'] = Scratch(At(1, 0, Image(s).tiles), {}, Tiles(s, 1 - 1))
          BY <2>4, <3>2, <5>1, Zenon
        <5>4. Image(s)' = Image(s) /\ Tiles(s, 1 - 1)' = Tiles(s, 1 - 1)
          BY <2>4
        <5>5. Ready(s, 1)'
          BY <5>3, <5>4, Zenon DEF Ready
        <5> QED
          BY <5>2, <5>5
      <4>4. Image(s).fault.at # "begin"
        BY <3>1, <3>5 DEF FaultAt
      <4>5. Spared(s, 0, 0, 0)
        BY <3>1, <4>4 DEF Spared
      <4>6. Calm(s)'
        BY <2>3, <2>4, <4>3 DEF Calm, Ahead
      <4> QED
        BY <1>1, <2>4, <3>1, <3>2, <3>3, <4>2, <4>3, <4>5, <4>6 DEF TileReady
    <3> QED
      BY <3>4, <3>5
  <2>7. /\ tile_count' \in Nat /\ \A s \in begun : Image(s).tiles <= tile_count'
        /\ begun # {} => 1 <= tile_count' /\ \E s \in begun : tile_count' <= Image(s).tiles
    <3> DEFINE f == [s \in InWindow |-> Image(s).tiles]
    <3> DEFINE V == {0} \cup {f[s] : s \in begun}
    <3> DEFINE M == Max(V)
    <3>1. \A s \in InWindow : f[s] \in Nat \ {0} /\ f[s] = Image(s).tiles
      BY <2>2, WindowImages
    <3>2. {f[s] : s \in begun} = {Image(s).tiles : s \in begun} /\ begun \subseteq InWindow
      BY <3>1
    <3> HIDE DEF f, begun, step, old
    <3>4. tile_count' = M
      BY <1>1, <3>2
    <3>3. M \in Nat /\ (\A s \in begun : f[s] <= M) /\ (M = 0 \/ \E s \in begun : f[s] = M)
      <4> DEFINE h == [l \in 1..Count |-> f[w + l]]
      <4>1. \A l \in 1..Count : h[l] \in Nat
        BY <2>3, <3>1
      <4>2. PICK b \in Nat : \A l \in 1..Count : h[l] <= b
        <5> HIDE DEF h
        <5> QED
          BY <2>3, <4>1, Bounded
      <4>3. ASSUME NEW s \in begun PROVE f[s] \in Nat /\ f[s] <= b
        <5>1. s - w \in 1..Count /\ h[s - w] = f[s]
          BY <2>3, <3>2
        <5> QED
          BY <4>1, <4>2, <5>1
      <4>4. V \subseteq Nat /\ V # {} /\ \A v \in V : v <= b
        BY <4>3
      <4>5. M \in V /\ \A v \in V : v <= M
        <5> HIDE DEF V
        <5> QED
          BY <4>4, Largest
      <4> HIDE DEF M
      <4> QED
        BY <4>4, <4>5
    <3> HIDE DEF M
    <3>5. ASSUME begun # {} PROVE 1 <= M /\ \E s \in begun : M <= Image(s).tiles
      <4>1. PICK s \in begun : TRUE
        BY <3>5
      <4>2. M # 0
        BY <3>1, <3>2, <3>3, <4>1
      <4>3. PICK r \in begun : f[r] = M
        BY <3>3, <4>2
      <4> QED
        BY <3>1, <3>2, <3>3, <4>2, <4>3
    <3> QED
      BY <3>1, <3>2, <3>3, <3>4, <3>5
  <2>8. begun \subseteq InWindow
    OBVIOUS
  <2> HIDE DEF step, begun, old
  <2>9. Progress'
    <3>1. CASE begun = {}
      <4>1. \A s \in InWindow : Finished(s)'
        BY <2>6, <3>1 DEF TileReady, Finished
      <4> QED
        BY <2>1, <2>4, <3>1, <4>1 DEF Progress
    <3>2. CASE begun # {}
      BY <2>1, <2>4, <2>6, <3>2 DEF Progress
    <3> QED
      BY <3>1, <3>2
  <2>10. Tally'
    <3>1. t' \in Nat \ {0} /\ t' = 1
      BY <1>1
    <3>2. \A s \in InWindow' : result'[s] = "ok" => Image(s)'.tiles <= tile_count'
      BY <2>4, <2>6, <2>7
    <3>3. phase' # "store" =>
             t' <= tile_count' /\ \E s \in InWindow' : tile_count' <= Image(s)'.tiles
      BY <2>1, <2>4, <2>7, <2>8, <3>1
    <3> QED
      BY <2>7, <3>1, <3>2, <3>3 DEF Tally
  <2>11. /\ DOMAIN result' = 1..Len(groups[g]) /\ DOMAIN scratch' = 1..Count
         /\ \A s \in 1..Len(groups[g]) : s \notin InWindow => result'[s] = result[s]
    BY <2>1, <2>2, WindowImages
  <2> QED
    BY <1>1, <2>1, <2>2, <2>4, <2>9, <2>10, <2>11, WindowStep DEF StarvedHere
<1> QED
  BY <1>2, <1>3

\* finish_staged_tile_window keeps the invariant.
LEMMA FinishTilesStep ==
    ASSUME StagedInv, FinishTiles
    PROVE  StagedInv'
<1> DEFINE step == [s \in Working |-> FinishTile(scratch[s - w], s)]
<1>1. /\ phase = "finish"
      /\ Stage(step, scratch, failed, IF t = tile_count THEN "store" ELSE "tile")
      /\ t' = t + 1 /\ UNCHANGED <<callVars, entropyVars, g, w, tile_count, output, starved>>
  BY DEF FinishTiles
<1>2. CASE Abort("aborted")
  BY <1>1, <1>2, AbortKeeps
<1>3. CASE ~Abort("aborted")
  <2>1. /\ scratch' = [l \in 1..Count |-> IF (w + l) \in Working THEN step[w + l].scratch
                                          ELSE scratch[l]]
        /\ result' = [s \in DOMAIN result |->
                         IF s \in Working THEN step[s].result ELSE result[s]]
        /\ failed' = failed \cup {s \in Working : step[s].result = "err"}
        /\ phase' = (IF t = tile_count THEN "store" ELSE "tile") /\ UNCHANGED resultVars
    BY <1>1, <1>3 DEF Stage
  <2>2. phase \in Between \cup {"window"} /\ phase \in Between /\ phase' \in Between
    BY <1>1, <2>1 DEF Between
  <2>3. /\ WindowKnown /\ Tally /\ \A s \in InWindow : TileDecoded(s)
        /\ t \in Nat \ {0} /\ tile_count \in Nat /\ t <= tile_count
    BY <1>1, <2>2 DEF StagedInv, InGroup, GroupKnown, WindowKnown, Progress, Tally
  <2>4. /\ input' = input /\ groups' = groups /\ InWindow' = InWindow
        /\ g' = g /\ w' = w /\ tile_count' = tile_count /\ starved' = starved
        /\ \A s : Image(s)' = Image(s)
        /\ \A s, n : Tiles(s, n)' = Tiles(s, n)
        /\ \A s, p, b, f : Spared(s, p, b, f)' <=> Spared(s, p, b, f)
    BY <1>1, SameGroup, SameWindow
  <2>5. \A i : Blamed(i)' <=> Blamed(i)
    BY <2>4 DEF Blamed
  <2>6. ASSUME NEW s \in InWindow PROVE TileReady(s)' /\ result'[s] \in {"ok", "err"}
                                          /\ (result'[s] = "ok" => result[s] = "ok")
    <3>1. /\ TileDecoded(s) /\ s - w \in 1..Count /\ w + (s - w) = s /\ s \in DOMAIN result
          /\ Image(s).tiles \in Nat \ {0}
          /\ Image(s).fault.at \in {"prepare", "finish", "block"} =>
                Image(s).fault.tile \in 1..Image(s).tiles
          /\ Image(s).fault.at = "finish" => Image(s).fault.block = 0
      BY <2>2, <2>3, WindowImages
    <3>2. /\ scratch'[s - w] = IF s \in Working THEN step[s].scratch ELSE scratch[s - w]
          /\ result'[s] = IF s \in Working THEN step[s].result ELSE result[s]
          /\ s \in failed' <=> s \in failed \/ (s \in Working /\ step[s].result = "err")
      BY <2>1, <3>1
    <3>3. s \in Working => step[s] = FinishTile(scratch[s - w], s)
      OBVIOUS
    <3>4. s \in Working <=> result[s] # "err" /\ t <= Image(s).tiles
      BY DEF Working, Fine
    <3> HIDE DEF step
    <3>5. CASE result[s] = "err"
      BY <2>4, <2>5, <3>1, <3>2, <3>4, <3>5 DEF TileDecoded, TileReady, Calm
    <3>6. CASE result[s] = "ok" /\ t > Image(s).tiles
      <4>1. s \notin Working /\ Over(s) /\ Calm(s)
        BY <2>3, <3>1, <3>4, <3>6 DEF TileDecoded
      <4>2. Over(s)'
        BY <2>4, <3>2, <4>1 DEF Over, Ready
      <4>3. Calm(s)'
        BY <2>4, <2>5, <3>2, <4>1 DEF Calm
      <4>4. t' > Image(s).tiles
        BY <1>1, <2>3, <3>1, <3>6
      <4> QED
        BY <2>4, <3>2, <3>6, <4>1, <4>2, <4>3, <4>4 DEF TileReady
    <3>7. CASE result[s] = "ok" /\ t <= Image(s).tiles
      <4> DEFINE all == {Block(s, k) : k \in 1..Blocks}
      <4>1. s \in Working /\ Calm(s) /\ Opened(s, all) /\ Spared(s, t, t, t - 1)
        BY <2>3, <3>1, <3>4, <3>7 DEF TileDecoded
      <4> DEFINE sc == scratch[s - w]
      <4>2. /\ sc.bands = all /\ sc.planes = Tiles(s, t - 1)
            /\ sc.staged_state.next = t /\ sc.staged_state.active = t
            /\ sc.staged_state.count = Image(s).tiles
        <5> HIDE DEF all
        <5> QED
          BY <4>1, Fields DEF Opened
      <4>3. Active(sc) /\ (Active(sc) <=> TRUE)
        BY <3>7, <4>2 DEF Active
      <4>4. CASE FaultAt(s, "finish", t, 0)
        <5>1. step[s].result = "err" /\ Blamed(groups[g][s])
          BY <3>3, <4>1, <4>3, <4>4, Fields DEF FinishTile, FaultAt, Blamed, Image
        <5> QED
          BY <2>4, <2>5, <3>2, <4>1, <5>1 DEF TileReady, Calm
      <4>5. CASE ~FaultAt(s, "finish", t, 0)
        <5>1. step[s] = Step(Scratch(At(t + 1, 0, Image(s).tiles), {},
                                     Tiles(s, t - 1) \cup {Part(s)}), "ok")
          BY <3>3, <4>1, <4>2, <4>3, <4>5 DEF FinishTile
        <5>2. Tiles(s, t - 1) \cup {Part(s)} = Tiles(s, t)
          <6>1. 1..t = (1..(t - 1)) \cup {t}
            BY <2>3
          <6> QED
            BY <6>1 DEF Tiles, Part
        <5>3. (t + 1) - 1 = t
          BY <2>3
        <5>4. /\ scratch'[s - w'] = Scratch(At(t + 1, 0, Image(s).tiles), {}, Tiles(s, (t + 1) - 1))
              /\ result'[s] = "ok" /\ (s \in failed' <=> s \in failed)
          <6>0. Tiles(s, t - 1) \cup {Part(s)} = Tiles(s, (t + 1) - 1)
            BY <5>2, <5>3, Zenon
          <6>1. step[s].scratch = Scratch(At(t + 1, 0, Image(s).tiles), {}, Tiles(s, (t + 1) - 1))
            <7>1. step[s] = Step(Scratch(At(t + 1, 0, Image(s).tiles), {},
                                         Tiles(s, (t + 1) - 1)), "ok")
              BY <5>1, <6>0, Zenon
            <7> QED
              BY <7>1, Fields
          <6>2. scratch'[s - w'] = step[s].scratch
            BY <2>4, <3>2, <4>1
          <6>3. result'[s] = "ok" /\ (s \in failed' <=> s \in failed)
            BY <3>2, <4>1, <5>1, Fields
          <6> QED
            BY <6>1, <6>2, <6>3, Zenon
        <5>5. Spared(s, t, t, t)
          <6>1. Image(s).fault.at = "finish" => Image(s).fault.tile # t
            BY <3>1, <4>5 DEF FaultAt
          <6> QED
            BY <2>3, <3>1, <4>1, <6>1 DEF Spared
        <5>6. Calm(s)'
          BY <2>4, <2>5, <3>7, <4>1, <5>4 DEF Calm
        <5>7. CASE t + 1 > Image(s).tiles
          <6>1. t = Image(s).tiles
            BY <2>3, <3>1, <3>7, <5>7
          <6>2. Image(s).fault.at \in {"none", "store"}
            BY <2>3, <3>1, <5>5, <6>1 DEF Spared
          <6>3. scratch'[s - w'] =
                   Scratch(At(Image(s).tiles + 1, 0, Image(s).tiles), {},
                           Tiles(s, (Image(s).tiles + 1) - 1))
            BY <5>4, <6>1, Zenon
          <6>4. Image(s)' = Image(s)
                /\ Tiles(s, (Image(s).tiles + 1) - 1)' = Tiles(s, (Image(s).tiles + 1) - 1)
            BY <2>4
          <6>5. Over(s)'
            BY <6>2, <6>3, <6>4, Zenon DEF Over, Ready
          <6> QED
            BY <3>7, <5>4, <5>6, <5>7, <6>5, <1>1, <2>4 DEF TileReady
        <5>8. CASE ~(t + 1 > Image(s).tiles)
          <6>1. Spared(s, t - 1, t - 1, t - 1)'
            BY <1>1, <2>4, <5>3, <5>5
          <6>2. Ready(s, t)'
            BY <1>1, <5>4, <2>4 DEF Ready
          <6> QED
            BY <3>7, <5>4, <5>6, <5>8, <6>1, <6>2, <1>1, <2>4 DEF TileReady
        <5> QED
          BY <5>7, <5>8
      <4> QED
        BY <4>4, <4>5
    <3> QED
      BY <2>3, <3>1, <3>5, <3>6, <3>7 DEF TileDecoded, Calm
  <2> HIDE DEF step
  <2>7. Progress'
    <3>1. CASE t = tile_count
      <4>1. ASSUME NEW s \in InWindow PROVE Finished(s)'
        <5>1. TileReady(s)' /\ (result'[s] = "ok" => result[s] = "ok") /\ Image(s).tiles \in Nat
          BY <2>2, <2>6, WindowImages
        <5>2. result'[s] = "ok" => t + 1 > Image(s).tiles
          BY <2>3, <3>1, <5>1 DEF Tally
        <5> QED
          BY <1>1, <2>4, <5>1, <5>2 DEF TileReady, Finished
      <4> QED
        BY <2>1, <2>4, <3>1, <4>1 DEF Progress
    <3>2. CASE t # tile_count
      BY <2>1, <2>4, <2>6, <3>2 DEF Progress
    <3> QED
      BY <3>1, <3>2
  <2>8. Tally'
    <3>1. t' \in Nat \ {0} /\ tile_count' \in Nat
      BY <1>1, <2>3, <2>4
    <3>2. \A s \in InWindow : result'[s] = "ok" => Image(s).tiles <= tile_count
      BY <2>3, <2>6 DEF Tally
    <3>3. phase' # "store" =>
             t' <= tile_count /\ \E s \in InWindow : tile_count <= Image(s).tiles
      BY <1>1, <2>1, <2>3 DEF Tally
    <3> QED
      BY <2>4, <3>1, <3>2, <3>3 DEF Tally
  <2>9. /\ DOMAIN result' = 1..Len(groups[g]) /\ DOMAIN scratch' = 1..Count
        /\ \A s \in 1..Len(groups[g]) : s \notin InWindow => result'[s] = result[s]
    BY <2>1, <2>2, WindowImages DEF Working, Fine
  <2> QED
    BY <1>1, <2>1, <2>2, <2>4, <2>7, <2>8, <2>9, WindowStep DEF StarvedHere
<1> QED
  BY <1>2, <1>3

\* materialize_staged_window keeps the invariant: whole images only are stored.
LEMMA StoreSamplesStep ==
    ASSUME StagedInv, StoreSamples
    PROVE  StagedInv'
<1> DEFINE step == [s \in Fine |-> Store(scratch[s - w], s)]
<1> DEFINE more == w + Window < Len(groups[g])
<1>1. /\ phase = "store"
      /\ Stage(step, scratch, failed, IF more THEN "window" ELSE "collect")
      /\ output' = [s \in DOMAIN output |->
            IF s \in Fine /\ step[s].result = "ok" THEN scratch[s - w].planes
            ELSE output[s]]
      /\ w' = IF more THEN w + Window ELSE w
      /\ UNCHANGED <<callVars, entropyVars, g, t, tile_count, starved>>
  BY DEF StoreSamples
<1>2. CASE Abort("aborted")
  BY <1>1, <1>2, AbortKeeps
<1>3. CASE ~Abort("aborted")
  <2>1. /\ result' = [s \in DOMAIN result |->
                         IF s \in Fine THEN step[s].result ELSE result[s]]
        /\ phase' = (IF more THEN "window" ELSE "collect") /\ UNCHANGED resultVars
    BY <1>1, <1>3 DEF Stage
  <2>2. phase \in Between \cup {"window"} /\ phase \in Between
    BY <1>1 DEF Between
  <2>3. /\ GroupKnown /\ Sides /\ \A s \in InWindow : Finished(s)
    BY <1>1, <2>2 DEF StagedInv, InGroup, GroupKnown, WindowKnown, Progress
  <2>4. /\ input' = input /\ groups' = groups /\ g' = g /\ starved' = starved
        /\ \A s : Image(s)' = Image(s)
        /\ \A i : Samples(i)' = Samples(i)
    BY <1>1, SameGroup
  <2>5. \A i : Blamed(i)' <=> Blamed(i)
    BY <2>4 DEF Blamed
  <2>6. /\ Ground /\ g \in 1..Len(groups) /\ w \in Nat /\ w < Len(groups[g])
        /\ Len(groups[g]) \in Nat \ {0} /\ DOMAIN result = 1..Len(groups[g])
        /\ Count \in Nat \ {0} /\ InWindow \subseteq 1..Len(groups[g])
        /\ DOMAIN output = 1..Len(groups[g])
        /\ \A s \in 1..Len(groups[g]) : output[s] \in SUBSET ((Nat \X Nat) \X Nat)
    BY <2>2, <2>3, WindowImages DEF GroupKnown
  <2>7. ASSUME NEW s \in InWindow
        PROVE  Past(s)' /\ output'[s] \in SUBSET ((Nat \X Nat) \X Nat)
    <3>1. /\ Finished(s) /\ s \in 1..Len(groups[g]) /\ Image(s).tiles \in Nat \ {0}
          /\ Image(s).fault.at = "store" => Image(s).fault.tile = 0 /\ Image(s).fault.block = 0
      BY <2>2, <2>3, <2>6, WindowImages
    <3>2. /\ output'[s] = IF s \in Fine /\ step[s].result = "ok" THEN scratch[s - w].planes
                          ELSE output[s]
          /\ result'[s] = IF s \in Fine THEN step[s].result ELSE result[s]
          /\ output[s] \in SUBSET ((Nat \X Nat) \X Nat)
      BY <1>1, <2>1, <2>6, <3>1
    <3>3. s \in Fine => step[s] = Store(scratch[s - w], s)
      OBVIOUS
    <3>4. s \in Fine <=> result[s] # "err"
      BY DEF Fine
    <3> HIDE DEF step
    <3>5. CASE result[s] = "err"
      BY <2>4, <2>5, <3>1, <3>2, <3>4, <3>5 DEF Finished, Calm, Past
    <3>6. CASE result[s] = "ok"
      <4>1. s \in Fine /\ Over(s) /\ groups[g][s] \notin starved
        BY <3>1, <3>4, <3>6 DEF Finished, Calm
      <4> DEFINE sc == scratch[s - w]
      <4>2. sc = Scratch(At(Image(s).tiles + 1, 0, Image(s).tiles), {}, Tiles(s, Image(s).tiles))
        <5>1. (Image(s).tiles + 1) - 1 = Image(s).tiles
          BY <3>1
        <5>2. sc = Scratch(At(Image(s).tiles + 1, 0, Image(s).tiles), {},
                           Tiles(s, (Image(s).tiles + 1) - 1))
          BY <4>1 DEF Over, Ready
        <5> HIDE DEF sc
        <5> QED
          BY <5>1, <5>2, Zenon
      <4>3. /\ sc.staged_state = At(Image(s).tiles + 1, 0, Image(s).tiles)
            /\ sc.planes = Tiles(s, Image(s).tiles)
        <5> HIDE DEF sc
        <5> QED
          BY <4>2, Fields
      <4>4. Tiles(s, Image(s).tiles) = Samples(groups[g][s])
        BY DEF Tiles, Samples, Image, Owner
      <4>5. Samples(groups[g][s]) \in SUBSET ((Nat \X Nat) \X Nat)
        <5>1. /\ calls \in Nat /\ groups[g][s] \in DOMAIN input
              /\ DOMAIN input = 1..Len(input) /\ Len(input) \in Nat
          BY <2>6, <3>1, SlotFacts DEF Ground, InputKnown
        <5>2. groups[g][s] \in Nat /\ input[groups[g][s]].tiles \in Nat
          BY <3>1, <5>1 DEF Image
        <5> QED
          BY <5>1, <5>2 DEF Samples
      <4>6. CASE FaultAt(s, "store", 0, 0)
        <5>1. step[s].result = "err" /\ Blamed(groups[g][s])
          BY <3>3, <4>1, <4>6, Fields DEF Store, FaultAt, Blamed, Image
        <5> QED
          BY <2>4, <2>5, <3>2, <4>1, <5>1 DEF Past
      <4>7. CASE ~FaultAt(s, "store", 0, 0)
        <5>1. step[s].result = "ok"
          BY <3>3, <4>1, <4>3, <4>7, Fields DEF Store
        <5>2. Image(s).fault.at = "none"
          BY <3>1, <4>1, <4>7 DEF FaultAt, Over
        <5>3. ~Blamed(groups[g][s])
          BY <4>1, <5>2 DEF Blamed, Image
        <5>4. output'[s] = Samples(groups[g][s]) /\ result'[s] = "ok"
          BY <3>2, <4>1, <4>3, <4>4, <5>1
        <5> QED
          BY <2>4, <2>5, <4>5, <5>3, <5>4 DEF Past
      <4> QED
        BY <4>6, <4>7
    <3> QED
      BY <3>1, <3>5, <3>6 DEF Finished, Calm
  <2> HIDE DEF step
  <2>8. ASSUME NEW s \in 1..Len(groups[g]), s \notin InWindow
        PROVE  /\ Past(s) => Past(s)'
               /\ Ahead(s) => Ahead(s)'
               /\ output'[s] = output[s]
    <3>1. result'[s] = result[s] /\ output'[s] = output[s]
      BY <1>1, <2>1, <2>6, <2>8 DEF Fine
    <3> QED
      BY <2>4, <2>5, <3>1 DEF Past, Ahead
  <2>9. output' \in [1..Len(groups[g]) -> SUBSET ((Nat \X Nat) \X Nat)]
    <3>1. \A s \in 1..Len(groups[g]) : output'[s] \in SUBSET ((Nat \X Nat) \X Nat)
      BY <2>6, <2>7, <2>8
    <3>2. output' = [s \in 1..Len(groups[g]) |-> output'[s]]
      BY <1>1, <2>6
    <3> QED
      BY <3>1, <3>2
  <2>10. /\ \A s \in 1..(w + Count) : Past(s)'
         /\ \A s \in (w + Count + 1)..Len(groups[g]) : Ahead(s)'
    <3>1. ASSUME NEW s \in 1..w PROVE Past(s)'
      <4>1. Past(s) /\ s \in 1..Len(groups[g]) /\ s \notin InWindow
        BY <2>3, <2>6 DEF Sides, InWindow
      <4> QED
        BY <2>8, <4>1
    <3>2. ASSUME NEW s \in (w + Count + 1)..Len(groups[g]) PROVE Ahead(s)'
      <4>1. Ahead(s) /\ s \in 1..Len(groups[g]) /\ s \notin InWindow
        BY <2>3, <2>6 DEF Sides, InWindow
      <4> QED
        BY <2>8, <4>1
    <3>3. \A s \in 1..(w + Count) : s \in 1..w \/ s \in InWindow
      BY <2>6 DEF InWindow
    <3> QED
      BY <2>7, <3>1, <3>2, <3>3
  <2>11. /\ DOMAIN result' = 1..Len(groups[g])
         /\ Window \in Nat /\ Count <= Window /\ w + Count <= Len(groups[g])
         /\ Count = Window \/ w + Count = Len(groups[g])
    BY <2>1, <2>6, WindowFacts, StagedAssumption
  <2>12. Ground' /\ Answers(g - 1)'
    <3>1. outcome' = outcome /\ outcome # "missing" /\ Answers(g - 1)
      BY <2>1, <2>2 DEF resultVars, StagedInv, InGroup, Ground
    <3>2. phase' \in InGroup
      BY <2>1 DEF InGroup
    <3> QED
      BY <1>1, <2>1, <2>4, <2>6, <3>1, <3>2, GroundKept, AnswersKept DEF StarvedHere
  <2>13. \A s \in 1..Len(groups[g]) : Image(s)'.planned = "yes"
    BY <1>1, <2>3, <2>4 DEF GroupKnown
  <2>14. CASE more
    <3>1. w' = w + Window /\ Count = Window /\ phase' = "window"
      BY <1>1, <2>1, <2>6, <2>11, <2>14
    <3>2. w' \in Nat /\ w' < Len(groups[g])
      BY <2>6, <2>11, <2>14, <3>1
    <3>3. /\ \A s \in 1..w' : Past(s)'
          /\ \A s \in (w' + 1)..Len(groups[g]) : Ahead(s)'
      BY <2>10, <3>1
    <3>4. GroupKnown'
      BY <2>4, <2>6, <2>9, <2>11, <2>13, <3>1, <3>2, <3>3 DEF GroupKnown, Between
    <3> QED
      BY <2>12, <3>1, <3>4 DEF StagedInv, Returned
  <2>15. CASE ~more
    <3>0. phase' = "collect" /\ ~(w + Window < Len(groups[g]))
      BY <2>1, <2>15
    <3>1. w + Count = Len(groups[g]) /\ phase' = "collect"
      BY <2>6, <2>11, <3>0
    <3>2. \A s \in 1..Len(groups[g]) : Past(s)'
      BY <2>10, <3>1
    <3>3. GroupKnown'
      BY <2>4, <2>6, <2>9, <2>11, <3>1, <3>2 DEF GroupKnown, Between
    <3> QED
      BY <2>12, <3>1, <3>3 DEF StagedInv, Returned
  <2> QED
    BY <2>14, <2>15
<1> QED
  BY <1>2, <1>3

-----------------------------------------------------------------------------
(* The entropy stage                                                       *)

\* The smaller of two numbers.
LEMMA Smaller ==
    ASSUME NEW a \in Nat, NEW b \in Nat
    PROVE  Min({a, b}) \in {a, b} /\ Min({a, b}) <= a /\ Min({a, b}) <= b
<1>1. \E x \in {a, b} : \A y \in {a, b} : x <= y
  OBVIOUS
<1>2. Min({a, b}) \in {a, b} /\ \A y \in {a, b} : Min({a, b}) <= y
  BY <1>1, Zenon DEF Min
<1> QED
  BY <1>2

\* Chunks of one size cut 1..n into ranges, one after the other.
LEMMA Chunks ==
    ASSUME NEW n \in Nat \ {0}, NEW size \in Nat \ {0}, NEW m, m = DivCeil(n, size)
    PROVE  /\ m \in Nat
           /\ \A c \in 1..m :
                 /\ (c - 1) * size + 1 \in 1..Min({n, c * size})
                 /\ Min({n, c * size}) \in 1..n
           /\ \A c, d \in 1..m : c < d => Min({n, c * size}) < (d - 1) * size + 1
           /\ \A j \in 1..n : \E c \in 1..m :
                 j \in ((c - 1) * size + 1)..Min({n, c * size})
<1>1. m \in Nat
  BY Ceiling
<1>2. ASSUME NEW c \in 1..m
      PROVE  /\ (c - 1) * size \in Nat /\ (c - 1) * size < n /\ c * size \in Nat
             /\ c * size = (c - 1) * size + size
             /\ Min({n, c * size}) \in {n, c * size}
             /\ Min({n, c * size}) <= n /\ Min({n, c * size}) <= c * size
  <2>1. (c - 1) * size \in Nat /\ (c - 1) * size < n
    BY <1>2, CutStarts
  <2>2. c \in Nat /\ c * size \in Nat /\ c * size = (c - 1) * size + size
    BY <1>1, SMTT(30)
  <2> DEFINE b == c * size
  <2>3. b \in Nat
    BY <2>2
  <2> HIDE DEF b
  <2>4. Min({n, b}) \in {n, b} /\ Min({n, b}) <= n /\ Min({n, b}) <= b
    BY <2>3, Smaller
  <2> QED
    BY <2>1, <2>2, <2>4 DEF b
<1>3. \A c \in 1..m : /\ (c - 1) * size + 1 \in 1..Min({n, c * size})
                      /\ Min({n, c * size}) \in 1..n
  <2> SUFFICES ASSUME NEW c \in 1..m
               PROVE  /\ (c - 1) * size + 1 \in 1..Min({n, c * size})
                      /\ Min({n, c * size}) \in 1..n
    OBVIOUS
  <2> DEFINE a == (c - 1) * size
  <2> DEFINE b == c * size
  <2> DEFINE l == Min({n, b})
  <2>1. a \in Nat /\ a < n /\ b = a + size /\ l \in {n, b} /\ l <= n
    BY <1>2
  <2> HIDE DEF a, b, l
  <2>2. a + 1 \in 1..l /\ l \in 1..n
    BY <2>1
  <2> QED
    BY <2>2 DEF a, b, l
<1>4. ASSUME NEW c \in 1..m, NEW d \in 1..m, c < d
      PROVE  Min({n, c * size}) < (d - 1) * size + 1
  <2>1. c * size <= (d - 1) * size
    <3>1. c \in Int /\ d - 1 \in Int /\ ~(d - 1 < c)
      BY <1>1, <1>4
    <3>2. c * size \in Int /\ (d - 1) * size \in Int
      BY <1>2
    <3> QED
      BY <3>1, <3>2, Cancel
  <2> DEFINE a == (d - 1) * size
  <2> DEFINE b == c * size
  <2> DEFINE l == Min({n, b})
  <2>2. a \in Nat /\ b \in Nat /\ b <= a /\ l \in {n, b} /\ l <= b
    BY <1>2, <2>1
  <2> HIDE DEF a, b, l
  <2>3. l < a + 1
    BY <2>2
  <2> QED
    BY <2>3 DEF a, b, l
<1>5. ASSUME NEW j \in 1..n
      PROVE  \E c \in 1..m : j \in ((c - 1) * size + 1)..Min({n, c * size})
  <2>1. PICK c \in 1..m : (c - 1) * size < j /\ j <= c * size
    BY CutCovers
  <2> DEFINE a == (c - 1) * size
  <2> DEFINE b == c * size
  <2> DEFINE l == Min({n, b})
  <2>2. a \in Nat /\ b \in Nat /\ a < j /\ j <= b /\ l \in {n, b}
    BY <1>2, <2>1
  <2> HIDE DEF a, b, l
  <2>3. j \in (a + 1)..l
    BY <2>2
  <2> QED
    BY <2>3 DEF a, b, l
<1> QED
  BY <1>1, <1>3, <1>4, <1>5

\* A step of the entropy stage.
LEMMA EntropyStep ==
    ASSUME StagedInv, phase \in {"jobs", "entropy"}, phase' = "entropy",
           UNCHANGED <<callVars, resultVars, result, g, w, t, tile_count, output>>,
           StarvedHere, DOMAIN scratch' = 1..Count,
           Staffing', \A s \in InWindow : TileDecoding(s)'
    PROVE  StagedInv'
<1>1. phase \in Between \cup {"window"} /\ phase \in Between /\ phase' \in Between
  BY DEF Between
<1>2. InWindow' = InWindow /\ \A s : Image(s)' = Image(s)
  BY SameGroup, SameWindow
<1>3. Tally /\ DOMAIN result = 1..Len(groups[g])
  BY <1>1 DEF StagedInv, InGroup, GroupKnown, WindowKnown
<1>4. Tally'
  BY <1>2, <1>3 DEF Tally
<1>5. Progress'
  BY <1>2 DEF Progress
<1> QED
  BY <1>1, <1>3, <1>4, <1>5, WindowStep

\* prepare_tile_jobs keeps the invariant: the chunks cover all jobs, each once.
LEMMA StartEntropyStep ==
    ASSUME StagedInv, StartEntropy
    PROVE  StagedInv'
<1> DEFINE n == Len(Jobs)
<1> DEFINE size == DivCeil(n, Min({n, Workers}))
<1> DEFINE m == DivCeil(n, size)
<1>1. /\ phase = "jobs"
      /\ UNCHANGED <<callVars, imageVars, g, w, t, tile_count, output, starved>>
  BY DEF StartEntropy
<1>2. CASE Abort("aborted")
  BY <1>1, <1>2, AbortKeeps
<1>3. CASE ~Abort("aborted")
  <2>1. /\ job' = Jobs /\ jobResult' = [j \in 1..n |-> "none"]
        /\ worker' = [c \in 1..m |->
               Worker((c - 1) * size + 1, Min({n, c * size}), "load", "no")]
        /\ phase' = "entropy" /\ UNCHANGED resultVars
    BY <1>3 DEF StartEntropy
  <2>2. phase \in Between \cup {"window"} /\ phase \in Between
    BY <1>1 DEF Between
  <2>3. /\ WindowKnown /\ Tally /\ \A s \in InWindow : TileOpen(s)
        /\ t \in Nat \ {0} /\ DOMAIN scratch = 1..Count
    BY <1>1, <2>2 DEF StagedInv, InGroup, GroupKnown, WindowKnown, Progress, Tally
  <2>4. /\ input' = input /\ groups' = groups /\ InWindow' = InWindow /\ t' = t
        /\ g' = g /\ w' = w /\ starved' = starved /\ calls' = calls
        /\ scratch' = scratch /\ result' = result /\ failed' = failed
        /\ \A s : Image(s)' = Image(s)
        /\ \A s, p, b, f : Spared(s, p, b, f)' <=> Spared(s, p, b, f)
    BY <1>1, SameGroup, SameWindow DEF imageVars
  <2>5. w \in Nat /\ Count \in Nat \ {0}
    BY <2>2, WindowImages
  <2>6. /\ DOMAIN Jobs = 1..Len(Jobs) /\ Len(Jobs) \in Nat
        /\ \A j \in 1..Len(Jobs) :
              /\ Jobs[j][1] \in InWindow /\ t <= Image(Jobs[j][1]).tiles
              /\ Jobs[j][2] \in 1..Blocks
        /\ \A s \in InWindow, k \in 1..Blocks : t <= Image(s).tiles =>
              \E j \in 1..Len(Jobs) : Jobs[j][1] = s /\ Jobs[j][2] = k
    BY <2>5, JobsFacts
  <2>7. n \in Nat \ {0}
    <3>1. PICK s \in InWindow : t <= tile_count /\ tile_count <= Image(s).tiles
      BY <1>1, <2>3 DEF Tally
    <3>2. t <= Image(s).tiles /\ 1 \in 1..Blocks
      <4>1. Image(s).tiles \in Nat /\ tile_count \in Nat
        BY <2>2, <2>3, WindowImages DEF Tally
      <4> QED
        BY <2>3, <3>1, <4>1, StagedAssumption
    <3>3. \E j \in 1..n : TRUE
      BY <2>6, <3>2
    <3> QED
      BY <2>6, <3>3
  <2>8. JobsKnown'
    <3>1. job' = Jobs /\ DOMAIN jobResult' = 1..Len(Jobs)
      BY <2>1
    <3> QED
      BY <2>4, <2>6, <3>1 DEF JobsKnown
  <2> HIDE DEF n
  <2>9. size \in Nat \ {0}
    <3> DEFINE r == Min({n, Workers})
    <3>1. r \in Nat \ {0}
      BY <2>7, Smaller, StagedAssumption
    <3> HIDE DEF r
    <3>2. DivCeil(n, r) \in Nat \ {0}
      BY <2>7, <3>1, CutCounts
    <3> QED
      BY <3>2 DEF r
  <2> HIDE DEF size
  <2>10. m = DivCeil(n, size)
    OBVIOUS
  <2> HIDE DEF m
  <2>11. /\ m \in Nat
         /\ \A c \in 1..m :
               /\ (c - 1) * size + 1 \in 1..Min({n, c * size})
               /\ Min({n, c * size}) \in 1..n
         /\ \A c, d \in 1..m : c < d => Min({n, c * size}) < (d - 1) * size + 1
         /\ \A j \in 1..n : \E c \in 1..m :
               j \in ((c - 1) * size + 1)..Min({n, c * size})
    BY <2>7, <2>9, <2>10, Chunks
  <2>12. /\ Len(job') = n /\ Len(worker') = m /\ DOMAIN worker' = 1..m
         /\ \A j \in 1..n : jobResult'[j] = "none"
         /\ \A c \in 1..m :
               /\ worker'[c].at = (c - 1) * size + 1 /\ worker'[c].last = Min({n, c * size})
               /\ worker'[c].pc = "load"
    BY <2>1, <2>11, Fields DEF n
  <2>13. ErrorsBlamed' /\ Untaken' /\ Loaded'
    <3>1. ErrorsBlamed'
      BY <2>12 DEF ErrorsBlamed
    <3>2. Loaded'
      BY <2>12 DEF Loaded
    <3>3. Untaken'
      <4> SUFFICES ASSUME NEW c \in 1..m, NEW j \in worker'[c].at..worker'[c].last
                   PROVE  jobResult'[j] = "none"
        BY <2>12 DEF Untaken
      <4> DEFINE a == (c - 1) * size + 1
      <4> DEFINE l == Min({n, c * size})
      <4>1. a \in 1..l /\ l \in 1..n /\ j \in a..l
        BY <2>11, <2>12
      <4> HIDE DEF a, l
      <4>2. j \in 1..n
        BY <2>7, <4>1
      <4> QED
        BY <2>12, <4>2
    <3> QED
      BY <3>1, <3>2, <3>3
  <2>14. WorkersKnown'
    <3>1. ASSUME NEW c \in 1..m
          PROVE  worker'[c].last \in 1..n /\ worker'[c].at \in 1..worker'[c].last
      BY <2>11, <2>12
    <3>2. ASSUME NEW c \in 1..m, NEW d \in 1..m, c < d
          PROVE  worker'[c].last < worker'[d].at
      BY <2>11, <2>12, <3>2
    <3> QED
      BY <2>11, <2>12, <3>1, <3>2 DEF WorkersKnown
  <2>15. NoneLost'
    <3> SUFFICES ASSUME NEW j \in 1..n
                 PROVE  \E c \in 1..m : worker'[c].pc # "done" /\ j \in worker'[c].at..worker'[c].last
      BY <2>12 DEF NoneLost
    <3>1. PICK c \in 1..m : j \in ((c - 1) * size + 1)..Min({n, c * size})
      BY <2>11
    <3>2. worker'[c].pc # "done" /\ j \in worker'[c].at..worker'[c].last
      BY <2>12, <3>1
    <3> QED
      BY <3>2
  <2>16. ASSUME NEW s \in InWindow PROVE TileDecoding(s)'
    <3>1. TileOpen(s) /\ Image(s).tiles \in Nat \ {0}
      BY <2>2, <2>3, WindowImages
    <3>2. Blamed(groups[g][s])' <=> Blamed(groups[g][s])
      BY <2>4 DEF Blamed
    <3>3. result'[s] \in {"ok", "err"}
          /\ (result'[s] = "err" => s \in failed' /\ Blamed(groups[g][s])')
      BY <2>4, <3>1, <3>2 DEF TileOpen, Calm
    <3>4. ASSUME result'[s] = "ok", t > Image(s).tiles
          PROVE  Over(s)' /\ s \notin failed' /\ groups'[g'][s] \notin starved'
      <4>1. Over(s) /\ Calm(s)
        BY <2>3, <2>4, <3>1, <3>4 DEF TileOpen
      <4>2. \A k : Tiles(s, k)' = Tiles(s, k)
        BY <1>1, SameGroup
      <4>3. Over(s)'
        BY <2>4, <4>1, <4>2 DEF Over, Ready
      <4> QED
        BY <2>4, <3>4, <4>1, <4>3 DEF Calm
    <3>5. ASSUME result'[s] = "ok", ~(t > Image(s).tiles)
          PROVE  /\ scratch'[s - w].staged_state = At(t, t, Image(s).tiles)
                 /\ Spared(s, t, t - 1, t - 1) /\ s \notin failed' /\ Unharmed(s)'
      <4>1. Opened(s, {}) /\ Spared(s, t, t - 1, t - 1) /\ Calm(s)
        BY <2>3, <2>4, <3>1, <3>5 DEF TileOpen
      <4>2. Done(s)' = {}
        BY <2>12 DEF Done
      <4>3. {Block(s, k) : k \in Done(s)}' = {}
        BY <4>2
      <4>4. \A k : Tiles(s, k)' = Tiles(s, k)
        BY <1>1, SameGroup
      <4>5. Opened(s, {})'
        BY <2>4, <4>1, <4>4 DEF Opened
      <4>6. Unharmed(s)'
        BY <2>4, <3>5, <4>1, <4>2, <4>3, <4>5 DEF Unharmed, Calm
      <4>7. scratch'[s - w].staged_state = At(t, t, Image(s).tiles)
        BY <2>4, <4>1, Fields DEF Opened
      <4> QED
        BY <2>4, <3>5, <4>1, <4>6, <4>7 DEF Calm
    <3> QED
      BY <2>4, <3>1, <3>3, <3>4, <3>5 DEF TileDecoding
  <2> QED
    BY <1>1, <2>1, <2>3, <2>4, <2>8, <2>13, <2>14, <2>15, <2>16, EntropyStep
       DEF Staffing, StarvedHere, imageVars
<1> QED
  BY <1>2, <1>3

\* A worker and its job.
LEMMA WorkerFacts ==
    ASSUME StagedInv, phase = "entropy", NEW c \in DOMAIN worker
    PROVE  /\ c \in 1..Len(worker) /\ Staffing /\ \A s \in InWindow : TileDecoding(s)
           /\ worker[c].last \in 1..Len(job) /\ worker[c].at \in 1..worker[c].last
           /\ Len(job) \in Nat /\ worker[c].at \in 1..Len(job)
           /\ Slot(c) \in InWindow /\ t <= Image(Slot(c)).tiles
           /\ job[worker[c].at][2] \in 1..Blocks
           /\ worker[c].pc \in {"load", "execute"} => jobResult[worker[c].at] = "none"
           /\ DOMAIN scratch = 1..Count /\ t \in Nat \ {0}
<1>1. Staffing /\ (\A s \in InWindow : TileDecoding(s)) /\ DOMAIN scratch = 1..Count /\ t \in Nat \ {0}
  BY DEF StagedInv, InGroup, Between, GroupKnown, WindowKnown, Progress, Tally
<1>2. c \in 1..Len(worker) /\ Len(job) \in Nat
  BY <1>1 DEF Staffing, WorkersKnown, JobsKnown
<1>3. worker[c].last \in 1..Len(job) /\ worker[c].at \in 1..worker[c].last
  BY <1>1, <1>2 DEF Staffing, WorkersKnown
<1>4. worker[c].at \in 1..Len(job) /\ worker[c].at \in worker[c].at..worker[c].last
  BY <1>2, <1>3
<1>5. Slot(c) \in InWindow /\ t <= Image(Slot(c)).tiles /\ job[worker[c].at][2] \in 1..Blocks
  BY <1>1, <1>4 DEF Staffing, JobsKnown, Slot
<1>6. worker[c].pc \in {"load", "execute"} => jobResult[worker[c].at] = "none"
  BY <1>1, <1>2, <1>4 DEF Staffing, Untaken
<1> QED
  BY <1>1, <1>2, <1>3, <1>4, <1>5, <1>6

\* Worker c answers its job and goes to the next one.
Taken(c) ==
    /\ \E v \in {"ok", "err"} : jobResult' = [jobResult EXCEPT ![worker[c].at] = v]
    /\ \E r : worker' = [worker EXCEPT ![c] = Advance(worker[c], r)]

\* A worker that answers its job and goes on to the next keeps the staffing.
LEMMA TakenStaff ==
    ASSUME StagedInv, phase = "entropy", NEW c \in DOMAIN worker,
           worker[c].pc \in {"load", "execute"}, Taken(c),
           UNCHANGED <<callVars, g, w, t, job, result>>
    PROVE  /\ JobsKnown' /\ WorkersKnown' /\ Untaken' /\ Loaded' /\ NoneLost'
           /\ \A j \in 1..Len(job) : j # worker[c].at => jobResult'[j] = jobResult[j]
           /\ jobResult'[worker[c].at] \in {"ok", "err"}
<1> DEFINE at == worker[c].at
<1> DEFINE last == worker[c].last
<1>1. /\ c \in 1..Len(worker) /\ Staffing /\ last \in 1..Len(job) /\ at \in 1..last
      /\ Len(job) \in Nat /\ at \in 1..Len(job)
  BY WorkerFacts
<1>2. /\ DOMAIN worker = 1..Len(worker) /\ DOMAIN jobResult = 1..Len(job)
      /\ Len(worker) \in Nat
  BY <1>1 DEF Staffing, JobsKnown, WorkersKnown
<1>3. PICK v \in {"ok", "err"} : jobResult' = [jobResult EXCEPT ![at] = v]
  BY DEF Taken
<1>0. PICK r : worker' = [worker EXCEPT ![c] = Advance(worker[c], r)]
  BY DEF Taken
<1>4. /\ DOMAIN jobResult' = 1..Len(job) /\ jobResult'[at] \in {"ok", "err"}
      /\ \A j \in 1..Len(job) : j # at => jobResult'[j] = jobResult[j]
  BY <1>1, <1>2, <1>3
<1>5. /\ DOMAIN worker' = 1..Len(worker) /\ Len(worker') = Len(worker)
      /\ worker'[c] = Advance(worker[c], r)
      /\ \A d \in 1..Len(worker) : d # c => worker'[d] = worker[d]
  BY <1>0, <1>2
<1>6. /\ at = last => worker'[c].at = at /\ worker'[c].pc = "done"
      /\ at # last => worker'[c].at = at + 1 /\ worker'[c].pc = "load"
      /\ worker'[c].last = last
  BY <1>5, Fields DEF Advance
<1>7. /\ InWindow' = InWindow /\ t' = t /\ job' = job /\ result' = result
      /\ \A s : Image(s)' = Image(s)
  BY SameGroup, SameWindow
<1>8. JobsKnown'
  BY <1>1, <1>4, <1>7 DEF JobsKnown, Staffing
<1>9. at \in Nat /\ last \in Nat /\ at <= last
  BY <1>1
<1> HIDE DEF at, last
<1>10. /\ \A d \in 1..Len(worker) :
             /\ worker[d].pc \in {"load", "execute", "done", "dead"}
             /\ worker[d].last \in 1..Len(job) /\ worker[d].at \in 1..worker[d].last
       /\ \A d, e \in 1..Len(worker) : d < e => worker[d].last < worker[e].at
  BY <1>1 DEF Staffing, WorkersKnown
<1>11. worker[c].at = at /\ worker[c].last = last
  BY DEF at, last
<1>12. WorkersKnown'
  <2>1. ASSUME NEW d \in 1..Len(worker)
        PROVE  /\ worker'[d].pc \in {"load", "execute", "done", "dead"}
               /\ worker'[d].last \in 1..Len(job) /\ worker'[d].at \in 1..worker'[d].last
               /\ worker'[d].last = worker[d].last
               /\ worker'[d].at \in Nat /\ worker'[d].at >= worker[d].at
    <3>1. CASE d = c
      BY <1>1, <1>6, <1>9, <1>11, <3>1
    <3>2. CASE d # c
      BY <1>1, <1>5, <1>10, <3>2
    <3> QED
      BY <3>1, <3>2
  <2>2. ASSUME NEW d \in 1..Len(worker), NEW e \in 1..Len(worker), d < e
        PROVE  worker'[d].last < worker'[e].at
    <3>1. worker[d].last < worker[e].at /\ worker[d].last \in Nat /\ worker[e].at \in Nat
      BY <1>1, <1>10, <2>2
    <3> QED
      BY <2>1, <3>1
  <2> QED
    BY <1>2, <1>5, <1>7, <2>1, <2>2 DEF WorkersKnown
<1>13. Untaken'
  <2> SUFFICES ASSUME NEW d \in 1..Len(worker), worker'[d].pc \in {"load", "execute"},
                      NEW j \in worker'[d].at..worker'[d].last
               PROVE  jobResult'[j] = "none"
    BY <1>5 DEF Untaken
  <2>1. j \in worker[d].at..worker[d].last /\ j # at /\ worker[d].pc \in {"load", "execute"}
    <3>1. CASE d = c
      BY <1>6, <1>9, <1>11, <3>1
    <3>2. CASE d # c
      <4>1. worker'[d] = worker[d] /\ worker[d].at \in Nat /\ worker[d].last \in Nat
        <5>1. /\ Len(job) \in Nat /\ worker[d].last \in 1..Len(job)
              /\ worker[d].at \in 1..worker[d].last
          BY <1>2, <1>10
        <5>2. worker'[d] = worker[d]
          BY <1>5, <3>2
        <5> QED
          BY <5>1, <5>2
      <4>2. c < d \/ d < c
        BY <1>1, <1>2, <3>2
      <4>3. last < worker[d].at \/ worker[d].last < at
        BY <1>1, <1>10, <1>11, <4>2
      <4> QED
        BY <1>9, <4>1, <4>3
    <3> QED
      BY <3>1, <3>2
  <2>2. j \in 1..Len(job) /\ jobResult[j] = "none"
    <3>1. worker[d].last \in 1..Len(job) /\ worker[d].at \in 1..worker[d].last
      BY <1>10
    <3> QED
      BY <1>1, <2>1, <3>1 DEF Staffing, Untaken
  <2> QED
    BY <1>4, <2>1, <2>2
<1>14. Loaded'
  <2> SUFFICES ASSUME NEW d \in 1..Len(worker), worker'[d].pc = "execute"
               PROVE  result'[Slot(d)'] = "ok"
    BY <1>5 DEF Loaded
  <2>1. d # c /\ worker'[d] = worker[d]
    BY <1>5, <1>6
  <2>2. Slot(d)' = Slot(d)
    BY <1>7, <2>1 DEF Slot
  <2> QED
    BY <1>1, <1>7, <2>1, <2>2 DEF Staffing, Loaded
<1>15. NoneLost'
  <2> SUFFICES ASSUME NEW j \in 1..Len(job), jobResult'[j] = "none"
               PROVE  \E d \in 1..Len(worker) :
                         worker'[d].pc # "done" /\ j \in worker'[d].at..worker'[d].last
    BY <1>5, <1>7 DEF NoneLost
  <2>1. j # at /\ jobResult[j] = "none"
    BY <1>4
  <2>2. PICK d \in 1..Len(worker) :
           worker[d].pc # "done" /\ j \in worker[d].at..worker[d].last
    BY <1>1, <2>1 DEF Staffing, NoneLost
  <2>3. CASE d = c
    BY <1>6, <1>9, <1>11, <2>1, <2>2, <2>3
  <2>4. CASE d # c
    BY <1>5, <2>2, <2>4
  <2> QED
    BY <2>3, <2>4
<1> QED
  BY <1>4, <1>8, <1>12, <1>13, <1>14, <1>15 DEF at

\* Worker c goes on to decode its job, or is lost with it.
Moved(c) ==
    \E where \in {"execute", "dead"} :
        /\ worker' = [worker EXCEPT ![c] =
                         Worker(worker[c].at, worker[c].last, where, worker[c].ready)]
        /\ where = "execute" => result[Slot(c)] = "ok"

\* A worker that moves on without an answer keeps the staffing.
LEMMA MovedStaff ==
    ASSUME StagedInv, phase = "entropy", NEW c \in DOMAIN worker,
           worker[c].pc \in {"load", "execute"}, Moved(c),
           UNCHANGED <<callVars, g, w, t, job, jobResult, result, failed, starved>>
    PROVE  Staffing'
<1>0. PICK where \in {"execute", "dead"} :
         /\ worker' = [worker EXCEPT ![c] =
                          Worker(worker[c].at, worker[c].last, where, worker[c].ready)]
         /\ where = "execute" => result[Slot(c)] = "ok"
  BY DEF Moved
<1>1. c \in 1..Len(worker) /\ Staffing /\ DOMAIN worker = 1..Len(worker)
  BY WorkerFacts DEF Staffing, WorkersKnown
<1>2. /\ DOMAIN worker' = 1..Len(worker) /\ Len(worker') = Len(worker) /\ Len(worker) \in Nat
      /\ \A d \in 1..Len(worker) :
            worker'[d].at = worker[d].at /\ worker'[d].last = worker[d].last
      /\ worker'[c].pc = where
      /\ \A d \in 1..Len(worker) : d # c => worker'[d] = worker[d]
  BY <1>0, <1>1, Fields DEF Staffing, WorkersKnown
<1>3. /\ InWindow' = InWindow /\ t' = t /\ job' = job /\ result' = result /\ failed' = failed
      /\ groups' = groups /\ g' = g /\ jobResult' = jobResult
      /\ \A s : Image(s)' = Image(s)
  BY SameGroup, SameWindow
<1>4. \A i : Blamed(i)' <=> Blamed(i)
  BY SameGroup DEF Blamed
<1>5. JobsKnown'
  BY <1>1, <1>3 DEF JobsKnown, Staffing
<1>6. ErrorsBlamed'
  BY <1>1, <1>3, <1>4 DEF ErrorsBlamed, Staffing
<1>7. WorkersKnown'
  BY <1>1, <1>2, <1>3 DEF WorkersKnown, Staffing
<1>8. \A d \in 1..Len(worker) : worker'[d].pc \in {"load", "execute"} =>
                                   worker[d].pc \in {"load", "execute"}
  BY <1>2
<1>9. Untaken'
  BY <1>1, <1>2, <1>3, <1>8 DEF Untaken, Staffing
<1>10. Loaded'
  <2>1. \A d \in 1..Len(worker) : Slot(d)' = Slot(d)
    BY <1>2, <1>3 DEF Slot
  <2> QED
    BY <1>0, <1>1, <1>2, <1>3, <2>1 DEF Loaded, Staffing
<1>11. NoneLost'
  <2>1. \A d \in 1..Len(worker) : worker[d].pc # "done" => worker'[d].pc # "done"
    BY <1>2
  <2> QED
    BY <1>1, <1>2, <1>3, <2>1 DEF NoneLost, Staffing
<1> QED
  BY <1>5, <1>6, <1>7, <1>9, <1>10, <1>11 DEF Staffing

\* An image whose scratch, flag and jobs a step leaves alone.
LEMMA SlotKept ==
    ASSUME UNCHANGED <<callVars, g, w, t, result, job>>, NEW r, TileDecoding(r),
           scratch'[r - w] = scratch[r - w], r \in failed' <=> r \in failed,
           groups[g][r] \in starved' <=> groups[g][r] \in starved,
           r \notin failed => Done(r)' = Done(r),
           (\E j \in 1..Len(job) : job[j][1] = r /\ jobResult[j] = "err") =>
              \E j \in 1..Len(job) : job[j][1] = r /\ jobResult'[j] = "err"
    PROVE  TileDecoding(r)'
<1>1. /\ input' = input /\ groups' = groups /\ g' = g /\ w' = w /\ t' = t /\ result' = result
      /\ job' = job /\ calls' = calls
      /\ \A s : Image(s)' = Image(s) /\ Owner(s)' = Owner(s)
      /\ \A s, n : Tiles(s, n)' = Tiles(s, n)
      /\ \A s, at, n, k : FaultAt(s, at, n, k)' <=> FaultAt(s, at, n, k)
      /\ \A s, p, b, f : Spared(s, p, b, f)' <=> Spared(s, p, b, f)
  BY SameGroup
<1>2. Blamed(groups[g][r])' <=> Blamed(groups[g][r])
  BY <1>1 DEF Blamed
<1>3. \A k : Block(r, k)' = Block(r, k)
  BY <1>1 DEF Block
<1>4. Over(r)' <=> Over(r)
  BY <1>1 DEF Over, Ready
<1>5. ASSUME r \notin failed, Unharmed(r) PROVE Unharmed(r)'
  <2>1. Done(r)' = Done(r)
    BY <1>5
  <2>2. {Block(r, k) : k \in Done(r)}' = {Block(r, k) : k \in Done(r)}
    BY <1>3, <2>1
  <2> DEFINE B == {Block(r, k) : k \in Done(r)}
  <2>3. Opened(r, B) /\ B' = B
    BY <1>5, <2>2 DEF Unharmed
  <2> HIDE DEF B
  <2>4. Opened(r, B)'
    BY <1>1, <2>3 DEF Opened
  <2>5. groups'[g'][r] \notin starved' /\ \A k \in Done(r)' : ~FaultAt(r, "block", t, k)'
    BY <1>1, <1>5, <2>1 DEF Unharmed
  <2> QED
    BY <2>4, <2>5 DEF Unharmed, B
<1> QED
  BY <1>1, <1>2, <1>4, <1>5 DEF TileDecoding

\* Reading a failure flag keeps the invariant.
LEMMA LoadStep ==
    ASSUME StagedInv, NEW c \in DOMAIN worker, Load(c)
    PROVE  StagedInv'
<1> DEFINE s == Slot(c)
<1> DEFINE at == worker[c].at
<1>1. /\ phase = "entropy" /\ worker[c].pc = "load"
      /\ UNCHANGED <<callVars, imageVars, resultVars, phase, g, w, t, tile_count, job,
                     output, starved>>
  BY DEF Load, Busy
<1>2. /\ Staffing /\ (\A r \in InWindow : TileDecoding(r)) /\ DOMAIN scratch = 1..Count
      /\ s \in InWindow /\ at \in 1..Len(job) /\ jobResult[at] = "none"
      /\ s = job[at][1]
  BY <1>1, WorkerFacts DEF Slot
<1>3. /\ scratch' = scratch /\ result' = result /\ failed' = failed /\ starved' = starved
      /\ groups' = groups /\ g' = g /\ job' = job
      /\ \A i : Blamed(i)' <=> Blamed(i)
  BY <1>1, SameGroup DEF imageVars, Blamed
<1> HIDE DEF s, at
<1>4. CASE s \in failed
  <2>1. /\ jobResult' = [jobResult EXCEPT ![at] = "ok"]
        /\ worker' = [worker EXCEPT ![c] = Advance(worker[c], worker[c].ready)]
    BY <1>4 DEF Load, s, at
  <2>2. Taken(c)
    BY <2>1 DEF Taken, at
  <2>3. /\ JobsKnown' /\ WorkersKnown' /\ Untaken' /\ Loaded' /\ NoneLost'
        /\ \A j \in 1..Len(job) : j # at => jobResult'[j] = jobResult[j]
    BY <1>1, <1>3, <2>2, TakenStaff DEF at
  <2>4. jobResult'[at] = "ok"
    BY <1>2, <2>1 DEF Staffing, JobsKnown
  <2>5. ErrorsBlamed'
    BY <1>2, <1>3, <2>3, <2>4 DEF Staffing, ErrorsBlamed
  <2>6. ASSUME NEW r \in InWindow PROVE TileDecoding(r)'
    <3>1. r \notin failed => Done(r)' = Done(r)
      <4>1. r \notin failed => r # s
        BY <1>4
      <4> QED
        BY <1>2, <1>3, <2>3, <4>1 DEF Done
    <3>2. (\E j \in 1..Len(job) : job[j][1] = r /\ jobResult[j] = "err") =>
             \E j \in 1..Len(job) : job[j][1] = r /\ jobResult'[j] = "err"
      BY <1>2, <2>3
    <3> QED
      BY <1>1, <1>2, <1>3, <3>1, <3>2, SlotKept
  <2> QED
    BY <1>1, <1>2, <1>3, <2>3, <2>5, <2>6, EntropyStep DEF Staffing, StarvedHere
<1>5. CASE s \notin failed
  <2>1. /\ jobResult' = jobResult
        /\ worker' = [worker EXCEPT ![c] =
                         Worker(worker[c].at, worker[c].last, "execute", worker[c].ready)]
    BY <1>5 DEF Load, s
  <2>2. result[s] = "ok"
    BY <1>2, <1>5 DEF TileDecoding
  <2>3. Staffing'
    <3>1. Moved(c)
      BY <2>1, <2>2 DEF Moved, s
    <3> QED
      BY <1>1, <1>3, <2>1, <3>1, MovedStaff
  <2>4. ASSUME NEW r \in InWindow PROVE TileDecoding(r)'
    <3>1. Done(r)' = Done(r)
      BY <1>3, <2>1 DEF Done
    <3> QED
      BY <1>1, <1>2, <1>3, <2>1, <3>1, SlotKept
  <2> QED
    BY <1>1, <1>2, <1>3, <2>3, <2>4, EntropyStep DEF StarvedHere
<1> QED
  BY <1>4, <1>5

\* A worker that panics or was not started keeps the invariant: the call will abort.
LEMMA DieStep ==
    ASSUME StagedInv, NEW c \in DOMAIN worker, Die(c)
    PROVE  StagedInv'
<1>1. /\ phase = "entropy" /\ worker[c].pc \in {"load", "execute"}
      /\ worker' = [worker EXCEPT ![c] =
                       Worker(worker[c].at, worker[c].last, "dead", worker[c].ready)]
      /\ UNCHANGED <<callVars, imageVars, resultVars, phase, g, w, t, tile_count, job,
                     jobResult, output, starved>>
  BY DEF Die, Busy
<1>2. (\A r \in InWindow : TileDecoding(r)) /\ DOMAIN scratch = 1..Count
  BY <1>1, WorkerFacts
<1>3. scratch' = scratch /\ result' = result /\ failed' = failed
  BY <1>1 DEF imageVars
<1>4. Staffing'
  <2>1. Moved(c)
    BY <1>1 DEF Moved
  <2> QED
    BY <1>1, <1>3, <2>1, MovedStaff
<1>5. ASSUME NEW r \in InWindow PROVE TileDecoding(r)'
  <2>1. Done(r)' = Done(r)
    BY <1>1 DEF Done
  <2> QED
    BY <1>1, <1>2, <1>3, <2>1, SlotKept
<1> QED
  BY <1>1, <1>2, <1>3, <1>4, <1>5, EntropyStep DEF StarvedHere

\* What a block that is decoded, or is not, does to its image.
LEMMA BlockDecoded ==
    ASSUME StagedInv, NEW c \in DOMAIN worker, Execute(c),
           NEW s, s = Slot(c), NEW at, at = worker[c].at, NEW k, k = job[at][2]
    PROVE  /\ jobResult'[at] = "err" => Blamed(groups[g][s]) /\ s \in failed'
           /\ TileDecoding(s)'
           /\ jobResult'[at] \in {"ok", "err"}
           /\ \A r : r # s => (r \in failed' <=> r \in failed)
           /\ failed \subseteq failed'
<1> DEFINE sc == scratch[s - w]
<1> DEFINE step == DecodeBlock(sc, s, k)
<1>1. /\ phase = "entropy" /\ worker[c].pc = "execute"
      /\ scratch' = [scratch EXCEPT ![s - w] = step.scratch]
      /\ failed' = IF step.result = "err" THEN failed \cup {s} ELSE failed
      /\ jobResult' = [jobResult EXCEPT ![at] = step.result]
      /\ worker' = [worker EXCEPT ![c] = Advance(worker[c], "yes")]
      /\ UNCHANGED <<callVars, resultVars, phase, g, w, t, tile_count, job, result,
                     output, starved>>
  BY DEF Execute, Busy
<1>2. /\ Staffing /\ TileDecoding(s) /\ DOMAIN scratch = 1..Count /\ t \in Nat \ {0}
      /\ s \in InWindow /\ at \in 1..Len(job) /\ jobResult[at] = "none" /\ k \in 1..Blocks
      /\ s = job[at][1] /\ c \in 1..Len(worker) /\ t <= Image(s).tiles
      /\ DOMAIN jobResult = 1..Len(job)
  BY <1>1, WorkerFacts DEF Slot, Staffing, JobsKnown
<1>3. /\ s - w \in 1..Count /\ Image(s).tiles \in Nat \ {0}
  BY <1>1, <1>2, WindowImages DEF Between
<1>4. /\ input' = input /\ groups' = groups /\ g' = g /\ w' = w /\ t' = t /\ result' = result
      /\ job' = job /\ calls' = calls /\ starved' = starved
      /\ \A r : Image(r)' = Image(r) /\ Owner(r)' = Owner(r)
      /\ \A r, n : Tiles(r, n)' = Tiles(r, n)
      /\ \A r, a, n, b : FaultAt(r, a, n, b)' <=> FaultAt(r, a, n, b)
      /\ \A r, p, b, f : Spared(r, p, b, f)' <=> Spared(r, p, b, f)
  BY <1>1, SameGroup
<1>5. scratch'[s - w] = step.scratch /\ jobResult'[at] = step.result
      /\ \A j \in 1..Len(job) : j # at => jobResult'[j] = jobResult[j]
  BY <1>1, <1>2, <1>3
<1>6. result[s] = "ok" /\ s - w = s - w'
  BY <1>1, <1>2, <1>4 DEF Staffing, Loaded
<1>7. /\ sc.staged_state = At(t, t, Image(s).tiles) /\ Spared(s, t, t - 1, t - 1)
      /\ s \notin failed => Unharmed(s)
      /\ s \in failed => \E j \in 1..Len(job) : job[j][1] = s /\ jobResult[j] = "err"
  <2>1. ~(t > Image(s).tiles)
    BY <1>2, <1>3
  <2> QED
    BY <1>2, <1>6, <2>1 DEF TileDecoding
<1>8. Active(sc) /\ (Active(sc) <=> TRUE)
  BY <1>2, <1>7, Fields DEF Active
<1>9. ~(t > Image(s).tiles)
  BY <1>2, <1>3
<1> HIDE DEF sc, step
<1>10. sc = scratch[s - w]
  BY DEF sc
<1>11. CASE FaultAt(s, "block", t, k)
  <2>1. step = Step(sc, "err")
    BY <1>11 DEF DecodeBlock, step
  <2>2. step.result = "err" /\ step.scratch = sc
    BY <2>1, Fields
  <2>3. Blamed(groups[g][s])
    BY <1>11 DEF FaultAt, Blamed, Image
  <2>4. s \in failed' /\ failed' = failed \cup {s}
    BY <1>1, <2>2
  <2>5. TileDecoding(s)'
    <3>1. \E j \in 1..Len(job) : job[j][1] = s /\ jobResult'[j] = "err"
      BY <1>2, <1>5, <2>2
    <3>2. Blamed(groups[g][s])'
      BY <1>4, <2>3 DEF Blamed
    <3>3. scratch'[s - w].staged_state = At(t, t, Image(s).tiles)
      BY <1>5, <1>7, <2>2
    <3> QED
      BY <1>4, <1>6, <1>7, <1>9, <2>4, <3>1, <3>2, <3>3 DEF TileDecoding
  <2> QED
    BY <1>5, <1>10, <2>2, <2>3, <2>4, <2>5
<1>12. CASE ~FaultAt(s, "block", t, k)
  <2> DEFINE full == Scratch(sc.staged_state, sc.bands \cup {Block(s, k)}, sc.planes)
  <2>1. step = Step(full, "ok")
    BY <1>8, <1>12 DEF DecodeBlock, step
  <2>2. step.result = "ok" /\ step.scratch = full
    <3> HIDE DEF full
    <3> QED
      BY <2>1, Fields
  <2>3. failed' = failed
    BY <1>1, <2>2
  <2>4. scratch'[s - w].staged_state = At(t, t, Image(s).tiles)
    BY <1>5, <1>7, <2>2, Fields
  <2>5. ASSUME s \notin failed PROVE Unharmed(s)'
    <3> DEFINE B == {Block(s, b) : b \in Done(s)}
    <3>1. /\ sc = Scratch(At(t, t, Image(s).tiles), B, Tiles(s, t - 1))
          /\ groups[g][s] \notin starved
          /\ \A b \in Done(s) : ~FaultAt(s, "block", t, b)
      BY <1>7, <1>10, <2>5 DEF Unharmed, Opened
    <3>2. Done(s)' = Done(s) \cup {k}
      <4>1. jobResult'[at] = "ok" /\ job[at][2] = k
        BY <1>5, <2>2
      <4> QED
        BY <1>2, <1>4, <1>5, <4>1 DEF Done
    <3>3. \A b : Block(s, b)' = Block(s, b)
      BY <1>4 DEF Block
    <3>4. {Block(s, b) : b \in Done(s)}' = B \cup {Block(s, k)}
      BY <3>2, <3>3
    <3> DEFINE B1 == {Block(s, b) : b \in Done(s)}'
    <3> HIDE DEF B, full
    <3>5. sc.staged_state = At(t, t, Image(s).tiles) /\ sc.bands = B /\ sc.planes = Tiles(s, t - 1)
      BY <3>1, Fields
    <3>6. full = Scratch(At(t, t, Image(s).tiles), B1, Tiles(s, t - 1))
      BY <3>4, <3>5 DEF full
    <3>7. scratch'[s - w'] = Scratch(At(t, t, Image(s).tiles), B1, Tiles(s, t - 1))
      <4> HIDE DEF B1
      <4> QED
        BY <1>5, <1>6, <2>2, <3>6, Zenon
    <3>8. Opened(s, {Block(s, b) : b \in Done(s)})'
      <4> HIDE DEF B1
      <4>1. Image(s)' = Image(s) /\ t' = t /\ Tiles(s, t - 1)' = Tiles(s, t - 1)
        BY <1>4
      <4> QED
        BY <3>7, <4>1 DEF Opened, B1
    <3>9. \A b \in Done(s)' : ~FaultAt(s, "block", t, b)'
      BY <1>4, <1>12, <3>1, <3>2
    <3> QED
      BY <1>4, <3>1, <3>8, <3>9 DEF Unharmed
  <2>6. s \in failed => \E j \in 1..Len(job) : job[j][1] = s /\ jobResult'[j] = "err"
    BY <1>2, <1>5, <1>7
  <2> HIDE DEF full
  <2>7. TileDecoding(s)'
    BY <1>4, <1>6, <1>7, <1>9, <2>3, <2>4, <2>5, <2>6 DEF TileDecoding
  <2> QED
    BY <1>5, <1>10, <2>2, <2>3, <2>7
<1> QED
  BY <1>11, <1>12

\* Decoding a code block keeps the invariant.
LEMMA ExecuteStep ==
    ASSUME StagedInv, NEW c \in DOMAIN worker, Execute(c)
    PROVE  StagedInv'
<1>1. /\ phase = "entropy" /\ worker[c].pc = "execute"
      /\ scratch' = [scratch EXCEPT ![Slot(c) - w] =
            DecodeBlock(scratch[Slot(c) - w], Slot(c), job[worker[c].at][2]).scratch]
      /\ jobResult' = [jobResult EXCEPT ![worker[c].at] =
            DecodeBlock(scratch[Slot(c) - w], Slot(c), job[worker[c].at][2]).result]
      /\ worker' = [worker EXCEPT ![c] = Advance(worker[c], "yes")]
      /\ UNCHANGED <<callVars, resultVars, phase, g, w, t, tile_count, job, result,
                     output, starved>>
  BY DEF Execute, Busy
<1>2. PICK s, at, k : s = Slot(c) /\ at = worker[c].at /\ k = job[at][2]
  OBVIOUS
<1>3. /\ jobResult'[at] = "err" => Blamed(groups[g][s]) /\ s \in failed'
      /\ TileDecoding(s)' /\ jobResult'[at] \in {"ok", "err"}
      /\ \A r : r # s => (r \in failed' <=> r \in failed)
      /\ failed \subseteq failed'
  BY <1>2, BlockDecoded
<1>4. /\ Staffing /\ (\A r \in InWindow : TileDecoding(r)) /\ DOMAIN scratch = 1..Count
      /\ s \in InWindow /\ at \in 1..Len(job) /\ jobResult[at] = "none"
      /\ job[at][1] = s /\ DOMAIN jobResult = 1..Len(job)
  BY <1>1, <1>2, WorkerFacts DEF Slot, Staffing, JobsKnown
<1>5. Taken(c)
  <2> DEFINE v == DecodeBlock(scratch[Slot(c) - w], Slot(c), job[worker[c].at][2]).result
  <2>1. jobResult' = [jobResult EXCEPT ![worker[c].at] = v]
    BY <1>1
  <2> HIDE DEF v
  <2>2. jobResult'[at] = v
    BY <1>2, <1>4, <2>1
  <2> QED
    BY <1>1, <1>3, <2>1, <2>2 DEF Taken
<1>6. /\ JobsKnown' /\ WorkersKnown' /\ Untaken' /\ Loaded' /\ NoneLost'
      /\ \A j \in 1..Len(job) : j # at => jobResult'[j] = jobResult[j]
  BY <1>1, <1>2, <1>5, TakenStaff
<1>7. /\ groups' = groups /\ g' = g /\ job' = job /\ result' = result /\ starved' = starved
      /\ \A i : Blamed(i)' <=> Blamed(i)
  BY <1>1, SameGroup DEF Blamed
<1>8. ErrorsBlamed'
  BY <1>3, <1>4, <1>6, <1>7 DEF Staffing, ErrorsBlamed
<1>9. ASSUME NEW r \in InWindow PROVE TileDecoding(r)'
  <2>1. CASE r = s
    BY <1>3, <2>1
  <2>2. CASE r # s
    <3>1. scratch'[r - w] = scratch[r - w]
      <4> DEFINE new == DecodeBlock(scratch[Slot(c) - w], Slot(c), job[worker[c].at][2]).scratch
      <4>1. scratch' = [scratch EXCEPT ![s - w] = new]
        BY <1>1, <1>2
      <4>2. r - w \in 1..Count /\ s - w \in 1..Count /\ w + (r - w) = r /\ w + (s - w) = s
        BY <1>1, <1>4, WindowImages DEF Between
      <4>3. r - w # s - w
        BY <2>2, <4>2, Zenon
      <4> HIDE DEF new
      <4> QED
        BY <1>4, <4>1, <4>2, <4>3
    <3>2. Done(r)' = Done(r)
      BY <1>4, <1>6, <1>7, <2>2 DEF Done
    <3>3. (\E j \in 1..Len(job) : job[j][1] = r /\ jobResult[j] = "err") =>
             \E j \in 1..Len(job) : job[j][1] = r /\ jobResult'[j] = "err"
      BY <1>4, <1>6
    <3>4. r \in failed' <=> r \in failed
      BY <1>3, <2>2
    <3> QED
      BY <1>1, <1>4, <1>7, <3>1, <3>2, <3>3, <3>4, SlotKept
  <2> QED
    BY <2>1, <2>2
<1>10. DOMAIN scratch' = 1..Count
  BY <1>1, <1>4
<1> QED
  BY <1>1, <1>6, <1>7, <1>8, <1>9, <1>10, EntropyStep DEF Staffing, StarvedHere

\* A worker without memory keeps the invariant: the input it was at is to blame.
LEMMA StarveStep ==
    ASSUME StagedInv, NEW c \in DOMAIN worker, Starve(c)
    PROVE  StagedInv'
<1>1. /\ phase = "entropy" /\ worker[c].pc = "execute"
      /\ failed' = failed \cup {Slot(c)}
      /\ jobResult' = [jobResult EXCEPT ![worker[c].at] = "err"]
      /\ worker' = [worker EXCEPT ![c] = Advance(worker[c], "no")]
      /\ starved' = starved \cup {groups[g][Slot(c)]}
      /\ UNCHANGED <<callVars, resultVars, phase, g, w, t, tile_count, job, result,
                     scratch, output>>
  BY DEF Starve, Busy
<1>2. PICK s, at : s = Slot(c) /\ at = worker[c].at
  OBVIOUS
<1>3. /\ Staffing /\ (\A r \in InWindow : TileDecoding(r)) /\ DOMAIN scratch = 1..Count
      /\ s \in InWindow /\ at \in 1..Len(job) /\ jobResult[at] = "none"
      /\ job[at][1] = s /\ DOMAIN jobResult = 1..Len(job) /\ t <= Image(s).tiles
      /\ t \in Nat \ {0} /\ c \in 1..Len(worker)
  BY <1>1, <1>2, WorkerFacts DEF Slot, Staffing, JobsKnown
<1>4. Taken(c)
  BY <1>1 DEF Taken
<1>5. /\ JobsKnown' /\ WorkersKnown' /\ Untaken' /\ Loaded' /\ NoneLost'
      /\ \A j \in 1..Len(job) : j # at => jobResult'[j] = jobResult[j]
  BY <1>1, <1>2, <1>4, TakenStaff
<1>6. jobResult'[at] = "err" /\ failed' = failed \cup {s}
      /\ starved' = starved \cup {groups[g][s]}
  BY <1>1, <1>2, <1>3
<1>7. /\ input' = input /\ groups' = groups /\ g' = g /\ job' = job /\ result' = result
      /\ w' = w /\ t' = t /\ scratch' = scratch
      /\ \A r : Image(r)' = Image(r)
      /\ \A r, p, b, f : Spared(r, p, b, f)' <=> Spared(r, p, b, f)
  BY <1>1, SameGroup
<1>8. Blamed(groups[g][s])' /\ \A i : Blamed(i) => Blamed(i)'
  BY <1>6, <1>7 DEF Blamed
<1>9. ErrorsBlamed'
  <2> SUFFICES ASSUME NEW j \in 1..Len(job)
               PROVE  /\ jobResult'[j] \in {"none", "ok", "err"}
                      /\ jobResult'[j] = "err" =>
                            Blamed(groups[g][job[j][1]])' /\ job[j][1] \in failed'
    BY <1>7 DEF ErrorsBlamed
  <2>1. CASE j = at
    <3>1. job[j][1] = s
      BY <1>3, <2>1
    <3>2. Blamed(groups[g][job[j][1]])'
      BY <1>6, <1>7, <3>1 DEF Blamed
    <3> QED
      BY <1>6, <2>1, <3>1, <3>2
  <2>2. CASE j # at
    <3>1. jobResult'[j] = jobResult[j]
      BY <1>5, <2>2
    <3>2. /\ jobResult[j] \in {"none", "ok", "err"}
          /\ jobResult[j] = "err" => Blamed(groups[g][job[j][1]]) /\ job[j][1] \in failed
      BY <1>3 DEF Staffing, ErrorsBlamed
    <3>3. Blamed(groups[g][job[j][1]]) => Blamed(groups[g][job[j][1]])'
      BY <1>6, <1>7 DEF Blamed
    <3> QED
      BY <1>6, <3>1, <3>2, <3>3
  <2> QED
    BY <2>1, <2>2
<1>10. ASSUME NEW r \in InWindow PROVE TileDecoding(r)'
  <2>1. CASE r = s
    <3>1. result[s] = "ok" /\ Image(s).tiles \in Nat
      BY <1>1, <1>2, <1>3, WindowImages DEF Staffing, Loaded, Between
    <3>2. ~(t > Image(s).tiles)
      BY <1>3, <3>1
    <3>3. /\ scratch[s - w].staged_state = At(t, t, Image(s).tiles)
          /\ Spared(s, t, t - 1, t - 1)
      BY <1>3, <3>1, <3>2 DEF TileDecoding
    <3>4. \E j \in 1..Len(job) : job[j][1] = s /\ jobResult'[j] = "err"
      BY <1>3, <1>6
    <3>5. s \in failed'
      BY <1>6
    <3>6. TileDecoding(s)'
      BY <1>7, <3>1, <3>2, <3>3, <3>4, <3>5 DEF TileDecoding
    <3> QED
      BY <2>1, <3>6
  <2>2. CASE r # s
    <3>1. groups[g][r] # groups[g][s]
      <4>1. Ground /\ g \in 1..Len(groups) /\ InWindow \subseteq 1..Len(groups[g])
        BY <1>1, WindowImages DEF Between
      <4> QED
        BY <1>3, <2>2, <4>1, SlotFacts
    <3>2. Done(r)' = Done(r)
      BY <1>3, <1>5, <1>7, <2>2 DEF Done
    <3>3. (\E j \in 1..Len(job) : job[j][1] = r /\ jobResult[j] = "err") =>
             \E j \in 1..Len(job) : job[j][1] = r /\ jobResult'[j] = "err"
      BY <1>3, <1>5
    <3>4. /\ r \in failed' <=> r \in failed
          /\ groups[g][r] \in starved' <=> groups[g][r] \in starved
          /\ scratch'[r - w] = scratch[r - w]
      BY <1>6, <1>7, <2>2, <3>1
    <3> QED
      BY <1>1, <1>3, <1>7, <3>2, <3>3, <3>4, SlotKept
  <2> QED
    BY <2>1, <2>2
<1>11. StarvedHere
  BY <1>3, <1>6 DEF StarvedHere
<1> QED
  BY <1>1, <1>3, <1>5, <1>7, <1>9, <1>10, <1>11, EntropyStep DEF Staffing

\* Joining the workers keeps the invariant: every job has an answer or the call aborts.
LEMMA JoinEntropyStep ==
    ASSUME StagedInv, JoinEntropy
    PROVE  StagedInv'
<1> DEFINE Bad(s) == \E j \in DOMAIN job : job[j][1] = s /\ jobResult[j] = "err"
<1>1. /\ phase = "entropy" /\ \A c \in DOMAIN worker : worker[c].pc \notin {"load", "execute"}
      /\ UNCHANGED <<callVars, scratch, failed, g, w, t, tile_count, output, starved>>
  BY DEF JoinEntropy, Busy
<1>2. CASE Abort("aborted")
  BY <1>1, <1>2, AbortKeeps
<1>3. CASE ~Abort("aborted")
  <2>1. /\ \A c \in DOMAIN worker : worker[c].pc # "dead"
        /\ result' = [s \in DOMAIN result |-> IF Bad(s) THEN "err" ELSE result[s]]
        /\ phase' = "finish" /\ UNCHANGED resultVars
    BY <1>3 DEF JoinEntropy
  <2>2. phase \in Between \cup {"window"} /\ phase \in Between /\ phase' \in Between
    BY <1>1, <2>1 DEF Between
  <2>3. /\ Tally /\ Staffing /\ (\A s \in InWindow : TileDecoding(s))
        /\ t \in Nat \ {0} /\ DOMAIN scratch = 1..Count
    BY <1>1, <2>2 DEF StagedInv, InGroup, GroupKnown, WindowKnown, Progress, Tally
  <2>4. /\ input' = input /\ groups' = groups /\ InWindow' = InWindow /\ t' = t
        /\ g' = g /\ w' = w /\ tile_count' = tile_count /\ starved' = starved
        /\ scratch' = scratch /\ failed' = failed /\ calls' = calls
        /\ \A s : Image(s)' = Image(s) /\ Owner(s)' = Owner(s)
        /\ \A s, n : Tiles(s, n)' = Tiles(s, n)
        /\ \A s, p, b, f : Spared(s, p, b, f)' <=> Spared(s, p, b, f)
    BY <1>1, SameGroup, SameWindow
  <2>5. \A i : Blamed(i)' <=> Blamed(i)
    BY <2>4 DEF Blamed
  <2>6. \A j \in 1..Len(job) : jobResult[j] # "none"
    <3>1. DOMAIN worker = 1..Len(worker) /\ \A c \in 1..Len(worker) : worker[c].pc = "done"
      BY <1>1, <2>1, <2>3 DEF Staffing, WorkersKnown
    <3> QED
      BY <2>3, <3>1 DEF Staffing, NoneLost
  <2>7. /\ DOMAIN job = 1..Len(job)
        /\ \A j \in 1..Len(job) :
              /\ job[j][1] \in InWindow /\ t <= Image(job[j][1]).tiles
              /\ job[j][2] \in 1..Blocks
              /\ jobResult[j] \in {"ok", "err"}
              /\ jobResult[j] = "err" =>
                    Blamed(groups[g][job[j][1]]) /\ job[j][1] \in failed
    BY <2>3, <2>6 DEF Staffing, JobsKnown, ErrorsBlamed
  <2>8. ASSUME NEW s \in InWindow
        PROVE  TileDecoded(s)' /\ (result'[s] = "ok" => result[s] = "ok")
    <3>1. /\ TileDecoding(s) /\ s \in DOMAIN result /\ Image(s).tiles \in Nat \ {0}
          /\ Image(s).fault.at = "block" =>
                /\ Image(s).fault.tile \in 1..Image(s).tiles
                /\ Image(s).fault.block \in 1..Blocks
      BY <2>2, <2>3, WindowImages
    <3>2. result'[s] = IF Bad(s) THEN "err" ELSE result[s]
      BY <2>1, <3>1
    <3>3. Bad(s) => s \in failed /\ Blamed(groups[g][s])
      BY <2>7
    <3>4. CASE result[s] = "err" \/ Bad(s)
      <4>1. result'[s] = "err" /\ s \in failed /\ Blamed(groups[g][s])
        BY <3>1, <3>2, <3>3, <3>4 DEF TileDecoding
      <4> QED
        BY <2>4, <2>5, <4>1 DEF TileDecoded, Calm
    <3>5. CASE result[s] = "ok" /\ ~Bad(s) /\ t > Image(s).tiles
      <4>1. Over(s) /\ s \notin failed /\ groups[g][s] \notin starved /\ result'[s] = "ok"
        BY <3>1, <3>2, <3>5 DEF TileDecoding
      <4>2. Over(s)'
        BY <2>4, <4>1 DEF Over, Ready
      <4> QED
        BY <2>4, <3>5, <4>1, <4>2 DEF TileDecoded, Calm
    <3>6. CASE result[s] = "ok" /\ ~Bad(s) /\ ~(t > Image(s).tiles)
      <4>1. /\ Spared(s, t, t - 1, t - 1) /\ (s \notin failed => Unharmed(s))
            /\ s \in failed =>
                   \E j \in 1..Len(job) : job[j][1] = s /\ jobResult[j] = "err"
            /\ result'[s] = "ok"
        BY <3>1, <3>2, <3>6 DEF TileDecoding
      <4>2. s \notin failed /\ Unharmed(s)
        BY <2>7, <3>6, <4>1
      <4>3. Done(s) = 1..Blocks
        <5>1. ASSUME NEW k \in 1..Blocks PROVE k \in Done(s)
          <6>1. t <= Image(s).tiles
            BY <2>3, <3>1, <3>6
          <6>2. PICK j \in 1..Len(job) : job[j][1] = s /\ job[j][2] = k
            BY <2>3, <6>1 DEF Staffing, JobsKnown
          <6>3. jobResult[j] = "ok"
            BY <2>7, <3>6, <6>2
          <6> QED
            BY <6>2, <6>3 DEF Done
        <5> QED
          BY <5>1 DEF Done
      <4> DEFINE all == {Block(s, k) : k \in 1..Blocks}
      <4>4. all' = all
        BY <2>4 DEF Block
      <4>5. Opened(s, all) /\ \A k \in 1..Blocks : ~FaultAt(s, "block", t, k)
        BY <4>2, <4>3 DEF Unharmed
      <4>6. Opened(s, all)'
        <5> HIDE DEF all
        <5> QED
          BY <2>4, <4>4, <4>5 DEF Opened
      <4>7. Spared(s, t, t, t - 1)
        <5>1. Image(s).fault.at = "block" => Image(s).fault.tile # t
          BY <3>1, <4>5 DEF FaultAt
        <5> QED
          BY <2>3, <3>1, <4>1, <5>1 DEF Spared
      <4>8. Calm(s)'
        BY <2>4, <4>1, <4>2 DEF Calm, Unharmed
      <4> QED
        BY <2>4, <3>6, <4>1, <4>6, <4>7, <4>8 DEF TileDecoded
    <3> QED
      BY <3>1, <3>4, <3>5, <3>6 DEF TileDecoding
  <2>9. DOMAIN result' = 1..Len(groups[g])
        /\ \A s \in 1..Len(groups[g]) : s \notin InWindow => result'[s] = result[s]
    <3>1. DOMAIN result = 1..Len(groups[g])
      BY <2>2, WindowImages
    <3>2. \A s : s \notin InWindow => ~Bad(s)
      BY <2>7
    <3> HIDE DEF Bad
    <3> QED
      BY <2>1, <3>1, <3>2
  <2> HIDE DEF Bad
  <2>10. Progress'
    BY <2>1, <2>4, <2>8 DEF Progress
  <2>11. Tally'
    BY <1>1, <2>1, <2>3, <2>4, <2>8 DEF Tally
  <2>12. DOMAIN scratch' = 1..Count
    BY <2>3, <2>4
  <2> QED
    BY <1>1, <2>1, <2>2, <2>4, <2>9, <2>10, <2>11, <2>12, WindowStep DEF StarvedHere
<1> QED
  BY <1>2, <1>3

-----------------------------------------------------------------------------
(* Calls and groups                                                        *)

\* A new decoder satisfies the invariant.
LEMMA StagedInit ==
    ASSUME Init
    PROVE  StagedInv
<1>1. InputKnown(input) /\ Partitions(groups, input)
  BY DEF Init, InputKnown, Partitions
<1>2. Ground
  BY <1>1 DEF Init, Ground
<1> QED
  BY <1>2 DEF Init, StagedInv, InGroup, Between, Returned

\* A new call satisfies the invariant, whatever the last one left.
LEMMA DecodeStep ==
    ASSUME StagedInv, NEW in \in Batches, Decode(in)
    PROVE  StagedInv'
<1>1. InputKnown(in)
  BY StagedAssumption DEF InputKnown
<1>2. Partitions(Grouped(in), in)
  BY <1>1, GroupedPartitions DEF InputKnown
<1>3. /\ calls' = calls + 1 /\ input' = in /\ groups' = Grouped(in) /\ g' = 0 /\ starved' = {}
      /\ calls \in Nat
  BY DEF Decode, StagedInv, Ground
<1>4. InputKnown(input)' /\ Partitions(groups, input)' /\ Len(groups') \in Nat
  BY <1>1, <1>2, <1>3 DEF InputKnown, Partitions
<1>5. \/ phase' = "idle" /\ outcome' \in {"poisoned", "aborted"}
      \/ /\ phase' = "group" /\ outcome' = "none"
         /\ errors' = Unparsed(in) /\ decoded' = <<>>
  BY DEF Decode, Abort
<1>6. Ground'
  BY <1>3, <1>4, <1>5 DEF Ground
<1>7. CASE phase' = "idle"
  BY <1>5, <1>6, <1>7 DEF StagedInv, Returned, InGroup, Between
<1>8. CASE phase' = "group"
  <2> DEFINE P == DOMAIN in \ Parsed(in)
  <2>1. errors' = Kept(Indices(in), P) /\ decoded' = <<>>
    BY <1>5, <1>8 DEF Unparsed
  <2>2. DOMAIN in = 1..Len(in) /\ Len(in) \in Nat
    BY <1>1 DEF InputKnown
  <2>3. \A i \in 1..Len(in) : i \in P <=> in[i].fault.at = "parse"
    BY <2>2 DEF Parsed
  <2> HIDE DEF P
  <2>4. Lists(errors', Len(in), P)
    BY <2>1, <2>2, KeptLists
  <2>5. /\ errors' \in Seq(1..Len(in))
        /\ \A a \in 1..Len(errors') : errors'[a] \in 1..Len(in) /\ in[errors'[a]].fault.at = "parse"
        /\ \A a, b \in 1..Len(errors') : errors'[a] = errors'[b] => a = b
        /\ \A i \in 1..Len(in) : in[i].fault.at = "parse" => \E a \in 1..Len(errors') : errors'[a] = i
    BY <2>3, <2>4 DEF Lists
  <2>6. \A i : in[i].fault.at = "parse" => Blamed(i)' /\ Settled(i, 0)'
    BY <1>3 DEF Blamed, Settled
  <2>7. \A i : Settled(i, 0)' => in[i].fault.at = "parse"
    BY <1>3 DEF Settled
  <2>8. ErrorsKnown(0)'
    BY <1>3, <2>2, <2>5, <2>6 DEF ErrorsKnown
  <2>9. RowsKnown(0)'
    BY <2>1 DEF RowsKnown, RowsTyped, RowsOwn, RowsOnce
  <2>10. AllAnswered(0)'
    BY <1>3, <2>2, <2>5, <2>7 DEF AllAnswered
  <2>11. Answers(g)'
    BY <1>3, <2>8, <2>9, <2>10 DEF Answers
  <2> QED
    BY <1>6, <1>8, <2>11 DEF StagedInv, Returned, InGroup, Between
<1> QED
  BY <1>5, <1>7, <1>8

\* What a step leaves alone stays answered.
LEMMA AnswersSame ==
    ASSUME NEW m, Answers(m), UNCHANGED <<callVars, errors, decoded, starved>>
    PROVE  Answers(m)'
<1>1. /\ input' = input /\ \A i : Samples(i)' = Samples(i)
      /\ \A i, n : Settled(i, n)' <=> Settled(i, n)
      /\ errors' = errors /\ decoded' = decoded
  BY DEF callVars, Samples, Settled
<1>2. \A i : Blamed(i)' <=> Blamed(i)
  BY <1>1 DEF Blamed
<1>3. ErrorsKnown(m)'
  BY <1>1, <1>2 DEF Answers, ErrorsKnown
<1>4. RowsKnown(m)'
  <2>1. RowsTyped'
    BY <1>1 DEF Answers, RowsKnown, RowsTyped
  <2>2. RowsOwn(m)'
    BY <1>1, <1>2 DEF Answers, RowsKnown, RowsOwn
  <2>3. RowsOnce'
    BY <1>1 DEF Answers, RowsKnown, RowsOnce
  <2> QED
    BY <2>1, <2>2, <2>3 DEF RowsKnown
<1>5. AllAnswered(m)'
  BY <1>1 DEF Answers, AllAnswered
<1> QED
  BY <1>3, <1>4, <1>5 DEF Answers

\* The errors of all groups are sorted.
LEMMA LastGroup ==
    ASSUME StagedInv, phase = "group", g = Len(groups), phase' = "idle", outcome' = "ok",
           errors' = Sorted(errors), UNCHANGED <<callVars, decoded, g, starved>>
    PROVE  StagedInv'
<1>1. Ground /\ Answers(g)
  BY DEF StagedInv
<1>2. Ground'
  BY <1>1, GroundKept
<1>3. PICK m : m = g
  OBVIOUS
<1>4. /\ errors \in Seq(DOMAIN input) /\ DOMAIN input = 1..Len(input) /\ Len(input) \in Nat
      /\ \A a \in 1..Len(errors) : Blamed(errors[a]) /\ Settled(errors[a], m)
      /\ \A a, b \in 1..Len(errors) : errors[a] = errors[b] => a = b
  BY <1>1, <1>3 DEF Answers, ErrorsKnown, Ground, InputKnown
<1>5. Len(errors) \in Nat /\ \A a \in 1..Len(errors) : errors[a] \in Nat /\ errors[a] \in DOMAIN input
  BY <1>4
<1>6. /\ DOMAIN errors' = 1..Len(errors) /\ Len(errors') = Len(errors)
      /\ \A i \in 1..Len(errors) : \E j \in 1..Len(errors) : errors'[i] = errors[j]
      /\ \A j \in 1..Len(errors) : \E i \in 1..Len(errors) : errors'[i] = errors[j]
      /\ \A i, j \in 1..Len(errors) : i < j => errors'[i] < errors'[j]
  BY <1>4, <1>5, SortedFacts
<1>7. /\ input' = input /\ groups' = groups /\ g' = g /\ decoded' = decoded
      /\ \A i : Samples(i)' = Samples(i)
      /\ \A i, n : Settled(i, n)' <=> Settled(i, n)
  BY SameGroup
<1>8. \A i : Blamed(i)' <=> Blamed(i)
  BY <1>7 DEF Blamed
<1>9. errors' \in Seq(DOMAIN input)
  <2>1. errors' = [i \in 1..Len(errors) |-> errors'[i]]
    BY DEF Sorted
  <2>2. \A i \in 1..Len(errors) : errors'[i] \in DOMAIN input
    BY <1>5, <1>6
  <2> QED
    BY <1>5, <2>1, <2>2
<1>10. ErrorsKnown(m)'
  <2>1. ASSUME NEW a \in 1..Len(errors') PROVE Blamed(errors[a])' /\ Settled(errors[a], m)'
    <3>1. PICK j \in 1..Len(errors) : errors'[a] = errors[j]
      BY <1>6
    <3>2. PICK i : i = errors[j]
      OBVIOUS
    <3>3. Blamed(i)' /\ Settled(i, m)' /\ errors'[a] = i
      BY <1>4, <1>7, <1>8, <3>1, <3>2
    <3> QED
      BY <3>3
  <2>2. ASSUME NEW a \in 1..Len(errors'), NEW b \in 1..Len(errors'), errors'[a] = errors'[b]
        PROVE  a = b
    <3>1. errors'[a] \in Nat /\ errors'[b] \in Nat
      BY <1>5, <1>6
    <3>2. ~(a < b) /\ ~(b < a)
      <4>1. (a < b => errors'[a] < errors'[b]) /\ (b < a => errors'[b] < errors'[a])
        BY <1>6
      <4>2. ~(errors'[a] < errors'[b]) /\ ~(errors'[b] < errors'[a])
        BY <2>2, <3>1
      <4> QED
        BY <4>1, <4>2
    <3> QED
      BY <1>5, <1>6, <3>2
  <2> QED
    BY <1>7, <1>9, <2>1, <2>2 DEF ErrorsKnown
<1>11. RowsKnown(m)'
  <2>1. RowsKnown(m)
    BY <1>1, <1>3 DEF Answers
  <2>2. RowsTyped'
    BY <1>7, <2>1 DEF RowsKnown, RowsTyped
  <2>3. RowsOwn(m)'
    BY <1>7, <1>8, <2>1 DEF RowsKnown, RowsOwn
  <2>4. RowsOnce'
    BY <1>7, <2>1 DEF RowsKnown, RowsOnce
  <2> QED
    BY <2>2, <2>3, <2>4 DEF RowsKnown
<1>12. AllAnswered(m)'
  <2>1. AllAnswered(m)
    BY <1>1, <1>3 DEF Answers
  <2> SUFFICES ASSUME NEW i \in DOMAIN input, Settled(i, m)
               PROVE  \/ \E a \in 1..Len(errors') : errors'[a] = i
                      \/ \E n \in 1..Len(decoded) : \E r \in 1..Len(decoded[n].source) :
                            decoded[n].source[r] = i
    BY <1>7 DEF AllAnswered
  <2>2. \/ \E a \in 1..Len(errors) : errors[a] = i
        \/ \E n \in 1..Len(decoded) : \E r \in 1..Len(decoded[n].source) :
              decoded[n].source[r] = i
    BY <2>1 DEF AllAnswered
  <2>3. \A a \in 1..Len(errors) : \E b \in 1..Len(errors') : errors'[b] = errors[a]
    BY <1>6
  <2> QED
    BY <2>2, <2>3
<1>13. Answers(Len(groups))'
  BY <1>3, <1>7, <1>10, <1>11, <1>12 DEF Answers
<1> QED
  BY <1>2, <1>6, <1>13 DEF StagedInv, InGroup, Between

\* Starting a group, or sorting the errors after the last one, keeps the invariant.
LEMMA StartGroupStep ==
    ASSUME StagedInv, StartGroup
    PROVE  StagedInv'
<1>1. phase = "group" /\ UNCHANGED <<callVars, scratch, failed, entropyVars, starved>>
  BY DEF StartGroup
<1>2. Ground /\ Answers(g) /\ Len(groups) \in Nat /\ g \in 0..Len(groups) /\ DOMAIN groups = 1..Len(groups)
  BY <1>1 DEF StagedInv, Ground, Partitions
<1>3. CASE g = Len(groups)
  BY <1>1, <1>3, LastGroup DEF StartGroup
<1>4. CASE g # Len(groups) /\ Abort("aborted") /\ g' = g
  BY <1>1, <1>4, AbortKeeps
<1>5. CASE g # Len(groups) /\ ~(Abort("aborted") /\ g' = g)
  <2>1. PICK n : n = g + 1
    OBVIOUS
  <2>2. /\ g' = n
        /\ result' = [s \in DOMAIN groups[n] |-> "none"]
        /\ output' = [s \in DOMAIN groups[n] |-> {}] /\ w' = 0
        /\ phase' = (IF input[groups[n][1]].planned = "yes" THEN "window" ELSE "plain")
        /\ UNCHANGED resultVars
    BY <1>5, <2>1 DEF StartGroup, Start
  <2>3. n \in 1..Len(groups) /\ g = n - 1
    <3>1. g # Len(groups) /\ Len(groups) \in Nat /\ g \in 0..Len(groups)
      BY <1>2, <1>5
    <3> QED
      BY <2>1, <3>1
  <2>4. /\ Len(groups[n]) \in Nat \ {0} /\ DOMAIN groups[n] = 1..Len(groups[n])
        /\ \A s \in 1..Len(groups[n]) :
              input[groups[n][s]].planned = input[groups[n][1]].planned
    BY <1>2, <2>3, SlotFacts
  <2>5. /\ input' = input /\ groups' = groups /\ calls' = calls /\ starved' = starved
        /\ errors' = errors /\ decoded' = decoded /\ outcome' = outcome
    BY <1>1, <2>2 DEF callVars, resultVars
  <2>6. \A s \in 1..Len(groups[n]) : groups[n][s] \notin starved
    <3> SUFFICES ASSUME NEW s \in 1..Len(groups[n]), groups[n][s] \in starved PROVE FALSE
      OBVIOUS
    <3>1. PICK k \in 1..g : \E r \in DOMAIN groups[k] : groups[k][r] = groups[n][s]
      BY <1>2 DEF Ground
    <3>2. PICK r \in DOMAIN groups[k] : groups[k][r] = groups[n][s]
      BY <3>1
    <3>3. k \in DOMAIN groups /\ n \in DOMAIN groups /\ k # n
      BY <1>2, <2>3
    <3>4. s \in DOMAIN groups[n]
      BY <2>4
    <3>5. \A a, b \in DOMAIN groups : \A x \in DOMAIN groups[a], y \in DOMAIN groups[b] :
             groups[a][x] = groups[b][y] => a = b /\ x = y
      BY <1>2 DEF Ground, Partitions
    <3> QED
      BY <3>2, <3>3, <3>4, <3>5
  <2>7. \A s \in 1..Len(groups[n]) : Ahead(s)' /\ output'[s] = {}
    BY <2>2, <2>4, <2>5, <2>6 DEF Ahead
  <2>8. /\ DOMAIN result' = 1..Len(groups[n])
        /\ output' \in [1..Len(groups[n]) -> SUBSET ((Nat \X Nat) \X Nat)]
    BY <2>2, <2>4
  <2>9. phase' = "window" => \A s \in 1..Len(groups[n]) : Image(s)'.planned = "yes"
    BY <2>2, <2>4, <2>5 DEF Image
  <2>10. GroupKnown'
    <3>1. phase' = "window" =>
             /\ w' \in Nat /\ w' < Len(groups[n])
             /\ (\A s \in 1..w' : Past(s)')
             /\ \A s \in (w' + 1)..Len(groups[n]) : Ahead(s)'
      BY <2>2, <2>4, <2>7
    <3>2. phase' \in {"window", "plain"}
      BY <2>2
    <3> QED
      BY <2>2, <2>3, <2>5, <2>7, <2>8, <2>9, <3>1, <3>2 DEF GroupKnown, Between
  <2>11. Answers(g - 1)'
    <3>1. PICK m : m = g
      OBVIOUS
    <3>2. Answers(m)'
      BY <1>1, <1>2, <2>5, <3>1, AnswersSame
    <3>3. m = g' - 1
      BY <2>2, <2>3, <3>1
    <3> QED
      BY <3>2, <3>3
  <2>12. Ground'
    <3>1. InputKnown(input)' /\ Partitions(groups, input)'
      BY <1>2, <2>5 DEF Ground, InputKnown, Partitions
    <3>2. phase' \in InGroup /\ outcome' # "missing" /\ calls' \in Nat /\ g' \in 0..Len(groups)
      BY <1>2, <2>2, <2>3, <2>5 DEF InGroup, Ground
    <3>3. 1..g \subseteq 1..n
      BY <1>2, <2>1
    <3>4. \A i \in starved : \E k \in 1..n : \E s \in DOMAIN groups[k] : groups[k][s] = i
      BY <1>2, <3>3 DEF Ground
    <3> QED
      BY <2>2, <2>5, <3>1, <3>2, <3>4 DEF Ground
  <2> QED
    BY <2>2, <2>10, <2>11, <2>12 DEF StagedInv, Returned
<1> QED
  BY <1>3, <1>4, <1>5

\* Decoding a group without plans keeps the invariant.
LEMMA DecodePlainStep ==
    ASSUME StagedInv, DecodePlain
    PROVE  StagedInv'
<1>1. /\ phase = "plain"
      /\ UNCHANGED <<callVars, scratch, failed, entropyVars, g, w, t, tile_count, starved>>
  BY DEF DecodePlain
<1>2. CASE Abort("aborted")
  BY <1>1, <1>2, AbortKeeps
<1>3. CASE ~Abort("aborted")
  <2>1. /\ result' = [s \in DOMAIN result |->
                         IF Image(s).fault.at = "none" THEN "ok" ELSE "err"]
        /\ output' = [s \in DOMAIN output |->
                         IF Image(s).fault.at = "none"
                         THEN {<<Owner(s), n>> : n \in 1..Image(s).tiles} ELSE {}]
        /\ phase' = "collect" /\ UNCHANGED resultVars
    BY <1>3 DEF DecodePlain
  <2>2. /\ Ground /\ GroupKnown /\ Answers(g - 1) /\ g \in 1..Len(groups)
        /\ DOMAIN result = 1..Len(groups[g]) /\ DOMAIN output = 1..Len(groups[g])
        /\ \A s \in 1..Len(groups[g]) : Ahead(s)
    BY <1>1 DEF StagedInv, InGroup, GroupKnown
  <2>3. /\ input' = input /\ groups' = groups /\ g' = g /\ starved' = starved
        /\ \A s : Image(s)' = Image(s)
        /\ \A i : Samples(i)' = Samples(i)
        /\ errors' = errors /\ decoded' = decoded /\ outcome' = outcome
    BY <1>1, <2>1, SameGroup DEF resultVars
  <2>4. ASSUME NEW s \in 1..Len(groups[g])
        PROVE  Past(s)' /\ output'[s] \in SUBSET ((Nat \X Nat) \X Nat)
    <3>1. /\ result'[s] = (IF Image(s).fault.at = "none" THEN "ok" ELSE "err")
          /\ output'[s] = IF Image(s).fault.at = "none"
                          THEN {<<Owner(s), n>> : n \in 1..Image(s).tiles} ELSE {}
      BY <2>1, <2>2
    <3>2. {<<Owner(s), n>> : n \in 1..Image(s).tiles} = Samples(groups[g][s])
      BY DEF Owner, Image, Samples
    <3>3. Blamed(groups[g][s]) <=> Image(s).fault.at # "none"
      BY <2>2 DEF Blamed, Image, Ahead
    <3>4. Blamed(groups[g][s])' <=> Blamed(groups[g][s])
      BY <2>3 DEF Blamed
    <3>5. Samples(groups[g][s]) \in SUBSET ((Nat \X Nat) \X Nat)
      <4>1. /\ calls \in Nat /\ groups[g][s] \in DOMAIN input
            /\ DOMAIN input = 1..Len(input) /\ Len(input) \in Nat
            /\ input[groups[g][s]].tiles \in Nat
        BY <2>2, SlotFacts DEF Ground, InputKnown
      <4> QED
        BY <4>1 DEF Samples
    <3> QED
      BY <2>3, <3>1, <3>2, <3>3, <3>4, <3>5 DEF Past
  <2>5. /\ DOMAIN result' = 1..Len(groups[g])
        /\ output' \in [1..Len(groups[g]) -> SUBSET ((Nat \X Nat) \X Nat)]
    <3>1. output' = [s \in 1..Len(groups[g]) |-> output'[s]]
      BY <2>1, <2>2
    <3> QED
      BY <2>1, <2>2, <2>4, <3>1
  <2>6. GroupKnown'
    BY <2>1, <2>2, <2>3, <2>4, <2>5 DEF GroupKnown, Between
  <2>7. Answers(g - 1)'
    <3>1. PICK m : m = g - 1
      OBVIOUS
    <3>2. Answers(m)'
      BY <1>1, <2>2, <2>3, <3>1, AnswersSame
    <3>3. m = g' - 1
      BY <2>3, <3>1
    <3> QED
      BY <3>2, <3>3
  <2>8. Ground'
    <3>1. phase' \in InGroup /\ outcome' # "missing"
      BY <2>1, <2>2, <2>3 DEF InGroup, Ground
    <3> QED
      BY <1>1, <2>2, <3>1, GroundKept
  <2> QED
    BY <2>1, <2>6, <2>7, <2>8 DEF StagedInv, Returned
<1> QED
  BY <1>2, <1>3

\* The rows and the errors of a finished group are the answers to its slots.
LEMMA CollectStep ==
    ASSUME StagedInv, Collect
    PROVE  StagedInv'
<1> DEFINE n == Len(groups[g])
<1> DEFINE good == {s \in DOMAIN result : result[s] = "ok"}
<1> DEFINE bad == {s \in DOMAIN result : result[s] = "err"}
<1> DEFINE keptS == Kept(Indices(groups[g]), good)
<1> DEFINE lostS == Kept(Indices(groups[g]), bad)
<1>1. /\ phase = "collect"
      /\ UNCHANGED <<callVars, imageVars, entropyVars, g, w, t, tile_count, output, starved>>
  BY DEF Collect
<1>2. /\ Ground /\ GroupKnown /\ Answers(g - 1) /\ g \in 1..Len(groups)
      /\ DOMAIN result = 1..n
      /\ output \in [1..n -> SUBSET ((Nat \X Nat) \X Nat)]
      /\ \A s \in 1..n : Past(s)
  BY <1>1 DEF StagedInv, InGroup, GroupKnown
<1>3. \A s \in 1..n : s \in good \/ s \in bad
  BY <1>2 DEF Past
<1>4. /\ errors' = errors \o [j \in 1..Len(lostS) |-> groups[g][lostS[j]]]
      /\ decoded' = IF keptS = <<>> THEN decoded
           ELSE Append(decoded,
                  [source |-> [j \in 1..Len(keptS) |-> groups[g][keptS[j]]],
                   samples |-> Compacted(output, keptS)])
      /\ phase' = "group" /\ UNCHANGED outcome
  <2>1. ~\E s \in DOMAIN result : result[s] = "none"
    BY <1>2, <1>3
  <2> QED
    BY <2>1 DEF Collect
<1>5. /\ n \in Nat
      /\ \A s \in 1..n : /\ groups[g][s] \in DOMAIN input
                         /\ ~Settled(groups[g][s], g - 1)
      /\ \A s, r \in 1..n : groups[g][s] = groups[g][r] => s = r
      /\ DOMAIN groups[g] = 1..n
  BY <1>2, SlotFacts, SettledElsewhere
<1>6. PICK lost : lost = lostS
  OBVIOUS
<1>7. PICK kept : kept = keptS
  OBVIOUS
<1>8. Lists(lost, n, bad) /\ Lists(kept, n, good)
  <2> HIDE DEF good, bad
  <2>1. Len(groups[g]) \in Nat
    BY <1>5
  <2> QED
    BY <1>6, <1>7, <2>1, KeptLists
<1>9. \A s \in 1..n : /\ s \in bad => Blamed(groups[g][s])
                      /\ s \in good => ~Blamed(groups[g][s]) /\ output[s] = Samples(groups[g][s])
  BY <1>2 DEF Past
<1>10. Compacted(output, kept) = [j \in 1..Len(kept) |-> output[kept[j]]]
  <2> HIDE DEF n, good
  <2>1. Rowed(output, n)
    <3>1. output = [i \in 1..n |-> output[i]]
      BY <1>2
    <3> QED
      BY <3>1 DEF Rowed
  <2> QED
    BY <1>5, <1>8, <2>1, CompactedRows
<1> HIDE DEF n, good, bad, keptS, lostS
<1>11. /\ lost \in Seq(1..n) /\ Len(lost) \in Nat
       /\ \A i \in 1..Len(lost) : lost[i] \in 1..n /\ lost[i] \in bad
       /\ \A i, j \in 1..Len(lost) : lost[i] = lost[j] => i = j
       /\ \A x \in 1..n : x \in bad => \E i \in 1..Len(lost) : lost[i] = x
  BY <1>8 DEF Lists
<1>12. /\ kept \in Seq(1..n) /\ Len(kept) \in Nat
       /\ \A i \in 1..Len(kept) : kept[i] \in 1..n /\ kept[i] \in good
       /\ \A i, j \in 1..Len(kept) : kept[i] = kept[j] => i = j
       /\ \A x \in 1..n : x \in good => \E i \in 1..Len(kept) : kept[i] = x
  BY <1>8 DEF Lists
<1>13. /\ input' = input /\ groups' = groups /\ g' = g /\ starved' = starved
       /\ \A i : Samples(i)' = Samples(i)
       /\ \A i, m : Settled(i, m)' <=> Settled(i, m)
  BY <1>1, SameGroup
<1>14. \A i : Blamed(i)' <=> Blamed(i)
  BY <1>13 DEF Blamed
<1>15. /\ \A i : Settled(i, g - 1) => Settled(i, g)
       /\ \A s \in 1..n : Settled(groups[g][s], g)
       /\ \A i : Settled(i, g) => Settled(i, g - 1) \/ \E s \in 1..n : groups[g][s] = i
  <2>1. g \in Nat \ {0} /\ g \in 1..g /\ 1..g = (1..(g - 1)) \cup {g}
    BY <1>2, SlotFacts
  <2> QED
    BY <1>5, <2>1 DEF Settled
<1>16. PICK L : L = [j \in 1..Len(lost) |-> groups[g][lost[j]]]
  OBVIOUS
<1>17. PICK m : m = g
  OBVIOUS
<1>18. ErrorsKnown(g - 1) /\ RowsKnown(g - 1) /\ AllAnswered(g - 1)
  BY <1>2 DEF Answers
<1>19. /\ L \in Seq(DOMAIN input) /\ Len(L) = Len(lost)
       /\ \A j \in 1..Len(lost) : L[j] = groups[g][lost[j]]
  BY <1>5, <1>11, <1>16
<1>20. /\ errors \in Seq(DOMAIN input) /\ Len(errors) \in Nat
       /\ \A a \in 1..Len(errors) : Blamed(errors[a]) /\ Settled(errors[a], g - 1)
       /\ \A a, b \in 1..Len(errors) : errors[a] = errors[b] => a = b
  BY <1>18 DEF ErrorsKnown
<1>21. /\ errors' \in Seq(DOMAIN input) /\ Len(errors') = Len(errors) + Len(lost)
       /\ \A a \in 1..Len(errors) : errors'[a] = errors[a]
       /\ \A j \in 1..Len(lost) : errors'[Len(errors) + j] = groups[g][lost[j]]
  <2>1. errors' = errors \o L
    BY <1>4, <1>6, <1>16
  <2>2. /\ errors \o L \in Seq(DOMAIN input) /\ Len(errors \o L) = Len(errors) + Len(L)
        /\ \A a \in 1..(Len(errors) + Len(L)) :
              (errors \o L)[a] = IF a <= Len(errors) THEN errors[a] ELSE L[a - Len(errors)]
    <3>1. errors \in Seq(DOMAIN input) /\ L \in Seq(DOMAIN input)
      BY <1>19, <1>20
    <3> QED
      BY <3>1, Joined, Zenon
  <2>3. \A a \in 1..Len(errors) : a \in 1..(Len(errors) + Len(L)) /\ a <= Len(errors)
    BY <1>11, <1>19, <1>20
  <2>4. \A j \in 1..Len(lost) : /\ Len(errors) + j \in 1..(Len(errors) + Len(L))
                                /\ ~(Len(errors) + j <= Len(errors))
                                /\ Len(errors) + j - Len(errors) = j
    BY <1>11, <1>19, <1>20
  <2> QED
    BY <1>19, <2>1, <2>2, <2>3, <2>4
<1>22. \A a \in 1..Len(errors') :
          a \in 1..Len(errors) \/ \E j \in 1..Len(lost) : a = Len(errors) + j
  <2> SUFFICES ASSUME NEW a \in 1..Len(errors'), a \notin 1..Len(errors)
               PROVE  \E j \in 1..Len(lost) : a = Len(errors) + j
    OBVIOUS
  <2>1. a - Len(errors) \in 1..Len(lost) /\ a = Len(errors) + (a - Len(errors))
    BY <1>11, <1>20, <1>21
  <2> QED
    BY <2>1
<1>23. ErrorsKnown(m)'
  <2>1. ASSUME NEW a \in 1..Len(errors') PROVE Blamed(errors'[a]) /\ Settled(errors'[a], m)
    <3>1. CASE a \in 1..Len(errors)
      <4>1. errors'[a] = errors[a]
        BY <1>21, <3>1
      <4> QED
        BY <1>15, <1>17, <1>20, <3>1, <4>1
    <3>2. CASE \E j \in 1..Len(lost) : a = Len(errors) + j
      <4>1. PICK j \in 1..Len(lost) : a = Len(errors) + j
        BY <3>2
      <4>2. errors'[a] = groups[g][lost[j]] /\ lost[j] \in 1..n /\ lost[j] \in bad
        BY <1>11, <1>21, <4>1
      <4>3. Blamed(groups[g][lost[j]]) /\ Settled(groups[g][lost[j]], g)
        BY <1>9, <1>15, <4>2
      <4> QED
        BY <1>17, <4>2, <4>3
    <3> QED
      BY <1>22, <3>1, <3>2
  <2>2. ASSUME NEW a \in 1..Len(errors'), NEW b \in 1..Len(errors'), errors'[a] = errors'[b]
        PROVE  a = b
    <3>1. CASE a \in 1..Len(errors) /\ b \in 1..Len(errors)
      BY <1>20, <1>21, <2>2, <3>1
    <3>2. ASSUME NEW x \in 1..Len(errors), NEW j \in 1..Len(lost),
                 errors'[x] = errors'[Len(errors) + j]
          PROVE  FALSE
      <4>1. errors[x] = groups[g][lost[j]] /\ lost[j] \in 1..n
        BY <1>11, <1>21, <3>2
      <4> QED
        BY <1>5, <1>20, <4>1
    <3>3. ASSUME NEW i \in 1..Len(lost), NEW j \in 1..Len(lost), a = Len(errors) + i,
                 b = Len(errors) + j
          PROVE  a = b
      <4>1. groups[g][lost[i]] = groups[g][lost[j]] /\ lost[i] \in 1..n /\ lost[j] \in 1..n
        BY <1>11, <1>21, <2>2, <3>3
      <4>2. lost[i] = lost[j]
        BY <1>5, <4>1
      <4>3. i = j
        BY <1>11, <4>2
      <4> QED
        BY <3>3, <4>3
    <3> QED
      BY <1>22, <2>2, <3>1, <3>2, <3>3
  <2>3. \A a \in 1..Len(errors') : Blamed(errors[a])' /\ Settled(errors[a], m)'
    <3> SUFFICES ASSUME NEW a \in 1..Len(errors') PROVE Blamed(errors[a])' /\ Settled(errors[a], m)'
      OBVIOUS
    <3>1. PICK i : i = errors'[a]
      OBVIOUS
    <3>2. Blamed(i)' /\ Settled(i, m)'
      BY <1>13, <1>14, <2>1, <3>1
    <3> QED
      BY <3>1, <3>2
  <2> QED
    BY <1>13, <1>21, <2>2, <2>3 DEF ErrorsKnown
<1>24. /\ decoded \in Seq([source : Seq(DOMAIN input), samples : Seq(SUBSET ((Nat \X Nat) \X Nat))])
       /\ Len(decoded) \in Nat
       /\ \A k \in 1..Len(decoded) :
             /\ Len(decoded[k].source) \in Nat
             /\ Len(decoded[k].samples) = Len(decoded[k].source)
             /\ \A r \in 1..Len(decoded[k].source) :
                   /\ ~Blamed(decoded[k].source[r]) /\ Settled(decoded[k].source[r], g - 1)
                   /\ decoded[k].samples[r] = Samples(decoded[k].source[r])
       /\ \A k, l \in 1..Len(decoded) :
             \A r \in 1..Len(decoded[k].source), q \in 1..Len(decoded[l].source) :
                decoded[k].source[r] = decoded[l].source[q] => k = l /\ r = q
  <2>1. decoded \in Seq([source : Seq(DOMAIN input), samples : Seq(SUBSET ((Nat \X Nat) \X Nat))])
    BY <1>18 DEF RowsKnown, RowsTyped
  <2>2. \A k \in 1..Len(decoded) : decoded[k].source \in Seq(DOMAIN input)
    BY <1>18, SourceSeq
  <2>3. Len(decoded) \in Nat /\ \A k \in 1..Len(decoded) : Len(decoded[k].source) \in Nat
    BY <2>1, <2>2
  <2>4. RowsOwn(g - 1) /\ RowsOnce
    BY <1>18 DEF RowsKnown
  <2> QED
    BY <2>1, <2>3, <2>4 DEF RowsOwn, RowsOnce
<1>25. PICK row : row = [source |-> [j \in 1..Len(kept) |-> groups[g][kept[j]]],
                         samples |-> [j \in 1..Len(kept) |-> output[kept[j]]]]
  OBVIOUS
<1>26. decoded' = IF kept = <<>> THEN decoded ELSE Append(decoded, row)
  BY <1>4, <1>7, <1>10, <1>25
<1>27. /\ row \in [source : Seq(DOMAIN input), samples : Seq(SUBSET ((Nat \X Nat) \X Nat))]
       /\ Len(row.source) = Len(kept) /\ Len(row.samples) = Len(kept)
       /\ \A j \in 1..Len(kept) : /\ row.source[j] = groups[g][kept[j]]
                                  /\ row.samples[j] = output[kept[j]]
  <2>1. /\ [j \in 1..Len(kept) |-> groups[g][kept[j]]] \in Seq(DOMAIN input)
        /\ [j \in 1..Len(kept) |-> output[kept[j]]] \in Seq(SUBSET ((Nat \X Nat) \X Nat))
    BY <1>2, <1>5, <1>12
  <2> QED
    BY <1>12, <1>25, <2>1
<1>28. \A j \in 1..Len(kept) :
          /\ ~Blamed(row.source[j]) /\ Settled(row.source[j], g)
          /\ ~Settled(row.source[j], g - 1)
          /\ row.samples[j] = Samples(row.source[j])
  <2> SUFFICES ASSUME NEW j \in 1..Len(kept)
               PROVE  /\ ~Blamed(row.source[j]) /\ Settled(row.source[j], g)
                      /\ ~Settled(row.source[j], g - 1)
                      /\ row.samples[j] = Samples(row.source[j])
    OBVIOUS
  <2>1. PICK i : i = groups[g][kept[j]]
    OBVIOUS
  <2>2. /\ row.source[j] = i /\ row.samples[j] = output[kept[j]]
        /\ kept[j] \in 1..n /\ kept[j] \in good
    BY <1>12, <1>27, <2>1
  <2>3. ~Blamed(i) /\ Settled(i, g) /\ ~Settled(i, g - 1) /\ output[kept[j]] = Samples(i)
    <3>1. ~Blamed(groups[g][kept[j]]) /\ output[kept[j]] = Samples(groups[g][kept[j]])
      BY <1>9, <2>2
    <3>2. Settled(groups[g][kept[j]], g)
      BY <1>15, <2>2
    <3>3. ~Settled(groups[g][kept[j]], g - 1)
      BY <1>5, <2>2
    <3> QED
      BY <2>1, <3>1, <3>2, <3>3
  <2> QED
    BY <2>2, <2>3
<1>29. \A i, j \in 1..Len(kept) : row.source[i] = row.source[j] => i = j
  <2> SUFFICES ASSUME NEW i \in 1..Len(kept), NEW j \in 1..Len(kept), row.source[i] = row.source[j]
               PROVE  i = j
    OBVIOUS
  <2>1. kept[i] = kept[j]
    BY <1>5, <1>12, <1>27
  <2> QED
    BY <1>12, <2>1
<1>30. ASSUME kept = <<>> PROVE RowsKnown(m)' /\ AllAnswered(m)'
  <2>1. decoded' = decoded /\ \A s \in 1..n : s \in bad
    <3>1. Len(kept) = 0
      BY <1>30
    <3>2. decoded' = decoded
      BY <1>26, <1>30
    <3>3. \A s \in 1..n : s \notin good
      BY <1>12, <3>1
    <3> QED
      BY <1>3, <3>2, <3>3 DEF n, good, bad
  <2>2. RowsKnown(m)'
    <3>1. ASSUME NEW k \in 1..Len(decoded'), NEW r \in 1..Len(decoded'[k].source)
          PROVE  /\ ~Blamed(decoded[k].source[r])' /\ Settled(decoded[k].source[r], m)'
                 /\ decoded'[k].samples[r] = Samples(decoded[k].source[r])'
      <4>1. PICK i : i = decoded'[k].source[r]
        OBVIOUS
      <4>2. ~Blamed(i) /\ Settled(i, m) /\ decoded'[k].samples[r] = Samples(i)
        BY <1>15, <1>17, <1>24, <2>1, <4>1
      <4>3. ~Blamed(i)' /\ Settled(i, m)' /\ decoded'[k].samples[r] = Samples(i)'
        BY <1>13, <1>14, <4>2
      <4> QED
        BY <4>1, <4>3
    <3>2. /\ decoded' \in Seq([source : Seq(DOMAIN input), samples : Seq(SUBSET ((Nat \X Nat) \X Nat))])
          /\ \A k \in 1..Len(decoded') : Len(decoded'[k].samples) = Len(decoded'[k].source)
          /\ \A k, l \in 1..Len(decoded') :
                \A r \in 1..Len(decoded'[k].source), q \in 1..Len(decoded'[l].source) :
                   decoded'[k].source[r] = decoded'[l].source[q] => k = l /\ r = q
      BY <1>24, <2>1
    <3> QED
      BY <1>13, <3>1, <3>2 DEF RowsKnown, RowsTyped, RowsOwn, RowsOnce
  <2>3. AllAnswered(m)'
    <3> SUFFICES ASSUME NEW i \in DOMAIN input, Settled(i, g)
                 PROVE  \/ \E a \in 1..Len(errors') : errors'[a] = i
                        \/ \E k \in 1..Len(decoded') : \E r \in 1..Len(decoded'[k].source) :
                              decoded'[k].source[r] = i
      BY <1>13, <1>17 DEF AllAnswered
    <3>1. CASE Settled(i, g - 1)
      <4>1. (\E a \in 1..Len(errors) : errors[a] = i)
            \/ \E k \in 1..Len(decoded) : \E r \in 1..Len(decoded[k].source) :
                  decoded[k].source[r] = i
        BY <1>18, <3>1 DEF AllAnswered
      <4>2. \A a \in 1..Len(errors) : a \in 1..Len(errors') /\ errors'[a] = errors[a]
        BY <1>11, <1>20, <1>21
      <4> QED
        BY <2>1, <4>1, <4>2
    <3>2. CASE \E s \in 1..n : groups[g][s] = i
      <4>1. PICK s \in 1..n : groups[g][s] = i
        BY <3>2
      <4>2. PICK j \in 1..Len(lost) : lost[j] = s
        BY <1>11, <2>1
      <4>3. Len(errors) + j \in 1..Len(errors') /\ errors'[Len(errors) + j] = i
        BY <1>11, <1>20, <1>21, <4>1, <4>2
      <4> QED
        BY <4>3
    <3> QED
      BY <1>15, <3>1, <3>2
  <2> QED
    BY <2>2, <2>3
<1>31. ASSUME kept # <<>> PROVE RowsKnown(m)' /\ AllAnswered(m)'
  <2>1. /\ decoded' \in Seq([source : Seq(DOMAIN input), samples : Seq(SUBSET ((Nat \X Nat) \X Nat))])
        /\ Len(decoded') = Len(decoded) + 1 /\ decoded'[Len(decoded) + 1] = row
        /\ \A k \in 1..Len(decoded) : decoded'[k] = decoded[k]
    BY <1>24, <1>26, <1>27, <1>31
  <2>2. \A k \in 1..Len(decoded') : k \in 1..Len(decoded) \/ k = Len(decoded) + 1
    BY <1>24, <2>1
  <2>3. ASSUME NEW k \in 1..Len(decoded')
        PROVE  /\ Len(decoded'[k].samples) = Len(decoded'[k].source)
               /\ \A r \in 1..Len(decoded'[k].source) :
                     /\ ~Blamed(decoded'[k].source[r]) /\ Settled(decoded'[k].source[r], g)
                     /\ decoded'[k].samples[r] = Samples(decoded'[k].source[r])
    <3>1. CASE k \in 1..Len(decoded)
      <4>1. decoded'[k] = decoded[k]
        BY <2>1, <3>1
      <4>2. /\ Len(decoded[k].samples) = Len(decoded[k].source)
            /\ \A r \in 1..Len(decoded[k].source) :
                  /\ ~Blamed(decoded[k].source[r]) /\ Settled(decoded[k].source[r], g)
                  /\ decoded[k].samples[r] = Samples(decoded[k].source[r])
        BY <1>15, <1>24, <3>1
      <4> QED
        BY <4>1, <4>2
    <3>2. CASE k = Len(decoded) + 1
      <4>1. decoded'[k] = row
        BY <2>1, <3>2
      <4> QED
        BY <1>27, <1>28, <4>1
    <3> QED
      BY <2>2, <3>1, <3>2
  <2>4. ASSUME NEW k \in 1..Len(decoded'), NEW l \in 1..Len(decoded'),
               NEW r \in 1..Len(decoded'[k].source), NEW q \in 1..Len(decoded'[l].source),
               decoded'[k].source[r] = decoded'[l].source[q]
        PROVE  k = l /\ r = q
    <3>1. CASE k \in 1..Len(decoded) /\ l \in 1..Len(decoded)
      <4>1. decoded'[k] = decoded[k] /\ decoded'[l] = decoded[l]
        BY <2>1, <3>1
      <4>2. /\ r \in 1..Len(decoded[k].source) /\ q \in 1..Len(decoded[l].source)
            /\ decoded[k].source[r] = decoded[l].source[q]
        BY <2>4, <4>1
      <4> QED
        BY <1>18, <3>1, <4>2, RowOnce
    <3>2. CASE k \in 1..Len(decoded) /\ l = Len(decoded) + 1
      <4>1. decoded'[k] = decoded[k] /\ decoded'[l] = row
        BY <2>1, <3>2
      <4>2. Settled(decoded[k].source[r], g - 1) /\ ~Settled(row.source[q], g - 1)
        BY <1>24, <1>27, <1>28, <3>2, <4>1
      <4> QED
        BY <2>4, <4>1, <4>2
    <3>3. CASE l \in 1..Len(decoded) /\ k = Len(decoded) + 1
      <4>1. decoded'[l] = decoded[l] /\ decoded'[k] = row
        BY <2>1, <3>3
      <4>2. Settled(decoded[l].source[q], g - 1) /\ ~Settled(row.source[r], g - 1)
        BY <1>24, <1>27, <1>28, <3>3, <4>1
      <4> QED
        BY <2>4, <4>1, <4>2
    <3>4. CASE k = Len(decoded) + 1 /\ l = Len(decoded) + 1
      <4>1. decoded'[k] = row /\ decoded'[l] = row /\ k = l
        BY <2>1, <3>4
      <4> QED
        BY <1>27, <1>29, <2>4, <4>1
    <3> QED
      BY <2>2, <3>1, <3>2, <3>3, <3>4
  <2>5. RowsKnown(m)'
    <3>1. ASSUME NEW k \in 1..Len(decoded'), NEW r \in 1..Len(decoded'[k].source)
          PROVE  /\ ~Blamed(decoded[k].source[r])' /\ Settled(decoded[k].source[r], m)'
                 /\ decoded'[k].samples[r] = Samples(decoded[k].source[r])'
      <4>1. PICK i : i = decoded'[k].source[r]
        OBVIOUS
      <4>2. ~Blamed(i) /\ Settled(i, m) /\ decoded'[k].samples[r] = Samples(i)
        BY <1>17, <2>3, <4>1
      <4>3. ~Blamed(i)' /\ Settled(i, m)' /\ decoded'[k].samples[r] = Samples(i)'
        BY <1>13, <1>14, <4>2
      <4> QED
        BY <4>1, <4>3
    <3>2. \A k \in 1..Len(decoded') : Len(decoded'[k].samples) = Len(decoded'[k].source)
      BY <2>3
    <3> QED
      <4>1. RowsTyped'
        BY <1>13, <2>1 DEF RowsTyped
      <4>2. RowsOwn(m)'
        BY <3>1, <3>2 DEF RowsOwn
      <4>3. RowsOnce'
        BY <2>4 DEF RowsOnce
      <4> QED
        BY <4>1, <4>2, <4>3 DEF RowsKnown
  <2>6. AllAnswered(m)'
    <3> SUFFICES ASSUME NEW i \in DOMAIN input, Settled(i, g)
                 PROVE  \/ \E a \in 1..Len(errors') : errors'[a] = i
                        \/ \E k \in 1..Len(decoded') : \E r \in 1..Len(decoded'[k].source) :
                              decoded'[k].source[r] = i
      BY <1>13, <1>17 DEF AllAnswered
    <3>1. CASE Settled(i, g - 1)
      <4>1. (\E a \in 1..Len(errors) : errors[a] = i)
            \/ \E k \in 1..Len(decoded) : \E r \in 1..Len(decoded[k].source) :
                  decoded[k].source[r] = i
        BY <1>18, <3>1 DEF AllAnswered
      <4>2. \A a \in 1..Len(errors) : a \in 1..Len(errors') /\ errors'[a] = errors[a]
        BY <1>11, <1>20, <1>21
      <4>3. \A k \in 1..Len(decoded) : k \in 1..Len(decoded') /\ decoded'[k] = decoded[k]
        BY <1>24, <2>1
      <4> QED
        BY <4>1, <4>2, <4>3
    <3>2. CASE \E s \in 1..n : groups[g][s] = i /\ s \in bad
      <4>1. PICK s \in 1..n : groups[g][s] = i /\ s \in bad
        BY <3>2
      <4>2. PICK j \in 1..Len(lost) : lost[j] = s
        BY <1>11, <4>1
      <4>3. Len(errors) + j \in 1..Len(errors') /\ errors'[Len(errors) + j] = i
        BY <1>11, <1>20, <1>21, <4>1, <4>2
      <4> QED
        BY <4>3
    <3>3. CASE \E s \in 1..n : groups[g][s] = i /\ s \in good
      <4>1. PICK s \in 1..n : groups[g][s] = i /\ s \in good
        BY <3>3
      <4>2. PICK j \in 1..Len(kept) : kept[j] = s
        BY <1>12, <4>1
      <4>3. Len(decoded) + 1 \in 1..Len(decoded') /\ decoded'[Len(decoded) + 1] = row
        BY <1>24, <2>1
      <4>4. j \in 1..Len(row.source) /\ row.source[j] = i
        BY <1>27, <4>1, <4>2
      <4> QED
        BY <4>3, <4>4
    <3>4. \A s \in 1..n : s \in good \/ s \in bad
      BY <1>3 DEF n, good, bad
    <3> QED
      BY <1>15, <3>1, <3>2, <3>3, <3>4
  <2> QED
    BY <2>5, <2>6
<1>32. Answers(g)'
  <2>1. Answers(m)'
    BY <1>23, <1>30, <1>31 DEF Answers
  <2>2. m = g'
    BY <1>13, <1>17
  <2> QED
    BY <2>1, <2>2
<1>33. Ground'
  <2>1. phase' \in InGroup \cup {"idle", "group"} /\ outcome' # "missing"
    BY <1>2, <1>4 DEF Ground
  <2> QED
    BY <1>1, <1>2, <2>1, GroundKept
<1> QED
  BY <1>4, <1>32, <1>33 DEF StagedInv, Returned, InGroup, Between

-----------------------------------------------------------------------------
(* Results                                                                 *)

\* A step that changes nothing keeps the invariant.
LEMMA StagedStutters ==
    ASSUME StagedInv, UNCHANGED vars
    PROVE  StagedInv'
<1>1. UNCHANGED <<callVars, scratch, result, failed, job, jobResult, worker, errors, decoded,
                  outcome, phase, g, w, t, tile_count, output, starved>>
  BY DEF vars, imageVars, entropyVars, resultVars
<1>2. /\ input' = input /\ groups' = groups /\ calls' = calls
      /\ Count' = Count /\ InWindow' = InWindow
      /\ \A s : Image(s)' = Image(s) /\ Owner(s)' = Owner(s)
      /\ \A s, n : Tiles(s, n)' = Tiles(s, n)
      /\ \A i : Samples(i)' = Samples(i)
      /\ \A i, m : Settled(i, m)' <=> Settled(i, m)
      /\ \A s, at, n, k : FaultAt(s, at, n, k)' <=> FaultAt(s, at, n, k)
      /\ \A s, p, b, f : Spared(s, p, b, f)' <=> Spared(s, p, b, f)
  BY <1>1, SameGroup, SameWindow
<1>3. \A i : Blamed(i)' <=> Blamed(i)
  BY <1>1, <1>2 DEF Blamed
<1>4. \A s : (Past(s)' <=> Past(s)) /\ (Ahead(s)' <=> Ahead(s)) /\ (Calm(s)' <=> Calm(s))
  BY <1>1, <1>2, <1>3 DEF Past, Ahead, Calm
<1>5. \A s : Over(s)' <=> Over(s)
  BY <1>1, <1>2 DEF Over, Ready
<1>6. \A s : TileReady(s)' <=> TileReady(s)
  BY <1>1, <1>2, <1>4, <1>5 DEF TileReady, Ready
<1>7. \A s : TileOpen(s)' <=> TileOpen(s)
  BY <1>1, <1>2, <1>4, <1>5 DEF TileOpen, Opened
<1>8. \A s : Finished(s)' <=> Finished(s)
  BY <1>1, <1>4, <1>5 DEF Finished
<1>9. \A s : {Block(s, k) : k \in 1..Blocks}' = {Block(s, k) : k \in 1..Blocks}
  BY <1>1, <1>2 DEF Block
<1>10. ASSUME NEW s PROVE TileDecoded(s)' <=> TileDecoded(s)
  <2> DEFINE all == {Block(s, k) : k \in 1..Blocks}
  <2>1. all' = all
    BY <1>9
  <2> HIDE DEF all
  <2>2. Opened(s, all)' <=> Opened(s, all)
    BY <1>1, <1>2, <2>1 DEF Opened
  <2> QED
    BY <1>1, <1>2, <1>4, <1>5, <2>2 DEF TileDecoded, all
<1>11. ASSUME NEW s, TileDecoding(s) PROVE TileDecoding(s)'
  <2>1. Done(s)' = Done(s)
    BY <1>1 DEF Done
  <2> QED
    BY <1>1, <1>2, <1>11, <2>1, SlotKept
<1>12. Staffing => Staffing'
  <2>1. JobsKnown => JobsKnown'
    BY <1>1, <1>2 DEF JobsKnown
  <2>2. ErrorsBlamed => ErrorsBlamed'
    BY <1>1, <1>2, <1>3 DEF ErrorsBlamed
  <2>3. WorkersKnown => WorkersKnown'
    BY <1>1 DEF WorkersKnown
  <2>4. Untaken => Untaken'
    BY <1>1 DEF Untaken
  <2>5. Loaded => Loaded'
    BY <1>1 DEF Loaded, Slot
  <2>6. NoneLost => NoneLost'
    BY <1>1 DEF NoneLost
  <2> QED
    BY <2>1, <2>2, <2>3, <2>4, <2>5, <2>6 DEF Staffing
<1>13. WindowKnown => WindowKnown'
  <2>1. Sides => Sides'
    BY <1>1, <1>2, <1>4 DEF Sides
  <2>2. Tally => Tally'
    BY <1>1, <1>2 DEF Tally
  <2>3. Progress => Progress'
    BY <1>1, <1>2, <1>6, <1>7, <1>8, <1>10, <1>11, <1>12 DEF Progress
  <2> QED
    BY <1>1, <1>2, <2>1, <2>2, <2>3 DEF WindowKnown
<1>14. GroupKnown => GroupKnown'
  BY <1>1, <1>2, <1>4, <1>13 DEF GroupKnown
<1>15. Ground'
  BY <1>1, GroundKept DEF StagedInv, Ground
<1>16. \A m : Answers(m) => Answers(m)'
  BY <1>1, AnswersSame
<1>17. ASSUME phase' \in InGroup PROVE GroupKnown' /\ Answers(g - 1)'
  <2>1. PICK m : m = g - 1
    OBVIOUS
  <2>2. GroupKnown /\ Answers(m)
    BY <1>1, <1>17, <2>1 DEF StagedInv
  <2>3. Answers(m)' /\ m = g' - 1
    BY <1>1, <1>16, <2>1, <2>2
  <2> QED
    BY <1>14, <2>2, <2>3
<1>18. ASSUME phase' = "group" PROVE Answers(g)'
  <2>1. PICK m : m = g
    OBVIOUS
  <2>2. Answers(m)' /\ m = g'
    BY <1>1, <1>16, <1>18, <2>1 DEF StagedInv
  <2> QED
    BY <2>2
<1>19. ASSUME Returned'
       PROVE  /\ Answers(Len(groups))'
              /\ \A a, b \in 1..Len(errors') : a < b => errors'[a] < errors'[b]
  <2>1. PICK m : m = Len(groups)
    OBVIOUS
  <2>2. Returned
    BY <1>1, <1>19 DEF Returned
  <2>3. Answers(m)' /\ m = Len(groups')
    BY <1>1, <1>2, <1>16, <2>1, <2>2 DEF StagedInv
  <2>4. \A a, b \in 1..Len(errors) : a < b => errors[a] < errors[b]
    BY <2>2 DEF StagedInv
  <2> QED
    BY <1>1, <2>3, <2>4
<1> QED
  BY <1>15, <1>17, <1>18, <1>19 DEF StagedInv

\* The state of every image at every stage, for every batch, window, number of
\* workers, tiles and code blocks, and whatever state aborted calls have left.
THEOREM StagedInvariant == Spec => []StagedInv
<1>1. Init => StagedInv
  BY StagedInit
<1>2. StagedInv /\ [Next]_vars => StagedInv'
  <2> SUFFICES ASSUME StagedInv, [Next]_vars PROVE StagedInv'
    OBVIOUS
  <2>1. ASSUME NEW in \in Batches, Decode(in) PROVE StagedInv'
    BY <2>1, DecodeStep
  <2>2. CASE StartGroup \/ DecodePlain \/ Collect
    BY <2>2, StartGroupStep, DecodePlainStep, CollectStep
  <2>3. CASE BeginWindow \/ PrepareTiles \/ StartEntropy
    BY <2>3, BeginWindowStep, PrepareTilesStep, StartEntropyStep
  <2>4. CASE JoinEntropy \/ FinishTiles \/ StoreSamples
    BY <2>4, JoinEntropyStep, FinishTilesStep, StoreSamplesStep
  <2>5. ASSUME NEW c \in DOMAIN worker, Load(c) \/ Execute(c) \/ Starve(c) \/ Die(c)
        PROVE  StagedInv'
    BY <2>5, LoadStep, ExecuteStep, StarveStep, DieStep
  <2>6. CASE UNCHANGED vars
    BY <2>6, StagedStutters
  <2> QED
    BY <2>1, <2>2, <2>3, <2>4, <2>5, <2>6 DEF Next
<1> QED
  BY <1>1, <1>2, PTL DEF Spec

\* Rows of a CpuBatchDecoder's answer: whatever failed before a row and whatever
\* other images, windows, groups and calls left in the scratch, a returned row
\* holds all tiles of the input its source index names and nothing else.
THEOREM RowsTheirInputs == Spec => []RowsAreTheirInputs
<1>1. StagedInv => RowsAreTheirInputs
  <2> SUFFICES ASSUME StagedInv, Returned, NEW n \in DOMAIN decoded
               PROVE  /\ Len(decoded[n].samples) = Len(decoded[n].source)
                      /\ \A r \in DOMAIN decoded[n].source :
                            decoded[n].samples[r] =
                                {<<<<calls, decoded[n].source[r]>>, m>> :
                                      m \in 1..input[decoded[n].source[r]].tiles}
    BY DEF RowsAreTheirInputs
  <2>1. RowsKnown(Len(groups))
    BY DEF StagedInv, Answers
  <2>2. /\ decoded \in Seq([source : Seq(DOMAIN input),
                          samples : Seq(SUBSET ((Nat \X Nat) \X Nat))])
        /\ \A k \in 1..Len(decoded) :
              /\ Len(decoded[k].samples) = Len(decoded[k].source)
              /\ \A r \in 1..Len(decoded[k].source) :
                    decoded[k].samples[r] = Samples(decoded[k].source[r])
    BY <2>1 DEF RowsKnown, RowsTyped, RowsOwn
  <2>3. n \in 1..Len(decoded)
    BY <2>2
  <2>4. DOMAIN decoded[n].source = 1..Len(decoded[n].source)
    BY <2>1, <2>3, SourceSeq
  <2>5. \A i : Samples(i) = {<<<<calls, i>>, m>> : m \in 1..input[i].tiles}
    BY DEF Samples
  <2> QED
    BY <2>2, <2>3, <2>4, <2>5
<1> QED
  BY <1>1, StagedInvariant, PTL

\* Answers of a CpuBatchDecoder: no call ends with a slot that no stage answered,
\* and a returned call answers every input once, by a row or by an error, errors
\* in input order and only for an input's own fault or a worker without memory.
THEOREM InputsAnswered == Spec => []EveryInputAnswered
<1>1. StagedInv => EveryInputAnswered
  <2> SUFFICES ASSUME StagedInv PROVE EveryInputAnswered
    OBVIOUS
  <2>1. outcome # "missing"
    BY DEF StagedInv, Ground
  <2>2. CASE ~Returned
    BY <2>1, <2>2 DEF EveryInputAnswered
  <2>3. CASE Returned
    <3> DEFINE rows == UNION {{n} \X DOMAIN decoded[n].source : n \in DOMAIN decoded}
    <3> DEFINE of(r) == decoded[r[1]].source[r[2]]
    <3>1. /\ ErrorsKnown(Len(groups)) /\ RowsKnown(Len(groups)) /\ AllAnswered(Len(groups))
          /\ \A a, b \in 1..Len(errors) : a < b => errors[a] < errors[b]
          /\ Partitions(groups, input)
      BY <2>3 DEF StagedInv, Answers, Ground
    <3>2. \A i \in DOMAIN input : Settled(i, Len(groups))
      BY <3>1 DEF Partitions, Settled
    <3>3. /\ DOMAIN decoded = 1..Len(decoded)
          /\ \A n \in 1..Len(decoded) : /\ decoded[n].source \in Seq(DOMAIN input)
                                        /\ DOMAIN decoded[n].source = 1..Len(decoded[n].source)
      <4>1. decoded \in Seq([source : Seq(DOMAIN input),
                             samples : Seq(SUBSET ((Nat \X Nat) \X Nat))])
        BY <3>1 DEF RowsKnown, RowsTyped
      <4> QED
        BY <3>1, <4>1, SourceSeq
    <3>4. /\ \A r \in rows : r[1] \in 1..Len(decoded) /\ r[2] \in 1..Len(decoded[r[1]].source)
                              /\ r = <<r[1], r[2]>>
          /\ \A n \in 1..Len(decoded) : \A k \in 1..Len(decoded[n].source) : <<n, k>> \in rows
      BY <3>3
    <3>5. errors \in Seq(DOMAIN input) /\ DOMAIN errors = 1..Len(errors)
      BY <3>1 DEF ErrorsKnown
    <3>6. \A a \in DOMAIN errors : errors[a] \in DOMAIN input /\ Blamed(errors[a])
      BY <3>1, <3>5 DEF ErrorsKnown
    <3> HIDE DEF rows
    <3>7. \A r, q \in rows : of(r) = of(q) => r = q
      <4> SUFFICES ASSUME NEW r \in rows, NEW q \in rows, of(r) = of(q) PROVE r = q
        OBVIOUS
      <4>1. /\ r[1] \in 1..Len(decoded) /\ r[2] \in 1..Len(decoded[r[1]].source)
            /\ q[1] \in 1..Len(decoded) /\ q[2] \in 1..Len(decoded[q[1]].source)
        BY <3>4
      <4>2. decoded[r[1]].source[r[2]] = decoded[q[1]].source[q[2]]
        OBVIOUS
      <4>3. PICK n, a, k, b : n = r[1] /\ a = r[2] /\ k = q[1] /\ b = q[2]
        OBVIOUS
      <4>4. /\ n \in 1..Len(decoded) /\ a \in 1..Len(decoded[n].source)
            /\ k \in 1..Len(decoded) /\ b \in 1..Len(decoded[k].source)
            /\ decoded[n].source[a] = decoded[k].source[b]
        BY <4>1, <4>2, <4>3
      <4>5. n = k /\ a = b
        BY <3>1, <4>4, RowOnce
      <4> QED
        BY <3>4, <4>3, <4>5
    <3>8. \A r \in rows : of(r) \in DOMAIN input /\ ~Blamed(of(r))
      <4> SUFFICES ASSUME NEW r \in rows PROVE of(r) \in DOMAIN input /\ ~Blamed(of(r))
        OBVIOUS
      <4>1. r[1] \in 1..Len(decoded) /\ r[2] \in 1..Len(decoded[r[1]].source)
        BY <3>4
      <4>2. of(r) \in DOMAIN input
        BY <3>3, <4>1
      <4>3. ~Blamed(of(r))
        BY <3>1, <4>1 DEF RowsKnown, RowsOwn
      <4> QED
        BY <4>2, <4>3
    <3>9. ASSUME NEW i \in DOMAIN input
          PROVE  /\ ~Blamed(i) => \E r \in rows : of(r) = i
                 /\ Blamed(i) => \E a \in DOMAIN errors : errors[a] = i
      <4>1. \/ \E a \in 1..Len(errors) : errors[a] = i
            \/ \E n \in 1..Len(decoded) : \E k \in 1..Len(decoded[n].source) :
                  decoded[n].source[k] = i
        BY <3>1, <3>2 DEF AllAnswered
      <4>2. ASSUME NEW a \in 1..Len(errors), errors[a] = i
            PROVE  Blamed(i) /\ \E b \in DOMAIN errors : errors[b] = i
        BY <3>5, <3>6, <4>2
      <4>3. ASSUME NEW n \in 1..Len(decoded), NEW k \in 1..Len(decoded[n].source),
                   decoded[n].source[k] = i
            PROVE  ~Blamed(i) /\ \E r \in rows : of(r) = i
        <5>1. <<n, k>> \in rows /\ of(<<n, k>>) = i
          BY <3>4, <4>3
        <5> QED
          BY <3>8, <5>1
      <4> QED
        BY <4>1, <4>2, <4>3
    <3>10. \A a, b \in DOMAIN errors : a < b => errors[a] < errors[b]
      BY <3>1, <3>5
    <3> QED
      BY <2>1, <3>6, <3>7, <3>8, <3>9, <3>10 DEF EveryInputAnswered, rows
  <2> QED
    BY <2>2, <2>3
<1> QED
  BY <1>1, StagedInvariant, PTL
=============================================================================
