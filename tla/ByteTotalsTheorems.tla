------------------------- MODULE ByteTotalsTheorems -------------------------
(* Facts about sums, least elements and division that the invariance       *)
(* proofs cite.                                                            *)
EXTENDS ByteTotals, FiniteSetTheorems, WellFoundedInduction, TLAPS

\* A single owner has as many tokens as bytes.
LEMMA OwnTokens ==
    ASSUME NEW x, NEW k \in Nat
    PROVE  /\ IsFiniteSet({x} \X (1..k))
           /\ Cardinality({x} \X (1..k)) = k
<1> DEFINE T == {x} \X (1..k)
<1> DEFINE h == [i \in 1..k |-> <<x, i>>]
<1>1. h \in Bijection(1..k, T)
  <2>1. h \in [1..k -> T]
    OBVIOUS
  <2>2. \A i, j \in 1..k : h[i] = h[j] => i = j
    OBVIOUS
  <2>3. \A t \in T : \E i \in 1..k : h[i] = t
    OBVIOUS
  <2> HIDE DEF h, T
  <2>4. QED
    BY <2>1, <2>2, <2>3 DEF Bijection, Injection, Surjection, IsInjective
<1>2. ExistsBijection(1..k, T)
  BY <1>1, Zenon DEF ExistsBijection
<1>3. IsFiniteSet(1..k) /\ Cardinality(1..k) = k
  BY FS_Interval, SMT
<1> HIDE DEF T
<1>4. IsFiniteSet(T) /\ Cardinality(T) = Cardinality(1..k)
  BY <1>2, <1>3, FS_Bijection, Zenon
<1>5. QED
  BY <1>3, <1>4 DEF T

\* A total is a natural number.
LEMMA TotalType ==
    ASSUME NEW S, IsFiniteSet(S), NEW cap \in Nat, NEW f \in [S -> Nat]
    PROVE  IsFiniteSet(Tokens(f, cap)) /\ Total(f, cap) \in Nat
<1>1. IsFiniteSet(1..cap)
  BY FS_Interval, SMT
<1>2. IsFiniteSet(S \X (1..cap))
  BY <1>1, FS_Product
<1>3. Tokens(f, cap) \in SUBSET (S \X (1..cap))
  BY DEF Tokens
<1>4. QED
  BY <1>2, <1>3, FS_Subset, FS_CardinalityType DEF Total

\* Changing one charge from f[x] to g[x] changes the total by g[x] - f[x].
LEMMA TotalUpdate ==
    ASSUME NEW S, IsFiniteSet(S), NEW cap \in Nat,
           NEW f \in [S -> 0..cap], NEW g \in [S -> 0..cap], NEW x \in S,
           \A y \in S \ {x} : g[y] = f[y]
    PROVE  Total(g, cap) = (Total(f, cap) - f[x]) + g[x]
<1> DEFINE Rest == {t \in S \X (1..cap) : t[1] # x /\ t[2] <= f[t[1]]}
<1> DEFINE Own(k) == {x} \X (1..k)
<1>1. /\ Tokens(f, cap) = Rest \cup Own(f[x])
      /\ Tokens(g, cap) = Rest \cup Own(g[x])
      /\ Rest \cap Own(f[x]) = {}
      /\ Rest \cap Own(g[x]) = {}
  BY SMT DEF Tokens
<1>2. IsFiniteSet(Rest) /\ Cardinality(Rest) \in Nat
  <2>1. IsFiniteSet(Tokens(f, cap))
    BY TotalType, 0..cap \subseteq Nat, f \in [S -> Nat]
  <2>2. Rest \in SUBSET Tokens(f, cap)
    BY <1>1
  <2> HIDE DEF Rest
  <2>3. QED
    BY <2>1, <2>2, FS_Subset, FS_CardinalityType
<1>3. f[x] \in Nat /\ g[x] \in Nat
  OBVIOUS
<1>4. /\ IsFiniteSet(Own(f[x])) /\ Cardinality(Own(f[x])) = f[x]
      /\ IsFiniteSet(Own(g[x])) /\ Cardinality(Own(g[x])) = g[x]
  BY <1>3, OwnTokens
<1> HIDE DEF Rest, Own
<1>5. /\ Cardinality(Tokens(f, cap)) = Cardinality(Rest) + f[x]
      /\ Cardinality(Tokens(g, cap)) = Cardinality(Rest) + g[x]
  <2>1. Cardinality(Rest \cup Own(f[x]))
          = Cardinality(Rest) + Cardinality(Own(f[x])) - Cardinality({})
    BY <1>1, <1>2, <1>4, FS_Union
  <2>2. Cardinality(Rest \cup Own(g[x]))
          = Cardinality(Rest) + Cardinality(Own(g[x])) - Cardinality({})
    BY <1>1, <1>2, <1>4, FS_Union
  <2>3. QED
    BY <1>1, <1>2, <1>3, <1>4, <2>1, <2>2, FS_EmptySet
<1>6. QED
  BY <1>2, <1>3, <1>5 DEF Total

\* Nobody charged, nothing in the total.
LEMMA TotalZero ==
    ASSUME NEW S, NEW cap \in Nat, NEW f \in [S -> {0}]
    PROVE  Total(f, cap) = 0
<1>1. Tokens(f, cap) = {}
  BY SMT DEF Tokens
<1>2. QED
  BY <1>1, FS_EmptySet DEF Total

\* No single charge exceeds the total.
LEMMA TotalBounds ==
    ASSUME NEW S, IsFiniteSet(S), NEW cap \in Nat,
           NEW f \in [S -> 0..cap], NEW x \in S
    PROVE  f[x] <= Total(f, cap)
<1>1. f[x] \in Nat /\ f \in [S -> Nat]
  OBVIOUS
<1>2. {x} \X (1..f[x]) \in SUBSET Tokens(f, cap)
  BY SMT DEF Tokens
<1>3. IsFiniteSet(Tokens(f, cap))
  BY <1>1, TotalType
<1>4. Cardinality({x} \X (1..f[x])) = f[x]
  BY <1>1, OwnTokens
<1>5. QED
  BY <1>2, <1>3, <1>4, FS_Subset DEF Total

\* Charges that are smaller everywhere have a smaller total.
LEMMA TotalMonotone ==
    ASSUME NEW S, IsFiniteSet(S), NEW cap \in Nat,
           NEW f \in [S -> Nat], NEW g \in [S -> Nat],
           \A x \in S : f[x] <= g[x]
    PROVE  Total(f, cap) <= Total(g, cap)
<1>1. Tokens(f, cap) \in SUBSET Tokens(g, cap)
  BY SMT DEF Tokens
<1>2. IsFiniteSet(Tokens(g, cap))
  BY TotalType
<1>3. QED
  BY <1>1, <1>2, FS_Subset DEF Total

\* A single charge is the total.
LEMMA TotalSingle ==
    ASSUME NEW S, IsFiniteSet(S), NEW cap \in Nat,
           NEW f \in [S -> 0..cap], NEW x \in S, \A y \in S \ {x} : f[y] = 0
    PROVE  Total(f, cap) = f[x]
<1> DEFINE z == [y \in S |-> 0]
<1>1. z \in [S -> {0}] /\ z \in [S -> 0..cap] /\ z[x] = 0
      /\ \A y \in S \ {x} : f[y] = z[y]
  OBVIOUS
<1> HIDE DEF z
<1>2. Total(z, cap) = 0
  BY <1>1, TotalZero
<1>3. Total(f, cap) = (Total(z, cap) - z[x]) + f[x]
  BY <1>1, TotalUpdate
<1> QED
  BY <1>1, <1>2, <1>3

\* The total of a sum is the sum of the totals: the tokens of h above those
\* of f are the tokens of g, moved up by f.
LEMMA TotalSum ==
    ASSUME NEW S, IsFiniteSet(S), NEW cap \in Nat,
           NEW f \in [S -> 0..cap], NEW g \in [S -> 0..cap],
           NEW h \in [S -> Nat], \A x \in S : h[x] = f[x] + g[x]
    PROVE  Total(h, 2 * cap) = Total(f, cap) + Total(g, cap)
<1> DEFINE Upper == {t \in S \X (1..(2 * cap)) :
                       t[2] > f[t[1]] /\ t[2] <= f[t[1]] + g[t[1]]}
<1> DEFINE up == [t \in Tokens(g, cap) |-> <<t[1], t[2] + f[t[1]]>>]
<1>1. /\ Tokens(h, 2 * cap) = Tokens(f, cap) \cup Upper
      /\ Tokens(f, cap) \cap Upper = {}
  BY SMT DEF Tokens
<1>2. f \in [S -> Nat] /\ g \in [S -> Nat]
  OBVIOUS
<1>3. IsFiniteSet(Tokens(f, cap)) /\ IsFiniteSet(Tokens(g, cap))
      /\ Total(f, cap) \in Nat /\ Total(g, cap) \in Nat
  BY <1>2, TotalType
<1>4. up \in Bijection(Tokens(g, cap), Upper)
  <2>1. up \in [Tokens(g, cap) -> Upper]
    BY SMT DEF Tokens
  <2>2. \A t, u \in Tokens(g, cap) : up[t] = up[u] => t = u
    BY SMT DEF Tokens
  <2>3. \A t \in Upper : \E u \in Tokens(g, cap) : up[u] = t
    <3> SUFFICES ASSUME NEW t \in Upper
                 PROVE  \E u \in Tokens(g, cap) : up[u] = t
      OBVIOUS
    <3>1. /\ t[1] \in S /\ t[2] \in Nat /\ t = <<t[1], t[2]>>
          /\ f[t[1]] \in Nat /\ g[t[1]] \in 0..cap
          /\ t[2] - f[t[1]] \in 1..cap /\ t[2] - f[t[1]] <= g[t[1]]
      BY SMT
    <3>2. <<t[1], t[2] - f[t[1]]>> \in Tokens(g, cap)
      BY <3>1 DEF Tokens
    <3>3. up[<<t[1], t[2] - f[t[1]]>>] = t
      BY <3>1, <3>2
    <3> QED
      BY <3>2, <3>3
  <2> HIDE DEF up, Upper
  <2> QED
    BY <2>1, <2>2, <2>3 DEF Bijection, Injection, Surjection, IsInjective
<1> HIDE DEF up, Upper
<1>5. ExistsBijection(Tokens(g, cap), Upper)
  BY <1>4, Zenon DEF ExistsBijection
<1>6. IsFiniteSet(Upper) /\ Cardinality(Upper) = Cardinality(Tokens(g, cap))
  BY <1>3, <1>5, FS_Bijection, Zenon
<1>7. Cardinality(Tokens(f, cap) \cup Upper)
        = Cardinality(Tokens(f, cap)) + Cardinality(Upper) - Cardinality({})
  BY <1>1, <1>3, <1>6, FS_Union
<1>8. Cardinality(Tokens(h, 2 * cap))
        = Cardinality(Tokens(f, cap)) + Cardinality(Tokens(g, cap)) - 0
  BY <1>1, <1>6, <1>7, FS_EmptySet, Zenon
<1>9. Total(h, 2 * cap) = Total(f, cap) + Total(g, cap) - 0
  BY <1>8, Zenon DEF Total
<1> QED
  BY <1>3, <1>9

\* A sum over fewer owners is no greater.
LEMMA TotalSubset ==
    ASSUME NEW S, IsFiniteSet(S), NEW R, R \subseteq S, NEW cap \in Nat,
           NEW f \in [S -> Nat], NEW g \in [R -> Nat],
           \A x \in R : g[x] <= f[x]
    PROVE  Total(g, cap) <= Total(f, cap)
<1>1. Tokens(g, cap) \in SUBSET Tokens(f, cap)
  BY SMT DEF Tokens
<1>2. IsFiniteSet(Tokens(f, cap))
  BY TotalType
<1> QED
  BY <1>1, <1>2, FS_Subset DEF Total

\* A greater bound than needed makes no difference.
LEMMA TotalWider ==
    ASSUME NEW S, NEW cap \in Nat, NEW wide \in Nat, cap <= wide,
           NEW f \in [S -> 0..cap]
    PROVE  Total(f, wide) = Total(f, cap)
<1>1. Tokens(f, wide) = Tokens(f, cap)
  BY SMT DEF Tokens
<1> QED
  BY <1>1 DEF Total

-----------------------------------------------------------------------------
(* Least and greatest numbers                                              *)

\* A set of numbers has a least element.
LEMMA LeastExists ==
    ASSUME NEW S, S \subseteq Nat, S # {}
    PROVE  \E i \in S : \A j \in S : i <= j
<1>1. PICK i \in S : \A j \in S : ~ (<<j, i>> \in OpToRel(<, Nat))
  BY NatLessThanWellFounded, WFMin
<1>2. ASSUME NEW j \in S PROVE i <= j
  <2>1. i \in Nat /\ j \in Nat
    OBVIOUS
  <2>2. j < i => <<j, i>> \in OpToRel(<, Nat)
    BY <2>1, Zenon DEF OpToRel
  <2>3. ~ (j < i)
    BY <1>1, <2>2
  <2> QED
    BY <2>1, <2>3
<1> QED
  BY <1>2

\* A bounded set of numbers has a greatest element.
LEMMA GreatestExists ==
    ASSUME NEW S, S \subseteq Nat, S # {}, NEW n \in Nat, \A i \in S : i <= n
    PROVE  \E i \in S : \A j \in S : j <= i
<1> DEFINE rest == {n - i : i \in S}
<1>1. rest \subseteq Nat /\ rest # {}
  <2>1. \A i \in S : n - i \in Nat
    OBVIOUS
  <2>2. PICK i \in S : TRUE
    OBVIOUS
  <2>3. n - i \in rest
    OBVIOUS
  <2> QED
    BY <2>1, <2>3
<1>2. PICK d \in rest : \A e \in rest : d <= e
  BY <1>1, LeastExists
<1>3. PICK i \in S : d = n - i
  BY <1>2
<1>4. ASSUME NEW j \in S PROVE j <= i
  <2>1. d <= n - j
    BY <1>2
  <2> QED
    BY <1>3, <2>1
<1> QED
  BY <1>4

-----------------------------------------------------------------------------
(* Division: n jobs are cut into chunks of one size                        *)

\* What a quotient rounded down is.
LEMMA Quotient ==
    ASSUME NEW a \in Nat, NEW b \in Nat \ {0}
    PROVE  /\ a \div b \in Nat
           /\ (a \div b) * b <= a /\ a < (a \div b) * b + b
  BY SMTT(30)

\* A common factor is cancelled.
LEMMA Cancel ==
    ASSUME NEW a \in Int, NEW b \in Int, NEW c \in Nat \ {0}, a * c < b * c
    PROVE  a < b
  BY SMTT(30)

\* What a quotient rounded up is.
LEMMA Ceiling ==
    ASSUME NEW a \in Nat, NEW b \in Nat \ {0}
    PROVE  /\ DivCeil(a, b) \in Nat
           /\ a <= DivCeil(a, b) * b /\ DivCeil(a, b) * b < a + b
<1>1. a + b - 1 \in Nat
  OBVIOUS
<1> QED
  BY <1>1, Quotient DEF DivCeil

\* Chunks for r workers are not empty, and no more than r.
LEMMA CutCounts ==
    ASSUME NEW n \in Nat \ {0}, NEW r \in Nat \ {0}
    PROVE  LET size == DivCeil(n, r)
           IN  size \in Nat \ {0} /\ DivCeil(n, size) \in 1..r
<1> DEFINE size == DivCeil(n, r)
<1> DEFINE count == DivCeil(n, size)
<1>1. size \in Nat /\ n <= size * r
  BY Ceiling
<1>2. size # 0
  BY <1>1, SMT DEF DivCeil
<1>3. count \in Nat /\ n <= count * size /\ count * size < n + size
  BY <1>1, <1>2, Ceiling
<1> HIDE DEF size, count
<1>4. count # 0
  BY <1>1, <1>3
<1>5. count * size < (r + 1) * size
  <2>1. (r + 1) * size = size * r + size
    BY <1>1, SMTT(30)
  <2>2. count * size \in Int /\ size * r \in Int
    BY <1>1, <1>3
  <2> QED
    BY <1>1, <1>3, <2>1, <2>2
<1>6. count < r + 1
  BY <1>1, <1>2, <1>3, <1>5, Cancel
<1> QED
  BY <1>1, <1>2, <1>3, <1>4, <1>6 DEF size, count

\* Every job is in a chunk.
LEMMA CutCovers ==
    ASSUME NEW n \in Nat, NEW size \in Nat \ {0}, NEW j \in 1..n
    PROVE  \E c \in 1..DivCeil(n, size) : (c - 1) * size < j /\ j <= c * size
<1> DEFINE c == DivCeil(j, size)
<1> DEFINE count == DivCeil(n, size)
<1>1. c \in Nat /\ j <= c * size /\ c * size < j + size
  BY Ceiling
<1>2. count \in Nat /\ n <= count * size
  BY Ceiling
<1> HIDE DEF c, count
<1>3. c # 0
  BY <1>1
<1>4. (c - 1) * size = c * size - size /\ c * size \in Int
      /\ (c - 1) * size \in Int /\ count * size \in Int
  BY <1>1, <1>2, SMTT(30)
<1>5. (c - 1) * size < j
  BY <1>1, <1>4
<1>6. c - 1 < count
  <2>1. (c - 1) * size < count * size
    BY <1>2, <1>4, <1>5
  <2> QED
    BY <1>1, <1>2, <2>1, Cancel
<1>7. c \in 1..count
  BY <1>1, <1>2, <1>3, <1>6
<1> QED
  BY <1>1, <1>5, <1>7 DEF count

\* Every chunk has a job.
LEMMA CutStarts ==
    ASSUME NEW n \in Nat, NEW size \in Nat \ {0}, NEW c \in 1..DivCeil(n, size)
    PROVE  (c - 1) * size \in Nat /\ (c - 1) * size < n
<1> DEFINE count == DivCeil(n, size)
<1>1. count \in Nat /\ count * size < n + size
  BY Ceiling
<1>2. c \in Nat \ {0} /\ c <= count
  BY <1>1
<1> HIDE DEF count
<1>3. (c - 1) * size \in Nat /\ (c - 1) * size = c * size - size
      /\ c * size \in Int /\ count * size \in Int
  BY <1>1, <1>2, SMTT(30)
<1>4. c * size <= count * size
  <2>1. count - c \in Nat /\ (count - c) * size = count * size - c * size
        /\ (count - c) * size \in Nat
    BY <1>1, <1>2, SMTT(30)
  <2> QED
    BY <1>3, <2>1
<1> QED
  BY <1>1, <1>3, <1>4
=============================================================================
