---------------------------- MODULE CommonProofs ----------------------------
(***************************************************************************)
(* Lemmas that several of the proofs need, about no part of the program.   *)
(*                                                                         *)
(* Order: the smallest of a set, and lists that are read in pages cut by   *)
(* position.  A record's position is how many listed ids come before its   *)
(* own, and a page takes the records at `size' positions from `start' on.  *)
(*                                                                         *)
(* Sums: what the community modules' SumFunctionOnSet(f, S) is, for every  *)
(* finite S and every integer-valued f.  The facts follow from induction   *)
(* over the subsets of S by size, which the smallest counterexample gives. *)
(***************************************************************************)
EXTENDS Integers, FiniteSets, Functions, FiniteSetTheorems, WellFoundedInduction, TLAPS

\* Of things that have a natural measure one has the smallest.
LEMMA Smallest ==
    ASSUME NEW S, S # {}, NEW F, \A x \in S : F[x] \in Nat
    PROVE  \E x \in S : \A y \in S : F[x] <= F[y]
<1> DEFINE R == OpToRel(<, Nat)
           T == {F[x] : x \in S}
<1>1. \A x, y \in Nat : <<y, x>> \in R <=> y < x
      BY DEF OpToRel
<1>2. IsWellFoundedOn(R, Nat)
      BY NatLessThanWellFounded
<1> HIDE DEF R
<1>3. T \subseteq Nat /\ T # {}
      OBVIOUS
<1>4. PICK m \in T : \A y \in T : ~(<<y, m>> \in R)
      BY <1>2, <1>3, WFMin
<1>5. PICK x \in S : m = F[x]
      BY <1>4
<1>6. \A y \in S : F[x] <= F[y]
  <2>1. SUFFICES ASSUME NEW y \in S PROVE F[x] <= F[y]
        OBVIOUS
  <2>2. F[y] \in T /\ F[y] \in Nat /\ F[x] \in Nat
        OBVIOUS
  <2>3. ~(F[y] < F[x])
        BY <1>1, <1>4, <1>5, <2>2
  <2>4. QED
        BY <2>2, <2>3
<1>7. QED
      BY <1>6

-----------------------------------------------------------------------------
Rank(S, k) == Cardinality({j \in S : j < k})

LEMMA RankIsNat ==
    ASSUME NEW n \in Nat, NEW S \in SUBSET (1 .. n), NEW k
    PROVE  /\ IsFiniteSet(S) /\ IsFiniteSet({j \in S : j < k})
           /\ Rank(S, k) \in Nat
<1>1. IsFiniteSet(S)
  <2>1. IsFiniteSet(1 .. n)
        BY FS_Interval
  <2>2. QED
        BY <2>1, FS_Subset
<1>2. {j \in S : j < k} \in SUBSET S
      OBVIOUS
<1>3. QED
      BY <1>1, <1>2, FS_Subset, FS_CardinalityType DEF Rank

\* The list is in the order of its ids.
LEMMA RankGrows ==
    ASSUME NEW n \in Nat, NEW S \in SUBSET (1 .. n), NEW i \in S, NEW k \in Int, i < k
    PROVE  Rank(S, i) < Rank(S, k)
<1> DEFINE A == {j \in S : j < i}
           B == {j \in S : j < k}
<1>1. IsFiniteSet(B) /\ Rank(S, i) \in Nat /\ Rank(S, k) \in Nat
      BY RankIsNat
<1>2. A \in SUBSET B /\ i \in B /\ i \notin A
  <2>1. \A j \in S : j \in Int
        OBVIOUS
  <2>2. \A j \in S : j < i => j < k
        BY <2>1
  <2>3. i \in Int /\ ~(i < i)
        OBVIOUS
  <2>4. A \in SUBSET B
        BY <2>2
  <2>5. i \in B
        OBVIOUS
  <2>6. i \notin A
        BY <2>3
  <2>7. QED
        BY <2>4, <2>5, <2>6
<1>3. A # B
      BY <1>2
<1>4. Cardinality(A) <= Cardinality(B) /\ Cardinality(A) # Cardinality(B)
      BY <1>1, <1>2, <1>3, FS_Subset
<1>5. QED
      BY <1>1, <1>4 DEF Rank

\* What one record's coming or going does to the places of the others: nobody
\* moves up by more than one, nobody moves up unless it left, and nobody gets
\* ahead of the place that it left.
LEMMA RankKept ==
    ASSUME NEW n \in Nat, NEW S \in SUBSET (1 .. n), NEW T \in SUBSET (1 .. n),
           NEW d \in 1 .. n, S \ {d} \subseteq T, NEW k \in 1 .. n
    PROVE  /\ Rank(T, k) >= Rank(S, k) - 1
           /\ d \in T \/ d \notin S => Rank(T, k) >= Rank(S, k)
           /\ Rank(T, k) >= Rank(S, k) \/ Rank(T, k) >= Rank(S, d)
<1> DEFINE A == {j \in S : j < k}
           B == {j \in T : j < k}
           C == {j \in S : j < d}
<1>1. /\ IsFiniteSet(A) /\ Rank(S, k) = Cardinality(A) /\ Cardinality(A) \in Nat
      /\ IsFiniteSet(B) /\ Rank(T, k) = Cardinality(B) /\ Cardinality(B) \in Nat
      /\ Rank(S, d) = Cardinality(C) /\ Cardinality(C) \in Nat
      BY RankIsNat DEF Rank
<1>2. \A j \in S : j \in Int /\ (j = d \/ j \in T)
      OBVIOUS
<1>3. A \ {d} \in SUBSET B
      BY <1>2
<1>4. Cardinality(A \ {d}) <= Cardinality(B)
      BY <1>1, <1>3, FS_Subset
<1>5. Cardinality(A \ {d}) \in Nat /\ Cardinality(A \ {d}) >= Cardinality(A) - 1
  <2> HIDE DEF A
  <2>1. /\ IsFiniteSet(A \ {d})
        /\ Cardinality(A \ {d}) = IF d \in A THEN Cardinality(A) - 1 ELSE Cardinality(A)
        BY <1>1, FS_RemoveElement
  <2>2. Cardinality(A \ {d}) \in Nat
        BY <2>1, FS_CardinalityType
  <2>3. QED
        BY <1>1, <2>1, <2>2
<1>6. ASSUME A \in SUBSET B PROVE Rank(T, k) >= Rank(S, k)
      BY <1>1, <1>6, FS_Subset
<1>7. d \notin A \/ d \in T => A \in SUBSET B
      BY <1>2
<1>8. CASE d \in A
  <2>1. d < k
        BY <1>8
  <2>2. C \in SUBSET B
    <3>1. \A j \in S : j < d => j < k /\ j # d
          BY <1>2, <2>1
    <3>2. QED
          BY <1>2, <3>1
  <2>3. Rank(T, k) >= Rank(S, d)
        BY <1>1, <2>2, FS_Subset
  <2>4. Rank(T, k) >= Rank(S, k) - 1
        BY <1>1, <1>4, <1>5
  <2>5. d \in S
        BY <1>8
  <2>6. QED
        BY <1>6, <1>7, <2>3, <2>4, <2>5
<1>9. CASE d \notin A
  <2>1. Rank(T, k) >= Rank(S, k)
        BY <1>6, <1>7, <1>9
  <2>2. QED
        BY <1>1, <2>1
<1>10. QED
      BY <1>8, <1>9

\* Positions are taken without a gap.
LEMMA RanksFilled ==
    ASSUME NEW n \in Nat, NEW S \in SUBSET (1 .. n), NEW k \in S, NEW v \in 0 .. Rank(S, k)
    PROVE  \E j \in S : Rank(S, j) = v
<1> DEFINE T == {j \in S : Rank(S, j) >= v}
           F == [j \in T |-> j]
<1>1. k \in T /\ T # {}
      BY RankIsNat
<1>2. PICK m \in T : \A j \in T : m <= j
  <2>1. \A j \in T : F[j] \in Nat
        OBVIOUS
  <2>2. \E m \in T : \A j \in T : F[m] <= F[j]
    <3> HIDE DEF T, F
    <3>1. QED
          BY <1>1, <2>1, Smallest
  <2>3. QED
        BY <2>2
<1>3. m \in S /\ Rank(S, m) \in Nat /\ Rank(S, m) >= v /\ v \in Nat /\ m \in Nat
  <2>1. m \in S /\ Rank(S, m) >= v /\ m \in Nat
        BY <1>2
  <2>2. Rank(S, m) \in Nat
        BY RankIsNat
  <2>3. QED
        BY <2>1, <2>2
<1>4. SUFFICES ASSUME Rank(S, m) > v PROVE FALSE
      BY <1>3
<1> DEFINE B == {j \in S : j < m}
           G == [j \in B |-> n - j]
<1>5. B # {} /\ IsFiniteSet(B)
  <2>1. Cardinality(B) # 0 /\ IsFiniteSet(B)
    <3>1. Rank(S, m) # 0
          BY <1>3, <1>4
    <3>2. Cardinality(B) # 0
          BY <3>1 DEF Rank
    <3>3. IsFiniteSet(B)
          BY RankIsNat
    <3>4. QED
          BY <3>2, <3>3
  <2>2. QED
        BY <2>1, FS_EmptySet
<1>6. PICK i \in B : \A j \in B : j <= i
  <2>1. \A j \in B : G[j] \in Nat
        OBVIOUS
  <2>2. \E i \in B : \A j \in B : G[i] <= G[j]
    <3> HIDE DEF B, G
    <3>1. QED
          BY <1>5, <2>1, Smallest
  <2>3. QED
        BY <2>2
<1>7. B = {j \in S : j < i} \cup {i}
  <2>1. i \in S /\ i < m /\ \A j \in S : j \in Int
        BY <1>6
  <2>2. \A j \in S : j < m => j < i \/ j = i
        BY <1>6, <2>1
  <2>3. \A j \in S : j < i => j < m
        BY <1>3, <2>1
  <2>4. QED
        BY <2>1, <2>2, <2>3
<1>8. Rank(S, m) = Rank(S, i) + 1
  <2>1. IsFiniteSet({j \in S : j < i})
        BY RankIsNat
  <2>2. i \notin {j \in S : j < i}
        BY <1>6
  <2>3. QED
        BY <1>7, <2>1, <2>2, FS_AddElement DEF Rank
<1>9. i \in S /\ Rank(S, i) \in Nat /\ i < m
      BY <1>6, RankIsNat
<1>10. Rank(S, i) >= v
      BY <1>3, <1>4, <1>8, <1>9
<1>11. i \in T
      BY <1>9, <1>10
<1>12. QED
      BY <1>2, <1>3, <1>9, <1>11

\* A page is never longer than its size, and full as long as records follow it.
LEMMA PageLength ==
    ASSUME NEW n \in Nat, NEW S \in SUBSET (1 .. n), NEW start \in Nat, NEW size \in Nat \ {0},
           NEW page \in SUBSET S,
           \A j \in S : j \in page <=> Rank(S, j) \in start .. start + size - 1
    PROVE  /\ Cardinality(page) \in 0 .. size
           /\ \A k \in S : Rank(S, k) >= start + size => Cardinality(page) = size
<1> DEFINE I == start .. start + size - 1
           f == [j \in page |-> Rank(S, j)]
<1>1. IsFiniteSet(I) /\ Cardinality(I) = size
  <2>1. start \in Int /\ start + size - 1 \in Int /\ ~(start > start + size - 1)
        OBVIOUS
  <2>2. IsFiniteSet(I)
        BY <2>1, FS_Interval
  <2>3. Cardinality(I) = (start + size - 1) - start + 1
        BY <2>1, FS_Interval
  <2>4. QED
        BY <2>2, <2>3
<1>2. f \in Injection(page, I)
  <2>1. f \in [page -> I]
        OBVIOUS
  <2>2. ASSUME NEW i \in page, NEW j \in page, f[i] = f[j]
        PROVE  i = j
    <3>1. i \in S /\ j \in S /\ i \in Int /\ j \in Int /\ Rank(S, i) = Rank(S, j)
          BY <2>2
    <3>2. Rank(S, i) \in Nat /\ Rank(S, j) \in Nat
          BY RankIsNat
    <3>3. ~(i < j)
      <4>1. i < j => Rank(S, i) < Rank(S, j)
            BY <3>1, RankGrows
      <4>2. QED
            BY <3>1, <3>2, <4>1
    <3>4. ~(j < i)
      <4>1. j < i => Rank(S, j) < Rank(S, i)
            BY <3>1, RankGrows
      <4>2. QED
            BY <3>1, <3>2, <4>1
    <3>5. QED
          BY <3>1, <3>3, <3>4
  <2> HIDE DEF f, I
  <2>3. QED
        BY <2>1, <2>2 DEF Injection, IsInjective
<1>3. /\ IsFiniteSet(page) /\ Cardinality(page) <= size
      /\ Cardinality(page) = size <=> f \in Surjection(page, I)
      BY <1>1, <1>2, FS_Injection
<1>4. Cardinality(page) \in Nat
      BY <1>3, FS_CardinalityType
<1>5. ASSUME NEW k \in S, Rank(S, k) >= start + size
      PROVE  f \in Surjection(page, I)
  <2>1. \A v \in I : \E j \in page : f[j] = v
    <3>1. SUFFICES ASSUME NEW v \in I PROVE \E j \in page : f[j] = v
          OBVIOUS
    <3>2. Rank(S, k) \in Nat
          BY RankIsNat
    <3>3. v \in 0 .. Rank(S, k)
          BY <1>5, <3>2
    <3>4. PICK j \in S : Rank(S, j) = v
          BY <3>3, RanksFilled
    <3>5. QED
          BY <3>4
  <2>2. f \in [page -> I]
        OBVIOUS
  <2> HIDE DEF f, I
  <2>3. QED
        BY <2>1, <2>2 DEF Surjection
<1>6. Cardinality(page) \in 0 .. size
      BY <1>3, <1>4
<1> HIDE DEF f, I
<1>7. QED
      BY <1>3, <1>5, <1>6

-----------------------------------------------------------------------------
\* SetToSeq of the community modules: the members of a set, in some order.
Listing(S) == CHOOSE f \in [1 .. Cardinality(S) -> S] : IsInjective(f)

\* It names each member of a finite set once.
LEMMA Listed ==
    ASSUME NEW S, IsFiniteSet(S)
    PROVE  /\ Cardinality(S) \in Nat /\ Listing(S) \in [1 .. Cardinality(S) -> S]
           /\ \A i, k \in 1 .. Cardinality(S) : Listing(S)[i] = Listing(S)[k] => i = k
           /\ \A x \in S : \E k \in 1 .. Cardinality(S) : Listing(S)[k] = x
<1> DEFINE n == Cardinality(S)
           T == {Listing(S)[k] : k \in 1 .. n}
<1>1. n \in Nat /\ ExistsBijection(1 .. n, S)
      BY FS_CardinalityType
<1>2. \E f \in [1 .. n -> S] : IsInjective(f)
      BY <1>1 DEF ExistsBijection, Bijection, Injection, IsInjective
<1>3. Listing(S) \in [1 .. n -> S] /\ IsInjective(Listing(S))
      BY <1>2 DEF Listing
<1>4. \A i, k \in 1 .. n : Listing(S)[i] = Listing(S)[k] => i = k
      BY <1>3 DEF IsInjective
<1>5. T \in SUBSET S
      BY <1>3
<1>6. Listing(S) \in Bijection(1 .. n, T)
  <2>1. Listing(S) \in [1 .. n -> T]
        BY <1>3
  <2>2. Listing(S) \in Injection(1 .. n, T)
        BY <1>4, <2>1 DEF Injection, IsInjective
  <2>3. Listing(S) \in Surjection(1 .. n, T)
        BY <2>1 DEF Surjection
  <2>4. QED
        BY <2>2, <2>3 DEF Bijection
<1>7. IsFiniteSet(1 .. n) /\ Cardinality(1 .. n) = n
      BY <1>1, FS_Interval
<1>8. IsFiniteSet(T) /\ Cardinality(T) = n
  <2> HIDE DEF T, n
  <2>1. QED
        BY <1>5, <1>6, <1>7, FS_Subset, FS_Surjection, FS_Injection DEF Bijection
<1>9. S = T
      BY <1>5, <1>8, FS_Subset
<1>10. QED
       BY <1>1, <1>3, <1>4, <1>9

-----------------------------------------------------------------------------
\* Induction over the subsets of a finite set: what holds of a set as soon as
\* it holds of all smaller ones holds of every one.
LEMMA BySize ==
    ASSUME NEW S, IsFiniteSet(S), NEW Good,
           \A T \in SUBSET S :
               (\A U \in SUBSET S : Cardinality(U) < Cardinality(T) => U \in Good) => T \in Good
    PROVE  SUBSET S \subseteq Good
<1> DEFINE Bad == {T \in SUBSET S : T \notin Good}
           size == [T \in Bad |-> Cardinality(T)]
<1>1. SUFFICES ASSUME Bad # {} PROVE FALSE
      OBVIOUS
<1>2. \A T \in SUBSET S : Cardinality(T) \in Nat
      BY FS_Subset, FS_CardinalityType
<1>3. \A T \in Bad : size[T] \in Nat
      BY <1>2
<1>4. PICK T \in Bad : \A U \in Bad : size[T] <= size[U]
  <2> HIDE DEF Bad, size
  <2>1. QED
        BY <1>1, <1>3, Smallest
<1>5. ASSUME NEW U \in SUBSET S, Cardinality(U) < Cardinality(T) PROVE U \in Good
  <2>1. Cardinality(U) \in Nat /\ Cardinality(T) \in Nat
        BY <1>2
  <2>2. U \in Bad => Cardinality(T) <= Cardinality(U)
        BY <1>4
  <2>3. QED
        BY <1>5, <2>1, <2>2
<1>6. QED
      BY <1>5

\* One element less is one less to count.
LEMMA Smaller ==
    ASSUME NEW S, IsFiniteSet(S), NEW T \in SUBSET S, NEW x \in T
    PROVE  /\ T \ {x} \in SUBSET S /\ IsFiniteSet(T)
           /\ Cardinality(T) \in Nat /\ Cardinality(T \ {x}) \in Nat
           /\ Cardinality(T \ {x}) = Cardinality(T) - 1
BY FS_Subset, FS_CardinalityType, FS_RemoveElement

\* How many come before i in the order R.
Place(R, S, i) == Cardinality({j \in S : <<j, i>> \in R})

StrictOrder(R, S) ==
    /\ \A i \in S : <<i, i>> \notin R
    /\ \A i, j, k \in S : <<i, j>> \in R /\ <<j, k>> \in R => <<i, k>> \in R
    /\ \A i, j \in S : i # j => <<i, j>> \in R \/ <<j, i>> \in R

\* In a strict order of n things the first k are k, for every k up to n.
LEMMA FirstOnes ==
    ASSUME NEW S, IsFiniteSet(S), NEW R, StrictOrder(R, S), NEW k \in 0 .. Cardinality(S),
           NEW T \in SUBSET S, \A i \in S : i \in T <=> Place(R, S, i) < k
    PROVE  /\ Cardinality(T) = k /\ IsFiniteSet(T)
           /\ \A i \in S : Place(R, S, i) \in Nat
<1> DEFINE n == Cardinality(S)
           B(i) == {j \in S : <<j, i>> \in R}
           pos == [i \in S |-> Cardinality(B(i))]
           I == 0 .. n - 1
<1>1. n \in Nat
      BY FS_CardinalityType
<1>2. ASSUME NEW i \in S PROVE IsFiniteSet(B(i)) /\ pos[i] \in Nat /\ pos[i] <= n - 1
  <2>1. B(i) \in SUBSET (S \ {i})
        BY DEF StrictOrder
  <2>2. IsFiniteSet(S \ {i}) /\ Cardinality(S \ {i}) = n - 1
        BY FS_RemoveElement
  <2>3. IsFiniteSet(B(i)) /\ Cardinality(B(i)) <= Cardinality(S \ {i})
        BY <2>1, <2>2, FS_Subset
  <2>4. Cardinality(B(i)) \in Nat
        BY <2>3, FS_CardinalityType
  <2>5. QED
        BY <2>2, <2>3, <2>4
<1>3. ASSUME NEW i \in S, NEW j \in S, <<i, j>> \in R PROVE pos[i] < pos[j]
  <2>1. B(i) \in SUBSET B(j) /\ i \in B(j) /\ i \notin B(i)
        BY <1>3 DEF StrictOrder
  <2>2. Cardinality(B(i)) <= Cardinality(B(j)) /\ Cardinality(B(i)) # Cardinality(B(j))
    <3>1. IsFiniteSet(B(j)) /\ B(i) # B(j)
          BY <1>2, <2>1
    <3>2. QED
          BY <2>1, <3>1, FS_Subset
  <2>3. pos[i] \in Nat /\ pos[j] \in Nat
        BY <1>2
  <2>4. QED
        BY <2>2, <2>3
<1>4. ASSUME NEW i \in S, NEW j \in S, pos[i] = pos[j] PROVE i = j
  <2>1. i # j => pos[i] < pos[j] \/ pos[j] < pos[i]
        BY <1>3 DEF StrictOrder
  <2>2. pos[i] \in Nat /\ pos[j] \in Nat
        BY <1>2
  <2>3. QED
        BY <1>4, <2>1, <2>2
<1>5. pos \in Injection(S, I)
  <2>1. ASSUME NEW i \in S PROVE pos[i] \in I
    <3>1. pos[i] \in Nat /\ pos[i] <= n - 1
          BY <1>2
    <3> HIDE DEF pos, n
    <3>2. QED
          BY <1>1, <3>1
  <2>2. pos = [i \in S |-> pos[i]]
        OBVIOUS
  <2> HIDE DEF pos, I
  <2>3. QED
        BY <1>4, <2>1, <2>2 DEF Injection, IsInjective
<1>6. pos \in Surjection(S, I)
  <2>1. 0 \in Int /\ n - 1 \in Int /\ (n > 0 => ~(0 > n - 1)) /\ (n = 0 => 0 > n - 1)
        BY <1>1
  <2>2. IsFiniteSet(I) /\ Cardinality(I) = n
    <3>1. IsFiniteSet(I) /\ Cardinality(I) = IF 0 > n - 1 THEN 0 ELSE (n - 1) - 0 + 1
          BY <2>1, FS_Interval
    <3>2. QED
          BY <1>1, <3>1
  <2> HIDE DEF pos, I
  <2>3. QED
        BY <1>5, <2>2, FS_Injection
<1> DEFINE J == 0 .. k - 1
           g == [i \in T |-> pos[i]]
<1>7. k \in Nat /\ k <= n /\ \A i \in S : Place(R, S, i) = pos[i]
      BY <1>1 DEF Place
<1>8. g \in Bijection(T, J)
  <2>1. \A i \in T : i \in S /\ g[i] = pos[i] /\ g[i] \in J
    <3>1. SUFFICES ASSUME NEW i \in T PROVE i \in S /\ g[i] = pos[i] /\ g[i] \in J
          OBVIOUS
    <3>2. i \in S /\ pos[i] \in Nat /\ pos[i] < k /\ g[i] = pos[i]
          BY <1>2, <1>7
    <3> HIDE DEF pos, n, g
    <3>3. QED
          BY <1>7, <3>2
  <2>2. \A v \in J : \E i \in T : g[i] = v
    <3>1. SUFFICES ASSUME NEW v \in J PROVE \E i \in T : g[i] = v
          OBVIOUS
    <3>2. v \in I /\ v < k
          BY <1>1, <1>7
    <3>3. PICK i \in S : pos[i] = v
      <4> HIDE DEF pos, I
      <4>1. QED
            BY <1>6, <3>2 DEF Surjection
    <3>4. QED
          BY <1>7, <3>2, <3>3
  <2>3. g = [i \in T |-> g[i]]
        OBVIOUS
  <2>4. \A i, j \in T : g[i] = g[j] => i = j
        BY <1>4, <2>1
  <2> HIDE DEF g, J, pos
  <2>5. g \in Injection(T, J)
        BY <2>1, <2>3, <2>4 DEF Injection, IsInjective
  <2>6. g \in Surjection(T, J)
        BY <2>1, <2>2, <2>3 DEF Surjection
  <2>7. QED
        BY <2>5, <2>6 DEF Bijection
<1>9. IsFiniteSet(J) /\ Cardinality(J) = k
  <2>1. 0 \in Int /\ k - 1 \in Int
        BY <1>7
  <2>2. IsFiniteSet(J) /\ Cardinality(J) = IF 0 > k - 1 THEN 0 ELSE (k - 1) - 0 + 1
        BY <2>1, FS_Interval
  <2>3. QED
        BY <1>7, <2>2
<1>10. IsFiniteSet(T)
       BY FS_Subset
<1>11. Cardinality(T) = k
  <2> HIDE DEF J, g
  <2>1. QED
        BY <1>8, <1>9, <1>10, FS_Surjection, FS_Injection DEF Bijection
<1>12. \A i \in S : Place(R, S, i) \in Nat
  <2> HIDE DEF pos, n, B
  <2>1. QED
        BY <1>2, <1>7
<1>13. QED
       BY <1>10, <1>11, <1>12

-----------------------------------------------------------------------------
(* SumFunctionOnSet adds up f over S in the order CHOOSE gives. *)

Picked(s) == CHOOSE x \in s : TRUE

\* The function the definition of the sum names.
IsSum(g, f, S) ==
    g = [s \in SUBSET S |-> IF s = {} THEN 0 ELSE f[Picked(s)] + g[s \ {Picked(s)}]]

LEMMA SumChosen ==
    ASSUME NEW f, NEW S
    PROVE  SumFunctionOnSet(f, S) = (CHOOSE g : IsSum(g, f, S))[S]
BY DEF SumFunctionOnSet, FoldFunctionOnSet, MapThenFoldSet, IsSum, Picked

\* One that is right for the sets of up to n elements, for ever larger n.
LEMMA SumExists ==
    ASSUME NEW S, IsFiniteSet(S), NEW f
    PROVE  \E g : IsSum(g, f, S)
<1> DEFINE Body(g, s) == IF s = {} THEN 0 ELSE f[Picked(s)] + g[s \ {Picked(s)}]
           Right(g, n) == \A s \in SUBSET S : Cardinality(s) <= n => g[s] = Body(g, s)
           Good == {T \in SUBSET S : \E g : g = [s \in SUBSET S |-> g[s]] /\ Right(g, Cardinality(T))}
<1>1. ASSUME NEW s \in SUBSET S, s # {}
      PROVE  /\ Picked(s) \in s /\ s \ {Picked(s)} \in SUBSET S
             /\ Cardinality(s) \in Nat /\ Cardinality(s \ {Picked(s)}) = Cardinality(s) - 1
  <2>1. Picked(s) \in s
        BY <1>1 DEF Picked
  <2>2. QED
        BY <2>1, Smaller
<1>2. \A T \in SUBSET S : Cardinality(T) \in Nat
      BY FS_Subset, FS_CardinalityType
<1>3. ASSUME NEW T \in SUBSET S,
             \A U \in SUBSET S : Cardinality(U) < Cardinality(T) => U \in Good
      PROVE  T \in Good
  <2>1. CASE T = {}
    <3> DEFINE g == [s \in SUBSET S |-> 0]
    <3>1. Cardinality(T) = 0
          BY <2>1, FS_EmptySet
    <3>2. \A s \in SUBSET S : Cardinality(s) <= 0 => s = {}
      <4>1. \A s \in SUBSET S : s # {} => Cardinality(s) - 1 \in Nat /\ Cardinality(s) \in Nat
            BY <1>1, <1>2
      <4>2. QED
            BY <4>1
    <3>3. Right(g, Cardinality(T)) 
          BY <3>1, <3>2
    <3>4. QED
          BY <3>3
  <2>2. CASE T # {}
    <3> DEFINE n == Cardinality(T)
    <3>1. n \in Nat
          BY <1>2
    <3>2. PICK g : Right(g, n - 1)
      <4> DEFINE U == T \ {Picked(T)}
      <4>1. U \in SUBSET S /\ Cardinality(U) = n - 1
            BY <1>1, <2>2
      <4>2. U \in Good
        <5>1. U \in SUBSET S /\ Cardinality(U) < Cardinality(T)
              BY <3>1, <4>1
        <5> HIDE DEF Good, U
        <5>2. QED
              BY <1>3, <5>1
      <4>3. \E g : Right(g, Cardinality(U))
            BY <4>2
      <4>4. QED
            BY <4>1, <4>3
    <3> DEFINE h == [s \in SUBSET S |-> Body(g, s)]
    <3>3. ASSUME NEW s \in SUBSET S, Cardinality(s) <= n PROVE h[s] = Body(h, s)
      <4>1. CASE s = {}
            BY <4>1
      <4>2. CASE s # {}
        <5> DEFINE u == s \ {Picked(s)}
        <5>1. u \in SUBSET S /\ Cardinality(u) <= n - 1
              BY <1>1, <3>1, <3>3, <4>2
        <5>2. g[u] = Body(g, u)
              BY <3>2, <5>1
        <5>3. h[u] = Body(g, u)
              BY <5>1
        <5>4. h[s] = f[Picked(s)] + g[u]
              BY <4>2
        <5>5. Body(h, s) = f[Picked(s)] + h[u]
              BY <4>2
        <5>6. QED
              BY <5>2, <5>3, <5>4, <5>5
      <4>3. QED
            BY <4>1, <4>2
    <3>4. Right(h, n) /\ h = [s \in SUBSET S |-> h[s]]
          BY <3>3
    <3>5. QED
          BY <3>4
  <2>3. QED
        BY <2>1, <2>2
<1>4. S \in Good
  <2> HIDE DEF Good
  <2>1. QED
        BY <1>3, BySize
<1>5. PICK g : g = [s \in SUBSET S |-> g[s]] /\ Right(g, Cardinality(S))
      BY <1>4
<1>6. \A s \in SUBSET S : Cardinality(s) <= Cardinality(S)
      BY FS_Subset
<1>7. IsSum(g, f, S)
      BY <1>5, <1>6 DEF IsSum
<1>8. QED
      BY <1>7

\* On a part of the set it is what it would be for that part alone.
LEMMA SumAgrees ==
    ASSUME NEW S, IsFiniteSet(S), NEW f, NEW T \in SUBSET S, NEW g, NEW h,
           IsSum(g, f, S), IsSum(h, f, T)
    PROVE  \A s \in SUBSET T : g[s] = h[s]
<1> DEFINE Good == {s \in SUBSET T : g[s] = h[s]}
<1>1. IsFiniteSet(T)
      BY FS_Subset
<1>2. ASSUME NEW s \in SUBSET T,
             \A u \in SUBSET T : Cardinality(u) < Cardinality(s) => u \in Good
      PROVE  s \in Good
  <2>1. s \in SUBSET S
        OBVIOUS
  <2>2. g[s] = IF s = {} THEN 0 ELSE f[Picked(s)] + g[s \ {Picked(s)}]
        BY <2>1 DEF IsSum
  <2>3. h[s] = IF s = {} THEN 0 ELSE f[Picked(s)] + h[s \ {Picked(s)}]
        BY DEF IsSum
  <2>4. s # {} => g[s \ {Picked(s)}] = h[s \ {Picked(s)}]
    <3>1. SUFFICES ASSUME s # {} PROVE s \ {Picked(s)} \in Good
          OBVIOUS
    <3>2. Picked(s) \in s
          BY <3>1 DEF Picked
    <3>3. QED
          BY <1>1, <1>2, <3>2, Smaller
  <2>5. QED
        BY <2>2, <2>3, <2>4
<1>3. SUBSET T \subseteq Good
  <2> HIDE DEF Good
  <2>1. QED
        BY <1>1, <1>2, BySize
<1>4. QED
      BY <1>3

\* The sum is made of one element and the sum of the others.
LEMMA SumUnfold ==
    ASSUME NEW S, IsFiniteSet(S), NEW f
    PROVE  SumFunctionOnSet(f, S) =
             IF S = {} THEN 0 ELSE f[Picked(S)] + SumFunctionOnSet(f, S \ {Picked(S)})
<1> DEFINE T == S \ {Picked(S)}
           g == CHOOSE x : IsSum(x, f, S)
           h == CHOOSE x : IsSum(x, f, T)
<1>1. IsFiniteSet(T) /\ T \in SUBSET S
      BY FS_Subset
<1>2. IsSum(g, f, S)
      BY SumExists
<1>3. IsSum(h, f, T)
      BY <1>1, SumExists
<1>4. SumFunctionOnSet(f, S) = g[S] /\ SumFunctionOnSet(f, T) = h[T]
      BY SumChosen
<1> HIDE DEF T, g, h
<1>5. g[T] = h[T]
      BY <1>1, <1>2, <1>3, SumAgrees
<1>6. g[S] = IF S = {} THEN 0 ELSE f[Picked(S)] + g[T]
      BY <1>2 DEF IsSum, T
<1>7. QED
      BY <1>4, <1>5, <1>6 DEF T

\* The sum of numbers is a number.
LEMMA SumIsInt ==
    ASSUME NEW S, IsFiniteSet(S), NEW f, \A x \in S : f[x] \in Int
    PROVE  SumFunctionOnSet(f, S) \in Int
<1> DEFINE Good == {T \in SUBSET S : SumFunctionOnSet(f, T) \in Int}
<1>1. ASSUME NEW T \in SUBSET S,
             \A U \in SUBSET S : Cardinality(U) < Cardinality(T) => U \in Good
      PROVE  T \in Good
  <2>1. SumFunctionOnSet(f, T) =
             IF T = {} THEN 0 ELSE f[Picked(T)] + SumFunctionOnSet(f, T \ {Picked(T)})
        BY SumUnfold, FS_Subset
  <2>2. T # {} => f[Picked(T)] \in Int /\ SumFunctionOnSet(f, T \ {Picked(T)}) \in Int
    <3>1. SUFFICES ASSUME T # {}
                   PROVE f[Picked(T)] \in Int /\ T \ {Picked(T)} \in Good
          OBVIOUS
    <3>2. Picked(T) \in T
          BY <3>1 DEF Picked
    <3>3. QED
          BY <1>1, <3>2, Smaller
  <2>3. QED
        BY <2>1, <2>2
<1>2. SUBSET S \subseteq Good
  <2> HIDE DEF Good
  <2>1. QED
        BY <1>1, BySize
<1>3. QED
      BY <1>2

\* Whichever element is taken out.
LEMMA SumSplit ==
    ASSUME NEW S, IsFiniteSet(S), NEW f, \A y \in S : f[y] \in Int, NEW x \in S
    PROVE  SumFunctionOnSet(f, S) = f[x] + SumFunctionOnSet(f, S \ {x})
<1> DEFINE Sum(T) == SumFunctionOnSet(f, T)
           Good == {T \in SUBSET S : \A y \in T : Sum(T) = f[y] + Sum(T \ {y})}
<1>1. \A T \in SUBSET S : IsFiniteSet(T) /\ Sum(T) \in Int
      BY SumIsInt, FS_Subset
<1>2. ASSUME NEW T \in SUBSET S,
             \A U \in SUBSET S : Cardinality(U) < Cardinality(T) => U \in Good
      PROVE  T \in Good
  <2>1. SUFFICES ASSUME NEW y \in T PROVE Sum(T) = f[y] + Sum(T \ {y})
        OBVIOUS
  <2> DEFINE p == Picked(T)
  <2>2. p \in T
        BY DEF Picked
  <2>3. Sum(T) = f[p] + Sum(T \ {p})
    <3>1. IsFiniteSet(T) /\ T # {}
          BY <1>1
    <3>2. QED
          BY <3>1, SumUnfold
  <2> HIDE DEF p
  <2>4. CASE y = p
        BY <2>3, <2>4
  <2>5. CASE y # p
    <3>1. T \ {p} \in Good /\ T \ {y} \in Good
          BY <1>2, <2>2, Smaller
    <3>2. y \in T \ {p} /\ p \in T \ {y}
          BY <2>2, <2>5
    <3>3. (T \ {p}) \ {y} = T \ {p, y} /\ (T \ {y}) \ {p} = T \ {p, y}
          OBVIOUS
    <3>4. Sum(T \ {p}) = f[y] + Sum(T \ {p, y}) /\ Sum(T \ {y}) = f[p] + Sum(T \ {p, y})
          BY <3>1, <3>2, <3>3
    <3>5. f[p] \in Int /\ f[y] \in Int /\ Sum(T \ {p, y}) \in Int
      <4>1. T \ {p, y} \in SUBSET S
            OBVIOUS
      <4>2. QED
            BY <1>1, <2>2, <4>1
    <3> HIDE DEF Sum
    <3>6. QED
          BY <2>3, <3>4, <3>5
  <2>6. QED
        BY <2>4, <2>5
<1>3. SUBSET S \subseteq Good
  <2> HIDE DEF Good
  <2>1. QED
        BY <1>2, BySize
<1>4. QED
      BY <1>3

\* Induction one element at a time.
LEMMA ByElement ==
    ASSUME NEW S, IsFiniteSet(S), NEW Good, {} \in Good,
           \A T \in SUBSET S : T \in Good => \A x \in S \ T : T \cup {x} \in Good
    PROVE  S \in Good
<1>1. ASSUME NEW T \in SUBSET S,
             \A U \in SUBSET S : Cardinality(U) < Cardinality(T) => U \in Good
      PROVE  T \in Good
  <2>1. CASE T = {}
        BY <2>1
  <2>2. CASE T # {}
    <3>1. PICK x \in T : TRUE
          BY <2>2
    <3>2. T \ {x} \in Good
          BY <1>1, Smaller
    <3>3. T \ {x} \in SUBSET S /\ x \in S \ (T \ {x}) /\ (T \ {x}) \cup {x} = T
          OBVIOUS
    <3>4. QED
          BY <3>2, <3>3
  <2>3. QED
        BY <2>1, <2>2
<1>2. QED
      BY <1>1, BySize

LEMMA SumEmpty == ASSUME NEW f PROVE SumFunctionOnSet(f, {}) = 0
BY SumUnfold, FS_EmptySet

LEMMA SumAdd ==
    ASSUME NEW S, IsFiniteSet(S), NEW x, x \notin S, NEW f, \A y \in S \cup {x} : f[y] \in Int
    PROVE  SumFunctionOnSet(f, S \cup {x}) = f[x] + SumFunctionOnSet(f, S)
<1>1. IsFiniteSet(S \cup {x}) /\ (S \cup {x}) \ {x} = S
      BY FS_AddElement
<1>2. QED
      BY <1>1, SumSplit

\* A function that is the sum of two, or one that equals another, as the case
\* of a sum with nothing.
LEMMA SumPlus ==
    ASSUME NEW S, IsFiniteSet(S), NEW f, NEW g, NEW h,
           \A x \in S : f[x] \in Int /\ g[x] \in Int /\ h[x] = f[x] + g[x]
    PROVE  SumFunctionOnSet(h, S) = SumFunctionOnSet(f, S) + SumFunctionOnSet(g, S)
<1> DEFINE Good == {T \in SUBSET S :
                      SumFunctionOnSet(h, T) = SumFunctionOnSet(f, T) + SumFunctionOnSet(g, T)}
<1>1. \A T \in SUBSET S : /\ IsFiniteSet(T) /\ SumFunctionOnSet(h, T) \in Int
                          /\ SumFunctionOnSet(f, T) \in Int /\ SumFunctionOnSet(g, T) \in Int
      BY SumIsInt, FS_Subset
<1>2. {} \in Good
      BY SumEmpty
<1>3. ASSUME NEW T \in SUBSET S, T \in Good, NEW x \in S \ T PROVE T \cup {x} \in Good
  <2>1. /\ SumFunctionOnSet(h, T \cup {x}) = h[x] + SumFunctionOnSet(h, T)
        /\ SumFunctionOnSet(f, T \cup {x}) = f[x] + SumFunctionOnSet(f, T)
        /\ SumFunctionOnSet(g, T \cup {x}) = g[x] + SumFunctionOnSet(g, T)
    <3>1. IsFiniteSet(T) /\ x \notin T
          BY <1>1
    <3>2. \A y \in T \cup {x} : f[y] \in Int /\ g[y] \in Int /\ h[y] \in Int
          OBVIOUS
    <3>3. QED
          BY <3>1, <3>2, SumAdd
  <2>2. SumFunctionOnSet(h, T) = SumFunctionOnSet(f, T) + SumFunctionOnSet(g, T)
        BY <1>3
  <2>3. QED
        BY <1>1, <2>1, <2>2
<1>4. S \in Good
  <2> HIDE DEF Good
  <2>1. QED
        BY <1>2, <1>3, ByElement
<1>5. QED
      BY <1>4

LEMMA SumSame ==
    ASSUME NEW S, IsFiniteSet(S), NEW f, NEW g, \A x \in S : f[x] = g[x]
    PROVE  SumFunctionOnSet(f, S) = SumFunctionOnSet(g, S)
<1> DEFINE Good == {T \in SUBSET S : SumFunctionOnSet(f, T) = SumFunctionOnSet(g, T)}
<1>1. ASSUME NEW T \in SUBSET S,
             \A U \in SUBSET S : Cardinality(U) < Cardinality(T) => U \in Good
      PROVE  T \in Good
  <2>1. /\ SumFunctionOnSet(f, T) =
             IF T = {} THEN 0 ELSE f[Picked(T)] + SumFunctionOnSet(f, T \ {Picked(T)})
        /\ SumFunctionOnSet(g, T) =
             IF T = {} THEN 0 ELSE g[Picked(T)] + SumFunctionOnSet(g, T \ {Picked(T)})
        BY SumUnfold, FS_Subset
  <2>2. T # {} => /\ f[Picked(T)] = g[Picked(T)]
                  /\ T \ {Picked(T)} \in Good
    <3>1. SUFFICES ASSUME T # {}
                   PROVE f[Picked(T)] = g[Picked(T)] /\ T \ {Picked(T)} \in Good
          OBVIOUS
    <3>2. Picked(T) \in T
          BY <3>1 DEF Picked
    <3>3. QED
          BY <1>1, <3>2, Smaller
  <2>3. QED
        BY <2>1, <2>2
<1>2. SUBSET S \subseteq Good
  <2> HIDE DEF Good
  <2>1. QED
        BY <1>1, BySize
<1>3. QED
      BY <1>2

LEMMA Distributes == \A a, b, c \in Int : c * (a + b) = c * a + c * b
OBVIOUS

LEMMA SumScale ==
    ASSUME NEW S, IsFiniteSet(S), NEW c \in Int, NEW f, NEW h,
           \A x \in S : f[x] \in Int /\ h[x] = c * f[x]
    PROVE  SumFunctionOnSet(h, S) = c * SumFunctionOnSet(f, S)
<1> DEFINE Good == {T \in SUBSET S : SumFunctionOnSet(h, T) = c * SumFunctionOnSet(f, T)}
<1>1. \A x \in S : h[x] \in Int
      OBVIOUS
<1>2. \A T \in SUBSET S : /\ IsFiniteSet(T) /\ SumFunctionOnSet(h, T) \in Int
                          /\ SumFunctionOnSet(f, T) \in Int
      BY <1>1, SumIsInt, FS_Subset
<1>3. {} \in Good
      BY SumEmpty
<1>4. ASSUME NEW T \in SUBSET S, T \in Good, NEW x \in S \ T PROVE T \cup {x} \in Good
  <2>1. /\ SumFunctionOnSet(h, T \cup {x}) = h[x] + SumFunctionOnSet(h, T)
        /\ SumFunctionOnSet(f, T \cup {x}) = f[x] + SumFunctionOnSet(f, T)
    <3>1. IsFiniteSet(T) /\ x \notin T
          BY <1>2
    <3>2. \A y \in T \cup {x} : f[y] \in Int /\ h[y] \in Int
          BY <1>1
    <3>3. QED
          BY <3>1, <3>2, SumAdd
  <2>2. SumFunctionOnSet(h, T) = c * SumFunctionOnSet(f, T)
        BY <1>4
  <2>3. SumFunctionOnSet(h, T \cup {x}) = c * f[x] + c * SumFunctionOnSet(f, T)
        BY <2>1, <2>2
  <2>4. c * SumFunctionOnSet(f, T \cup {x}) = c * f[x] + c * SumFunctionOnSet(f, T)
        BY <1>2, <2>1, Distributes
  <2>5. QED
        BY <2>3, <2>4
<1>5. S \in Good
  <2> HIDE DEF Good
  <2>1. QED
        BY <1>3, <1>4, ByElement
<1>6. QED
      BY <1>5

LEMMA SumUnion ==
    ASSUME NEW S, IsFiniteSet(S), NEW R, IsFiniteSet(R), S \cap R = {}, NEW f,
           \A x \in S \cup R : f[x] \in Int
    PROVE  SumFunctionOnSet(f, S \cup R) = SumFunctionOnSet(f, S) + SumFunctionOnSet(f, R)
<1> DEFINE Good == {T \in SUBSET S :
                      SumFunctionOnSet(f, T \cup R) = SumFunctionOnSet(f, T) + SumFunctionOnSet(f, R)}
<1>1. \A T \in SUBSET S : /\ IsFiniteSet(T) /\ SumFunctionOnSet(f, T) \in Int
                          /\ IsFiniteSet(T \cup R) /\ SumFunctionOnSet(f, T \cup R) \in Int
      BY SumIsInt, FS_Subset, FS_Union
<1>2. SumFunctionOnSet(f, R) \in Int
      BY SumIsInt
<1>3. {} \in Good
  <2>1. {} \cup R = R
        OBVIOUS
  <2>2. QED
        BY <1>2, <2>1, SumEmpty
<1>4. ASSUME NEW T \in SUBSET S, T \in Good, NEW x \in S \ T PROVE T \cup {x} \in Good
  <2>1. SumFunctionOnSet(f, T \cup {x}) = f[x] + SumFunctionOnSet(f, T)
    <3>1. IsFiniteSet(T) /\ x \notin T /\ \A y \in T \cup {x} : f[y] \in Int
          BY <1>1
    <3>2. QED
          BY <3>1, SumAdd
  <2>2. SumFunctionOnSet(f, (T \cup R) \cup {x}) = f[x] + SumFunctionOnSet(f, T \cup R)
    <3>1. IsFiniteSet(T \cup R) /\ x \notin T \cup R /\ \A y \in (T \cup R) \cup {x} : f[y] \in Int
          BY <1>1
    <3>2. QED
          BY <3>1, SumAdd
  <2>3. (T \cup R) \cup {x} = (T \cup {x}) \cup R /\ T \cup {x} \in SUBSET S /\ f[x] \in Int
        OBVIOUS
  <2>4. SumFunctionOnSet(f, T \cup R) = SumFunctionOnSet(f, T) + SumFunctionOnSet(f, R)
        BY <1>4
  <2>5. SumFunctionOnSet(f, (T \cup {x}) \cup R)
          = SumFunctionOnSet(f, T \cup {x}) + SumFunctionOnSet(f, R)
    <3>1. /\ SumFunctionOnSet(f, T) \in Int /\ SumFunctionOnSet(f, T \cup R) \in Int
          /\ f[x] \in Int /\ SumFunctionOnSet(f, R) \in Int
          BY <1>1, <1>2, <2>3
    <3>2. SumFunctionOnSet(f, (T \cup {x}) \cup R) = f[x] + SumFunctionOnSet(f, T \cup R)
          BY <2>2, <2>3
    <3>3. QED
          BY <2>1, <2>4, <3>1, <3>2
  <2>6. QED
        BY <2>3, <2>5
<1>5. S \in Good
  <2> HIDE DEF Good
  <2>1. QED
        BY <1>3, <1>4, ByElement
<1>6. QED
      BY <1>5

\* What is nothing does not count.
LEMMA SumZero ==
    ASSUME NEW S, IsFiniteSet(S), NEW f, \A x \in S : f[x] = 0
    PROVE  SumFunctionOnSet(f, S) = 0
<1> DEFINE g == [x \in S |-> 0]
<1>1. \A x \in S : f[x] \in Int /\ g[x] \in Int /\ f[x] = f[x] + g[x] /\ f[x] = g[x]
      OBVIOUS
<1> HIDE DEF g
<1>2. SumFunctionOnSet(f, S) = SumFunctionOnSet(f, S) + SumFunctionOnSet(g, S)
      BY <1>1, SumPlus
<1>3. SumFunctionOnSet(f, S) = SumFunctionOnSet(g, S)
      BY <1>1, SumSame
<1>4. SumFunctionOnSet(f, S) \in Int
      BY <1>1, SumIsInt
<1>5. \A a \in Int : a = a + a => a = 0
      OBVIOUS
<1>6. QED
      BY <1>2, <1>3, <1>4, <1>5

LEMMA SumOfPart ==
    ASSUME NEW S, IsFiniteSet(S), NEW T \in SUBSET S, NEW f, \A x \in S : f[x] \in Int,
           \A x \in S \ T : f[x] = 0
    PROVE  SumFunctionOnSet(f, S) = SumFunctionOnSet(f, T)
<1>1. IsFiniteSet(T) /\ IsFiniteSet(S \ T) /\ T \cup (S \ T) = S /\ T \cap (S \ T) = {}
      BY FS_Subset
<1>2. SumFunctionOnSet(f, S) = SumFunctionOnSet(f, T) + SumFunctionOnSet(f, S \ T)
      BY <1>1, SumUnion
<1>3. SumFunctionOnSet(f, S \ T) = 0
      BY <1>1, SumZero
<1>4. SumFunctionOnSet(f, T) \in Int
      BY <1>1, SumIsInt
<1>5. QED
      BY <1>2, <1>3, <1>4

LEMMA SumNat ==
    ASSUME NEW S, IsFiniteSet(S), NEW f, \A x \in S : f[x] \in Nat
    PROVE  SumFunctionOnSet(f, S) \in Nat
<1> DEFINE Good == {T \in SUBSET S : SumFunctionOnSet(f, T) \in Nat}
<1>1. {} \in Good
      BY SumEmpty
<1>2. ASSUME NEW T \in SUBSET S, T \in Good, NEW x \in S \ T PROVE T \cup {x} \in Good
  <2>1. IsFiniteSet(T) /\ x \notin T /\ \A y \in T \cup {x} : f[y] \in Int
        BY FS_Subset
  <2>2. SumFunctionOnSet(f, T \cup {x}) = f[x] + SumFunctionOnSet(f, T)
        BY <2>1, SumAdd
  <2>3. QED
        BY <1>2, <2>2
<1>3. S \in Good
  <2> HIDE DEF Good
  <2>1. QED
        BY <1>1, <1>2, ByElement
<1>4. QED
      BY <1>3

LEMMA SumAtLeast ==
    ASSUME NEW S, IsFiniteSet(S), NEW f, \A y \in S : f[y] \in Nat, NEW x \in S
    PROVE  f[x] <= SumFunctionOnSet(f, S)
<1>1. IsFiniteSet(S \ {x}) /\ SumFunctionOnSet(f, S \ {x}) \in Nat
      BY FS_Subset, SumNat
<1>2. SumFunctionOnSet(f, S) = f[x] + SumFunctionOnSet(f, S \ {x})
      BY SumSplit
<1>3. QED
      BY <1>1, <1>2

LEMMA SumLeq ==
    ASSUME NEW S, IsFiniteSet(S), NEW f, NEW g,
           \A x \in S : f[x] \in Int /\ g[x] \in Int /\ f[x] <= g[x]
    PROVE  SumFunctionOnSet(f, S) <= SumFunctionOnSet(g, S)
<1> DEFINE h == [x \in S |-> g[x] - f[x]]
<1>1. \A x \in S : h[x] \in Nat /\ h[x] \in Int /\ g[x] = f[x] + h[x]
      OBVIOUS
<1> HIDE DEF h
<1>2. SumFunctionOnSet(g, S) = SumFunctionOnSet(f, S) + SumFunctionOnSet(h, S)
      BY <1>1, SumPlus
<1>3. SumFunctionOnSet(h, S) \in Nat /\ SumFunctionOnSet(f, S) \in Int
      BY <1>1, SumNat, SumIsInt
<1>4. QED
      BY <1>2, <1>3

\* One term changes.
LEMMA SumChanged ==
    ASSUME NEW S, IsFiniteSet(S), NEW f, NEW g, NEW y \in S,
           \A x \in S : f[x] \in Int /\ g[x] \in Int,
           \A x \in S \ {y} : g[x] = f[x]
    PROVE  SumFunctionOnSet(g, S) = SumFunctionOnSet(f, S) - f[y] + g[y]
<1>1. IsFiniteSet(S \ {y})
      BY FS_RemoveElement
<1>2. /\ SumFunctionOnSet(f, S) = f[y] + SumFunctionOnSet(f, S \ {y})
      /\ SumFunctionOnSet(g, S) = g[y] + SumFunctionOnSet(g, S \ {y})
      BY SumSplit
<1>3. SumFunctionOnSet(g, S \ {y}) = SumFunctionOnSet(f, S \ {y})
      BY <1>1, SumSame
<1>4. SumFunctionOnSet(f, S \ {y}) \in Int
      BY <1>1, SumIsInt
<1>5. QED
      BY <1>2, <1>3, <1>4

\* One term is added.
LEMMA SumGrows ==
    ASSUME NEW S, IsFiniteSet(S), NEW n, n \notin S, NEW f, NEW g,
           \A x \in S : f[x] \in Int /\ g[x] = f[x], g[n] \in Int
    PROVE  SumFunctionOnSet(g, S \cup {n}) = SumFunctionOnSet(f, S) + g[n]
<1>1. SumFunctionOnSet(g, S \cup {n}) = g[n] + SumFunctionOnSet(g, S)
      BY SumAdd
<1>2. SumFunctionOnSet(g, S) = SumFunctionOnSet(f, S)
      BY SumSame
<1>3. SumFunctionOnSet(f, S) \in Int
      BY SumIsInt
<1>4. QED
      BY <1>1, <1>2, <1>3

\* Adding ones is counting.
LEMMA SumOnes ==
    ASSUME NEW S, IsFiniteSet(S), NEW f, \A x \in S : f[x] = 1
    PROVE  SumFunctionOnSet(f, S) = Cardinality(S)
<1> DEFINE Good == {T \in SUBSET S : SumFunctionOnSet(f, T) = Cardinality(T)}
<1>1. {} \in Good
      BY SumEmpty, FS_EmptySet
<1>2. ASSUME NEW T \in SUBSET S, T \in Good, NEW x \in S \ T PROVE T \cup {x} \in Good
  <2>1. IsFiniteSet(T) /\ x \notin T /\ \A y \in T \cup {x} : f[y] \in Int
        BY FS_Subset
  <2>2. SumFunctionOnSet(f, T \cup {x}) = f[x] + SumFunctionOnSet(f, T)
        BY <2>1, SumAdd
  <2>3. Cardinality(T \cup {x}) = Cardinality(T) + 1 /\ Cardinality(T) \in Nat
        BY <2>1, FS_AddElement, FS_CardinalityType
  <2>4. QED
        BY <1>2, <2>2, <2>3
<1>3. S \in Good
  <2> HIDE DEF Good
  <2>1. QED
        BY <1>1, <1>2, ByElement
<1>4. QED
      BY <1>3

\* By rows and by columns.
Column(S, F, y) == [x \in S |-> F[x][y]]

LEMMA SumSwap ==
    ASSUME NEW S, IsFiniteSet(S), NEW R, IsFiniteSet(R), NEW F, NEW h, NEW k,
           \A x \in S, y \in R : F[x][y] \in Int,
           \A x \in S : h[x] = SumFunctionOnSet(F[x], R),
           \A y \in R : k[y] = SumFunctionOnSet(Column(S, F, y), S)
    PROVE  SumFunctionOnSet(h, S) = SumFunctionOnSet(k, R)
<1> DEFINE col(y) == [x \in S |-> F[x][y]]
           k2(T) == [y \in R |-> SumFunctionOnSet(col(y), T)]
           Good == {T \in SUBSET S : SumFunctionOnSet(h, T) = SumFunctionOnSet(k2(T), R)}
<1>1. \A T \in SUBSET S : IsFiniteSet(T)
      BY FS_Subset
<1>2. \A x \in S : h[x] \in Int
      BY SumIsInt
<1>3. {} \in Good
  <2>1. \A y \in R : k2({})[y] = 0
        BY SumEmpty
  <2>2. SumFunctionOnSet(k2({}), R) = 0
    <3> HIDE DEF k2
    <3>1. QED
          BY <2>1, SumZero
  <2>3. SumFunctionOnSet(h, {}) = 0
        BY SumEmpty
  <2>4. QED
        BY <2>2, <2>3
<1>4. ASSUME NEW T \in SUBSET S, T \in Good, NEW x \in S \ T PROVE T \cup {x} \in Good
  <2> DEFINE U == T \cup {x}
  <2>1. IsFiniteSet(T) /\ x \notin T /\ U \in SUBSET S
        BY <1>1
  <2>2. SumFunctionOnSet(h, U) = h[x] + SumFunctionOnSet(h, T)
        BY <1>2, <2>1, SumAdd
  <2>3. ASSUME NEW y \in R
        PROVE  k2(T)[y] \in Int /\ F[x][y] \in Int /\ k2(U)[y] = F[x][y] + k2(T)[y]
    <3>1. \A z \in U : col(y)[z] = F[z][y] /\ col(y)[z] \in Int
          BY <2>1
    <3>2. SumFunctionOnSet(col(y), T) \in Int
      <4> HIDE DEF col
      <4>1. QED
            BY <2>1, <3>1, SumIsInt
    <3>3. SumFunctionOnSet(col(y), T \cup {x}) = col(y)[x] + SumFunctionOnSet(col(y), T)
      <4> HIDE DEF col
      <4>1. QED
            BY <2>1, <3>1, SumAdd
    <3>4. QED
          BY <3>1, <3>2, <3>3
  <2>4. SumFunctionOnSet(k2(U), R) = SumFunctionOnSet(F[x], R) + SumFunctionOnSet(k2(T), R)
    <3> HIDE DEF k2, U
    <3>1. QED
          BY <2>3, SumPlus
  <2>5. SumFunctionOnSet(h, U) = SumFunctionOnSet(k2(U), R)
    <3>1. h[x] = SumFunctionOnSet(F[x], R)
          OBVIOUS
    <3>2. SumFunctionOnSet(h, T) = SumFunctionOnSet(k2(T), R)
          BY <1>4
    <3> HIDE DEF k2, U
    <3>3. QED
          BY <2>2, <2>4, <3>1, <3>2
  <2>6. QED
        BY <2>1, <2>5
<1>5. S \in Good
  <2> HIDE DEF Good
  <2>1. QED
        BY <1>3, <1>4, ByElement
<1>6. SumFunctionOnSet(k2(S), R) = SumFunctionOnSet(k, R)
  <2>1. \A y \in R : k2(S)[y] = k[y]
        BY DEF Column
  <2> HIDE DEF k2
  <2>2. QED
        BY <2>1, SumSame
<1>7. QED
      BY <1>5, <1>6

\* Sorted by a key, and then added up.
OfKey(S, key, k) == {x \in S : key[x] = k}

LEMMA SumByKey ==
    ASSUME NEW S, IsFiniteSet(S), NEW K, IsFiniteSet(K), NEW f, \A x \in S : f[x] \in Int,
           NEW key, \A x \in S : key[x] \in K, NEW h,
           \A k \in K : h[k] = SumFunctionOnSet(f, OfKey(S, key, k))
    PROVE  SumFunctionOnSet(f, S) = SumFunctionOnSet(h, K)
<1> DEFINE Of(T, k) == {x \in T : key[x] = k}
           h2(T) == [k \in K |-> SumFunctionOnSet(f, Of(T, k))]
           Good == {T \in SUBSET S : SumFunctionOnSet(f, T) = SumFunctionOnSet(h2(T), K)}
<1>1. \A T \in SUBSET S : IsFiniteSet(T) /\ \A k \in K : IsFiniteSet(Of(T, k))
      BY FS_Subset
<1>2. \A T \in SUBSET S : \A k \in K : h2(T)[k] \in Int
  <2>1. SUFFICES ASSUME NEW T \in SUBSET S, NEW k \in K PROVE SumFunctionOnSet(f, Of(T, k)) \in Int
        OBVIOUS
  <2>2. \A x \in Of(T, k) : f[x] \in Int
        OBVIOUS
  <2>3. QED
        BY <1>1, <2>2, SumIsInt
<1>3. {} \in Good
  <2>1. \A k \in K : h2({})[k] = 0
    <3>1. \A k \in K : Of({}, k) = {}
          OBVIOUS
    <3>2. QED
          BY <3>1, SumEmpty
  <2>2. SumFunctionOnSet(h2({}), K) = 0
    <3> HIDE DEF h2
    <3>1. QED
          BY <2>1, SumZero
  <2>3. SumFunctionOnSet(f, {}) = 0
        BY SumEmpty
  <2>4. QED
        BY <2>2, <2>3
<1>4. ASSUME NEW T \in SUBSET S, T \in Good, NEW x \in S \ T PROVE T \cup {x} \in Good
  <2> DEFINE U == T \cup {x}
             c == key[x]
  <2>1. IsFiniteSet(T) /\ x \notin T /\ U \in SUBSET S /\ T \in SUBSET S /\ c \in K /\ f[x] \in Int
        BY <1>1
  <2>2. SumFunctionOnSet(f, U) = f[x] + SumFunctionOnSet(f, T)
    <3>1. \A y \in T \cup {x} : f[y] \in Int
          OBVIOUS
    <3>2. QED
          BY <2>1, <3>1, SumAdd
  <2>3. \A k \in K \ {c} : h2(U)[k] = h2(T)[k]
    <3>1. \A k \in K \ {c} : Of(U, k) = Of(T, k)
          OBVIOUS
    <3>2. QED
          BY <3>1
  <2>4. h2(U)[c] = f[x] + h2(T)[c]
    <3>1. Of(U, c) = Of(T, c) \cup {x}
          OBVIOUS
    <3>2. x \notin Of(T, c) /\ \A y \in Of(T, c) \cup {x} : f[y] \in Int
          BY <2>1
    <3>3. IsFiniteSet(Of(T, c))
          BY <1>1, <2>1
    <3>4. SumFunctionOnSet(f, Of(T, c) \cup {x}) = f[x] + SumFunctionOnSet(f, Of(T, c))
      <4> HIDE DEF Of
      <4>1. QED
            BY <3>2, <3>3, SumAdd
    <3>5. QED
          BY <2>1, <3>1, <3>4
  <2>5. SumFunctionOnSet(h2(U), K) = f[x] + SumFunctionOnSet(h2(T), K)
    <3>1. /\ \A k \in K : h2(U)[k] \in Int /\ h2(T)[k] \in Int
          BY <1>2, <2>1
    <3> HIDE DEF h2, U, c
    <3>2. /\ SumFunctionOnSet(h2(U), K) = h2(U)[c] + SumFunctionOnSet(h2(U), K \ {c})
          /\ SumFunctionOnSet(h2(T), K) = h2(T)[c] + SumFunctionOnSet(h2(T), K \ {c})
          BY <2>1, <3>1, SumSplit
    <3>3. IsFiniteSet(K \ {c}) /\ SumFunctionOnSet(h2(T), K \ {c}) \in Int
          BY <3>1, FS_Subset, SumIsInt
    <3>4. SumFunctionOnSet(h2(U), K \ {c}) = SumFunctionOnSet(h2(T), K \ {c})
          BY <2>3, <3>3, SumSame
    <3>5. QED
          BY <2>1, <2>4, <3>1, <3>2, <3>3, <3>4
  <2>6. SumFunctionOnSet(f, T) = SumFunctionOnSet(h2(T), K)
        BY <1>4
  <2>7. SumFunctionOnSet(f, U) = SumFunctionOnSet(h2(U), K)
        BY <2>2, <2>5, <2>6
  <2>8. QED
        BY <2>1, <2>7
<1>5. S \in Good
  <2> HIDE DEF Good
  <2>1. QED
        BY <1>3, <1>4, ByElement
<1>6. SumFunctionOnSet(h2(S), K) = SumFunctionOnSet(h, K)
  <2>1. \A k \in K : h2(S)[k] = h[k]
        BY DEF OfKey
  <2> HIDE DEF h2
  <2>2. QED
        BY <2>1, SumSame
<1>7. QED
      BY <1>5, <1>6
=============================================================================
