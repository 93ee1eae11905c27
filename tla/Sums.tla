-------------------------------- MODULE Sums --------------------------------
(***************************************************************************)
(* Facts about the sum of a function over a finite set, which              *)
(* MapThenSumSet computes by taking out one chosen element after another.  *)
(* They are stated of functions, not of operators, so that they can be     *)
(* cited; each rests on the smallest set for which it could fail.          *)
(***************************************************************************)
EXTENDS Integers, FiniteSetsExt, FiniteSetTheorems, WellFoundedInduction, TLAPS

Total(f, S) == MapThenSumSet(LAMBDA x : f[x], S)

Chosen(s) == CHOOSE x \in s : TRUE
Others(s) == s \ {Chosen(s)}

(* The partial sums that the fold computes for the subsets of A. *)
IsSums(g, f, A) ==
  g = [s \in SUBSET A |-> IF s = {} THEN 0 ELSE f[Chosen(s)] + g[Others(s)]]

LEMMA ChosenFacts ==
  ASSUME NEW s, s # {}
  PROVE  Chosen(s) \in s /\ Others(s) \subseteq s /\ Others(s) # s
BY DEF Chosen, Others

LEMMA SmallestSet ==
  ASSUME NEW S, IsFiniteSet(S), NEW T \in SUBSET SUBSET S, T # {}
  PROVE  \E A \in T : \A B \in SUBSET A : B # A => B \notin T
<1>1. IsWellFoundedOn(StrictSubsetOrdering(S), SUBSET S)
  BY FS_StrictSubsetOrderingWellFounded, FS_FiniteSubsetsOfFinite
<1>2. PICK A \in T : \A B \in T : ~ (<<B, A>> \in StrictSubsetOrdering(S))
  BY <1>1, WFMin
<1>3. ASSUME NEW B \in SUBSET A, B # A, B \in T
      PROVE  FALSE
  <2>1. <<B, A>> \in (SUBSET S) \X (SUBSET S)
    BY <1>3
  <2>2. <<B, A>> \in StrictSubsetOrdering(S)
    BY <1>3, <2>1 DEF StrictSubsetOrdering
  <2> QED
    BY <1>2, <1>3, <2>2
<1> QED
  BY <1>3

(* Partial sums computed for two sets agree where both are defined. *)
LEMMA SumsAgree ==
  ASSUME NEW f, NEW A, NEW B, IsFiniteSet(A), NEW g, NEW h,
         IsSums(g, f, A), IsSums(h, f, B), NEW s \in SUBSET (A \cap B)
  PROVE  g[s] = h[s]
<1> DEFINE T == {t \in SUBSET (A \cap B) : g[t] # h[t]}
<1> SUFFICES ASSUME T # {} PROVE FALSE
  OBVIOUS
<1>1. T \in SUBSET SUBSET A
  OBVIOUS
<1> HIDE DEF T
<1>2. PICK t \in T : \A u \in SUBSET t : u # t => u \notin T
  BY <1>1, SmallestSet
<1> USE DEF T
<1>3. t \in SUBSET A /\ t \in SUBSET B /\ g[t] # h[t]
  OBVIOUS
<1>4. /\ g[t] = IF t = {} THEN 0 ELSE f[Chosen(t)] + g[Others(t)]
      /\ h[t] = IF t = {} THEN 0 ELSE f[Chosen(t)] + h[Others(t)]
  BY <1>3 DEF IsSums
<1>5. CASE t = {}
  BY <1>3, <1>4, <1>5
<1>6. CASE t # {}
  <2>1. Others(t) \in SUBSET t /\ Others(t) # t
    BY <1>6, ChosenFacts
  <2>2. g[Others(t)] = h[Others(t)]
    BY <1>2, <1>3, <2>1
  <2> QED
    BY <1>3, <1>4, <1>6, <2>2
<1> QED
  BY <1>5, <1>6

(* The fold is well defined. *)
LEMMA SumsExist ==
  ASSUME NEW f, NEW S, IsFiniteSet(S)
  PROVE  \E g : IsSums(g, f, S)
<1> DEFINE T == {A \in SUBSET S : ~ \E g : IsSums(g, f, A)}
<1> SUFFICES ASSUME T # {} PROVE FALSE
  OBVIOUS
<1>0. T \in SUBSET SUBSET S
  OBVIOUS
<1> HIDE DEF T
<1>1. PICK A \in T : \A B \in SUBSET A : B # A => B \notin T
  BY <1>0, SmallestSet
<1> USE DEF T
<1> DEFINE sums(B) == CHOOSE g : IsSums(g, f, B)
           G == [s \in SUBSET A |-> IF s = {} THEN 0
                                    ELSE f[Chosen(s)] + sums(Others(s))[Others(s)]]
<1>2. ASSUME NEW B \in SUBSET A, B # A
      PROVE  IsSums(sums(B), f, B) /\ IsFiniteSet(B)
  <2>1. \E g : IsSums(g, f, B)
    BY <1>1, <1>2
  <2> QED
    BY <2>1, FS_Subset
<1> HIDE DEF sums
<1>3. ASSUME NEW t \in SUBSET A, t # A
      PROVE  G[t] = sums(t)[t]
  <2>1. sums(t)[t] = IF t = {} THEN 0 ELSE f[Chosen(t)] + sums(t)[Others(t)]
    BY <1>2, <1>3 DEF IsSums
  <2>2. CASE t = {}
    BY <2>1, <2>2
  <2>3. CASE t # {}
    <3>1. Others(t) \in SUBSET t /\ Others(t) # t
      BY <2>3, ChosenFacts
    <3>2. Others(t) \in SUBSET A /\ Others(t) # A /\ Others(t) \in SUBSET (t \cap Others(t))
      BY <3>1
    <3>3. sums(t)[Others(t)] = sums(Others(t))[Others(t)]
      BY <1>2, <1>3, <3>2, SumsAgree
    <3> QED
      BY <2>1, <2>3, <3>3
  <2> QED
    BY <2>2, <2>3
<1>4. ASSUME NEW s \in SUBSET A
      PROVE  G[s] = IF s = {} THEN 0 ELSE f[Chosen(s)] + G[Others(s)]
  <2>1. CASE s # {}
    <3>1. Others(s) \in SUBSET A /\ Others(s) # A
      BY <2>1, ChosenFacts
    <3> QED
      BY <1>3, <2>1, <3>1
  <2> QED
    BY <2>1
<1>5. IsSums(G, f, A)
  <2>1. G = [s \in SUBSET A |-> G[s]]
    OBVIOUS
  <2> HIDE DEF G
  <2> QED
    BY <1>4, <2>1 DEF IsSums
<1> QED
  BY <1>1, <1>5

LEMMA TotalIsSums ==
  ASSUME NEW f, NEW S, IsFiniteSet(S), NEW g, NEW A, S \subseteq A, IsSums(g, f, A)
  PROVE  Total(f, S) = g[S]
<1> DEFINE h == CHOOSE h : IsSums(h, f, S)
<1>1. IsSums(h, f, S)
  BY SumsExist
<1>2. Total(f, S) = h[S]
  BY DEF Total, MapThenSumSet, MapThenFoldSet, IsSums, Chosen, Others
<1> HIDE DEF h
<1>3. S \in SUBSET (S \cap A)
  OBVIOUS
<1> QED
  BY <1>1, <1>2, <1>3, SumsAgree

LEMMA TotalEmpty ==
  ASSUME NEW f
  PROVE  Total(f, {}) = 0
<1>1. IsFiniteSet({})
  BY FS_EmptySet
<1>2. PICK g : IsSums(g, f, {})
  BY <1>1, SumsExist
<1>3. Total(f, {}) = g[{}]
  BY <1>1, <1>2, TotalIsSums
<1>4. g[{}] = 0
  BY <1>2 DEF IsSums
<1> QED
  BY <1>3, <1>4

LEMMA TotalChosen ==
  ASSUME NEW f, NEW S, IsFiniteSet(S), S # {}
  PROVE  Total(f, S) = f[Chosen(S)] + Total(f, Others(S))
<1>1. PICK g : IsSums(g, f, S)
  BY SumsExist
<1>2. Others(S) \in SUBSET S /\ IsFiniteSet(Others(S))
  BY ChosenFacts, FS_Subset
<1>3. Total(f, S) = g[S] /\ Total(f, Others(S)) = g[Others(S)]
  BY <1>1, <1>2, TotalIsSums
<1>4. g[S] = f[Chosen(S)] + g[Others(S)]
  BY <1>1 DEF IsSums
<1> QED
  BY <1>3, <1>4

(* A sum of integers is an integer. *)
LEMMA TotalType ==
  ASSUME NEW f, NEW S, IsFiniteSet(S), \A x \in S : f[x] \in Int
  PROVE  Total(f, S) \in Int
<1> DEFINE T == {A \in SUBSET S : Total(f, A) \notin Int}
<1> SUFFICES ASSUME T # {} PROVE FALSE
  OBVIOUS
<1>0. T \in SUBSET SUBSET S
  OBVIOUS
<1> HIDE DEF T
<1>1. PICK A \in T : \A B \in SUBSET A : B # A => B \notin T
  BY <1>0, SmallestSet
<1> USE DEF T
<1>2. A \in SUBSET S /\ Total(f, A) \notin Int
  OBVIOUS
<1>3. A # {}
  BY <1>2, TotalEmpty
<1>4. /\ Chosen(A) \in S
      /\ Others(A) \in SUBSET A /\ Others(A) # A
  BY <1>2, <1>3, ChosenFacts
<1>5. Total(f, Others(A)) \in Int
  BY <1>1, <1>2, <1>4
<1>6. Total(f, A) = f[Chosen(A)] + Total(f, Others(A))
  BY <1>2, <1>3, FS_Subset, TotalChosen
<1>7. f[Chosen(A)] \in Int
  BY <1>4
<1> QED
  BY <1>2, <1>5, <1>6, <1>7

(* Any element can be taken out, not only the chosen one. *)
LEMMA TotalTakeOut ==
  ASSUME NEW f, NEW S, IsFiniteSet(S), \A x \in S : f[x] \in Int, NEW y \in S
  PROVE  Total(f, S) = f[y] + Total(f, S \ {y})
<1> DEFINE T == {A \in SUBSET S : \E z \in A : Total(f, A) # f[z] + Total(f, A \ {z})}
<1> SUFFICES ASSUME T # {} PROVE FALSE
  OBVIOUS
<1>0. T \in SUBSET SUBSET S
  OBVIOUS
<1> HIDE DEF T
<1>1. PICK A \in T : \A B \in SUBSET A : B # A => B \notin T
  BY <1>0, SmallestSet
<1> USE DEF T
<1>2. PICK z \in A : Total(f, A) # f[z] + Total(f, A \ {z})
  OBVIOUS
<1>3. \A B \in SUBSET S : IsFiniteSet(B) /\ Total(f, B) \in Int
  <2>1. ASSUME NEW B \in SUBSET S
        PROVE  IsFiniteSet(B) /\ Total(f, B) \in Int
    BY FS_Subset, TotalType
  <2> QED
    BY <2>1
<1> DEFINE p == Chosen(A)
           B == A \ {p}
           C == A \ {z}
           D == (A \ {p}) \ {z}
<1>4. A \in SUBSET S /\ A # {} /\ p \in A /\ z \in S /\ p \in S
  BY ChosenFacts
<1>5. B \in SUBSET S /\ C \in SUBSET S /\ D \in SUBSET S
  BY <1>4
<1>6. Total(f, A) = f[p] + Total(f, B)
  BY <1>3, <1>4, TotalChosen DEF Others
<1>7. p # z
  BY <1>2, <1>6
<1>8. B \in SUBSET A /\ B # A /\ z \in B
  BY <1>4, <1>7
<1>9. C \in SUBSET A /\ C # A /\ p \in C
  BY <1>2, <1>4, <1>7
<1>10. B \ {z} = D /\ C \ {p} = D
  OBVIOUS
<1>11. Total(f, B) = f[z] + Total(f, B \ {z})
  BY <1>1, <1>5, <1>8
<1>12. Total(f, C) = f[p] + Total(f, C \ {p})
  BY <1>1, <1>5, <1>9
<1>13. Total(f, D) \in Int /\ f[p] \in Int /\ f[z] \in Int
  BY <1>3, <1>4, <1>5
<1> HIDE DEF p, B, C, D
<1>14. Total(f, A) = f[p] + (f[z] + Total(f, D)) /\ Total(f, C) = f[p] + Total(f, D)
  BY <1>6, <1>10, <1>11, <1>12
<1>15. \A i, j, k \in Int : i + (j + k) = j + (i + k)
  OBVIOUS
<1>16. f[p] + (f[z] + Total(f, D)) = f[z] + (f[p] + Total(f, D))
  BY <1>13, <1>15
<1>17. Total(f, A) = f[z] + Total(f, C)
  BY <1>14, <1>16
<1> QED
  BY <1>2, <1>17 DEF C

(* The sum depends on the values in the set only. *)
LEMMA TotalSame ==
  ASSUME NEW f, NEW g, NEW S, IsFiniteSet(S), \A x \in S : f[x] = g[x]
  PROVE  Total(f, S) = Total(g, S)
<1> DEFINE T == {A \in SUBSET S : Total(f, A) # Total(g, A)}
<1> SUFFICES ASSUME T # {} PROVE FALSE
  OBVIOUS
<1>0. T \in SUBSET SUBSET S
  OBVIOUS
<1> HIDE DEF T
<1>1. PICK A \in T : \A B \in SUBSET A : B # A => B \notin T
  BY <1>0, SmallestSet
<1> USE DEF T
<1>2. A \in SUBSET S /\ Total(f, A) # Total(g, A) /\ IsFiniteSet(A)
  BY FS_Subset
<1>3. A # {}
  BY <1>2, TotalEmpty
<1>4. Chosen(A) \in S /\ Others(A) \in SUBSET A /\ Others(A) # A
  BY <1>2, <1>3, ChosenFacts
<1>5. Total(f, Others(A)) = Total(g, Others(A))
  BY <1>1, <1>2, <1>4
<1>6. /\ Total(f, A) = f[Chosen(A)] + Total(f, Others(A))
      /\ Total(g, A) = g[Chosen(A)] + Total(g, Others(A))
  BY <1>2, <1>3, TotalChosen
<1>7. f[Chosen(A)] = g[Chosen(A)]
  BY <1>4
<1> QED
  BY <1>2, <1>5, <1>6, <1>7

(* When one value changes by d, so does the sum. *)
LEMMA TotalChange ==
  ASSUME NEW f, NEW g, NEW S, IsFiniteSet(S), NEW y \in S, NEW d \in Int,
         \A x \in S : f[x] \in Int,
         \A x \in S : g[x] = IF x = y THEN f[x] + d ELSE f[x]
  PROVE  Total(g, S) = Total(f, S) + d
<1>1. \A x \in S : g[x] \in Int
  OBVIOUS
<1>2. /\ Total(f, S) = f[y] + Total(f, S \ {y})
      /\ Total(g, S) = g[y] + Total(g, S \ {y})
  BY <1>1, TotalTakeOut
<1>3. IsFiniteSet(S \ {y})
  BY FS_Subset
<1>4. \A x \in S \ {y} : f[x] = g[x]
  OBVIOUS
<1>5. Total(f, S \ {y}) = Total(g, S \ {y})
  BY <1>3, <1>4, TotalSame
<1>6. Total(f, S \ {y}) \in Int /\ f[y] \in Int /\ g[y] = f[y] + d
  BY <1>3, TotalType
<1> QED
  BY <1>2, <1>5, <1>6

(* No value exceeds a sum of natural numbers. *)
LEMMA TotalAtLeast ==
  ASSUME NEW f, NEW S, IsFiniteSet(S), \A x \in S : f[x] \in Nat, NEW y \in S
  PROVE  Total(f, S) \in Nat /\ f[y] <= Total(f, S)
<1> DEFINE T == {A \in SUBSET S : ~(Total(f, A) \in Nat)}
<1>1. T = {}
  <2> SUFFICES ASSUME T # {} PROVE FALSE
    OBVIOUS
  <2>1. T \in SUBSET SUBSET S
    OBVIOUS
  <2> HIDE DEF T
  <2>2. PICK A \in T : \A B \in SUBSET A : B # A => B \notin T
    BY <2>1, SmallestSet
  <2> USE DEF T
  <2>3. A \in SUBSET S /\ Total(f, A) \notin Nat /\ IsFiniteSet(A)
    BY FS_Subset
  <2>4. A # {}
    BY <2>3, TotalEmpty
  <2>5. Chosen(A) \in S /\ Others(A) \in SUBSET A /\ Others(A) # A
    BY <2>3, <2>4, ChosenFacts
  <2>6. Total(f, Others(A)) \in Nat
    BY <2>2, <2>3, <2>5
  <2>7. Total(f, A) = f[Chosen(A)] + Total(f, Others(A)) /\ f[Chosen(A)] \in Nat
    BY <2>3, <2>4, <2>5, TotalChosen
  <2> QED
    BY <2>3, <2>6, <2>7
<1>2. S \in SUBSET S /\ S \ {y} \in SUBSET S
  OBVIOUS
<1>3. Total(f, S) \in Nat /\ Total(f, S \ {y}) \in Nat
  BY <1>1, <1>2
<1>4. \A x \in S : f[x] \in Int
  OBVIOUS
<1>5. Total(f, S) = f[y] + Total(f, S \ {y})
  BY <1>4, TotalTakeOut
<1>6. f[y] \in Nat
  OBVIOUS
<1> QED
  BY <1>3, <1>5, <1>6
-----------------------------------------------------------------------------
(* Sums over an interval. *)
LEMMA SmallestNumber ==
  ASSUME NEW S, S \subseteq Nat, S # {}
  PROVE  \E n \in S : \A k \in S : n <= k
<1>1. PICK n \in S : \A k \in S : ~ (<<k, n>> \in OpToRel(<, Nat))
  BY NatLessThanWellFounded, WFMin
<1>2. ASSUME NEW k \in S, ~(n <= k)
      PROVE  FALSE
  <2>1. <<k, n>> \in Nat \X Nat /\ k < n
    BY <1>2
  <2>2. <<k, n>> \in OpToRel(<, Nat)
    BY <2>1 DEF OpToRel
  <2> QED
    BY <1>1, <2>2
<1> QED
  BY <1>2

LEMMA AllNumbers ==
  ASSUME NEW S, 0 \in S, \A n \in Nat : n \in S => n + 1 \in S
  PROVE  \A n \in Nat : n \in S
<1> DEFINE T == {n \in Nat : n \notin S}
<1> SUFFICES ASSUME T # {} PROVE FALSE
  OBVIOUS
<1>1. T \subseteq Nat
  OBVIOUS
<1> HIDE DEF T
<1>2. PICK n \in T : \A k \in T : n <= k
  BY <1>1, SmallestNumber
<1> USE DEF T
<1>3. n \in Nat /\ n # 0
  OBVIOUS
<1>4. n - 1 \in Nat /\ (n - 1) + 1 = n /\ ~(n <= n - 1)
  BY <1>3
<1>5. n - 1 \in S
  BY <1>2, <1>4
<1> QED
  BY <1>4, <1>5

LEMMA TotalInterval ==
  ASSUME NEW f, NEW n \in Nat, \A k \in 1 .. n + 1 : f[k] \in Int
  PROVE  Total(f, 1 .. n + 1) = f[n + 1] + Total(f, 1 .. n)
<1>1. IsFiniteSet(1 .. n + 1)
  BY FS_Interval
<1>2. n + 1 \in 1 .. n + 1 /\ (1 .. n + 1) \ {n + 1} = 1 .. n
  OBVIOUS
<1>3. Total(f, 1 .. n + 1) = f[n + 1] + Total(f, (1 .. n + 1) \ {n + 1})
  BY <1>1, <1>2, TotalTakeOut
<1> QED
  BY <1>2, <1>3

(* The elements of a set, numbered without repetition: e[i] is the i-th,   *)
(* and g[i] its value.                                                     *)
LEMMA TotalNumbered ==
  ASSUME NEW f, NEW g, NEW e, NEW S, NEW m \in Nat,
         \A i, j \in 1 .. m : e[i] = e[j] => i = j,
         \A x : x \in S <=> \E i \in 1 .. m : x = e[i],
         \A i \in 1 .. m : g[i] = f[e[i]] /\ g[i] \in Int
  PROVE  Total(f, S) = Total(g, 1 .. m)
<1> DEFINE E(n) == {e[i] : i \in 1 .. n}
           P == {n \in Nat : n <= m => IsFiniteSet(E(n)) /\ Total(f, E(n)) = Total(g, 1 .. n)}
<1>1. 0 \in P
  <2>1. E(0) = {} /\ 1 .. 0 = {}
    OBVIOUS
  <2>2. IsFiniteSet({}) /\ Total(f, {}) = 0 /\ Total(g, {}) = 0
    BY FS_EmptySet, TotalEmpty
  <2> QED
    BY <2>1, <2>2
<1>2. ASSUME NEW n \in Nat, n \in P
      PROVE  n + 1 \in P
  <2> SUFFICES ASSUME n + 1 <= m
               PROVE  IsFiniteSet(E(n + 1)) /\ Total(f, E(n + 1)) = Total(g, 1 .. n + 1)
    OBVIOUS
  <2>1. n <= m /\ n + 1 \in 1 .. m /\ \A i \in 1 .. n : i \in 1 .. m /\ i # n + 1
    OBVIOUS
  <2>2. IsFiniteSet(E(n)) /\ Total(f, E(n)) = Total(g, 1 .. n)
    BY <1>2, <2>1
  <2>3. E(n + 1) = E(n) \union {e[n + 1]}
    <3>1. 1 .. n + 1 = (1 .. n) \union {n + 1}
      OBVIOUS
    <3> QED
      BY <3>1
  <2>4. e[n + 1] \notin E(n)
    BY <2>1
  <2>5. E(n + 1) \ {e[n + 1]} = E(n) /\ e[n + 1] \in E(n + 1)
    BY <2>3, <2>4
  <2>6. IsFiniteSet(E(n + 1))
    <3>1. IsFiniteSet(E(n) \union {e[n + 1]})
      BY <2>2, FS_AddElement
    <3> QED
      BY <2>3, <3>1
  <2>7. \A x \in E(n + 1) : f[x] \in Int
    <3>1. \A i \in 1 .. n + 1 : i \in 1 .. m
      BY <2>1
    <3> QED
      BY <3>1
  <2>8. \A k \in 1 .. n + 1 : g[k] = f[e[k]] /\ g[k] \in Int
    <3>1. \A i \in 1 .. n + 1 : i \in 1 .. m
      BY <2>1
    <3> QED
      BY <3>1
  <2> HIDE DEF E
  <2>9. Total(f, E(n + 1)) = f[e[n + 1]] + Total(f, E(n + 1) \ {e[n + 1]})
    BY <2>5, <2>6, <2>7, TotalTakeOut
  <2>10. Total(g, 1 .. n + 1) = g[n + 1] + Total(g, 1 .. n)
    BY <2>8, TotalInterval
  <2>11. g[n + 1] = f[e[n + 1]]
    BY <2>8
  <2> QED
    BY <2>2, <2>5, <2>6, <2>9, <2>10, <2>11
<1> HIDE DEF P
<1>3. m \in P
  BY <1>1, <1>2, AllNumbers
<1>4. S = E(m)
  OBVIOUS
<1> QED
  BY <1>3, <1>4 DEF P

(* Sums over the first n numbers. *)
LEMMA TotalNext ==
  ASSUME NEW f, NEW n \in Nat, \A k \in 0 .. n : f[k] \in Int
  PROVE  Total(f, 0 .. n) = f[n] + Total(f, 0 .. n - 1)
<1>1. IsFiniteSet(0 .. n)
  BY FS_Interval
<1>2. n \in 0 .. n /\ (0 .. n) \ {n} = 0 .. n - 1
  OBVIOUS
<1>3. Total(f, 0 .. n) = f[n] + Total(f, (0 .. n) \ {n})
  BY <1>1, <1>2, TotalTakeOut
<1> QED
  BY <1>2, <1>3

LEMMA TotalNumbersType ==
  ASSUME NEW f, NEW n \in Nat, \A k \in 0 .. n - 1 : f[k] \in Int
  PROVE  Total(f, 0 .. n - 1) \in Int
<1>1. IsFiniteSet(0 .. n - 1)
  BY FS_Interval
<1> QED
  BY <1>1, TotalType

(* The second half of the summands can be added to the first one by one. *)
LEMMA TotalHalves ==
  ASSUME NEW f, NEW g, NEW h \in Nat,
         \A k \in 0 .. 2 * h - 1 : f[k] \in Int,
         \A k \in 0 .. h - 1 : g[k] = f[k] + f[k + h]
  PROVE  Total(f, 0 .. 2 * h - 1) = Total(g, 0 .. h - 1)
<1> DEFINE Claim(n) == Total(f, 0 .. (h + n) - 1) + Total(f, 0 .. n - 1)
                         = Total(f, 0 .. h - 1) + Total(g, 0 .. n - 1)
           T == {n \in Nat : n <= h => Claim(n)}
<1>0. ASSUME NEW n \in Nat, n <= h
      PROVE  /\ Total(f, 0 .. (h + n) - 1) \in Int /\ Total(f, 0 .. n - 1) \in Int
             /\ Total(g, 0 .. n - 1) \in Int
  <2>1. h + n \in Nat /\ (\A k \in 0 .. (h + n) - 1 : f[k] \in Int)
        /\ (\A k \in 0 .. n - 1 : f[k] \in Int)
    BY <1>0
  <2>2. \A k \in 0 .. n - 1 : g[k] \in Int
    <3>1. \A k \in 0 .. n - 1 : k \in 0 .. h - 1 /\ k \in 0 .. 2 * h - 1 /\ k + h \in 0 .. 2 * h - 1
      BY <1>0
    <3>2. \A k \in 0 .. n - 1 : g[k] = f[k] + f[k + h] /\ f[k] \in Int /\ f[k + h] \in Int
      BY <3>1
    <3> QED
      BY <3>2
  <2> QED
    BY <2>1, <2>2, TotalNumbersType
<1>1. 0 \in T
  <2>1. 0 .. 0 - 1 = {} /\ (h + 0) - 1 = h - 1
    OBVIOUS
  <2>2. Total(f, {}) = 0 /\ Total(g, {}) = 0
    BY TotalEmpty
  <2> QED
    BY <2>1, <2>2
<1>2. ASSUME NEW n \in Nat, n \in T
      PROVE  n + 1 \in T
  <2> SUFFICES ASSUME n + 1 <= h
               PROVE  Claim(n + 1)
    OBVIOUS
  <2>1. /\ h + n \in Nat /\ (h + (n + 1)) - 1 = h + n /\ (n + 1) - 1 = n
        /\ \A k \in 0 .. h + n : f[k] \in Int
        /\ \A k \in 0 .. n : f[k] \in Int
        /\ n \in 0 .. h - 1 /\ n + h = h + n
    OBVIOUS
  <2>2. Total(f, 0 .. h + n) = f[h + n] + Total(f, 0 .. (h + n) - 1)
    BY <2>1, TotalNext
  <2>3. Total(f, 0 .. n) = f[n] + Total(f, 0 .. n - 1)
    BY <2>1, TotalNext
  <2>4. \A k \in 0 .. n : g[k] \in Int
    <3>1. \A k \in 0 .. n : k \in 0 .. h - 1 /\ k \in 0 .. 2 * h - 1 /\ k + h \in 0 .. 2 * h - 1
      OBVIOUS
    <3>2. \A k \in 0 .. n : g[k] = f[k] + f[k + h] /\ f[k] \in Int /\ f[k + h] \in Int
      BY <3>1
    <3> QED
      BY <3>2
  <2>5. Total(g, 0 .. n) = g[n] + Total(g, 0 .. n - 1)
    BY <2>4, TotalNext
  <2>6. g[n] = f[n] + f[h + n] /\ f[n] \in Int /\ f[h + n] \in Int
    BY <2>1
  <2>7. n <= h /\ Claim(n)
    BY <1>2
  <2>8. /\ Total(f, 0 .. (h + n) - 1) \in Int /\ Total(f, 0 .. n - 1) \in Int
        /\ Total(g, 0 .. n - 1) \in Int
    BY <1>0, <2>7
  <2>9. Total(f, 0 .. h - 1) \in Int
    <3>1. \A k \in 0 .. h - 1 : f[k] \in Int
      OBVIOUS
    <3> QED
      BY <3>1, TotalNumbersType
  <2>10. Total(f, 0 .. h + n) + Total(f, 0 .. n) = Total(f, 0 .. h - 1) + Total(g, 0 .. n)
    <3>1. PICK a \in Int, b \in Int, c \in Int, d \in Int, u \in Int, v \in Int :
            /\ a = Total(f, 0 .. (h + n) - 1) /\ b = Total(f, 0 .. n - 1)
            /\ c = Total(f, 0 .. h - 1) /\ d = Total(g, 0 .. n - 1)
            /\ u = f[n] /\ v = f[h + n]
      BY <2>6, <2>8, <2>9
    <3>2. a + b = c + d
      BY <2>7, <3>1
    <3>3. (v + a) + (u + b) = c + ((u + v) + d)
      BY <3>2
    <3> QED
      BY <2>2, <2>3, <2>5, <2>6, <3>1, <3>3
  <2> QED
    BY <2>1, <2>10
<1>3. \A n \in Nat : n \in T
  <2> HIDE DEF T
  <2> QED
    BY <1>1, <1>2, AllNumbers
<1>4. Claim(h)
  BY <1>3
<1>5. (h + h) - 1 = 2 * h - 1
  OBVIOUS
<1>6. Total(f, 0 .. 2 * h - 1) \in Int /\ Total(f, 0 .. h - 1) \in Int /\ Total(g, 0 .. h - 1) \in Int
  BY <1>0, <1>5
<1>7. Total(f, 0 .. 2 * h - 1) + Total(f, 0 .. h - 1) = Total(f, 0 .. h - 1) + Total(g, 0 .. h - 1)
  BY <1>4, <1>5
<1> QED
  BY <1>6, <1>7
=============================================================================
