---------------------------- MODULE FunctionSums ----------------------------
(***************************************************************************)
(* What a sum over a finite set is: lemmas about SumFunctionOnSet, for     *)
(* the proofs that no token and no lamport is lost.  The library's         *)
(* induction takes the predicate as a parameter; here it is used in the    *)
(* form of sets, as the existence of a minimal counterexample.             *)
(***************************************************************************)
EXTENDS Functions, FiniteSetTheorems, TLAPS

\* A family of subsets of a finite set has a minimal member: what fails for
\* some subset fails for one whose strict subsets are all right.
LEMMA MinimalMember ==
    ASSUME NEW S, IsFiniteSet(S), NEW Bad \in SUBSET (SUBSET S), Bad # {}
    PROVE  \E T \in Bad : \A U \in SUBSET T : U # T => U \notin Bad
<1>1. IsWellFoundedOn(StrictSubsetOrdering(S), SUBSET S)
  BY FS_StrictSubsetOrderingWellFounded, FS_FiniteSubsetsOfFinite
<1>2. PICK T \in Bad : \A U \in Bad : <<U, T>> \notin StrictSubsetOrdering(S)
  BY <1>1, WFMin
<1> QED
  BY <1>2 DEF StrictSubsetOrdering

-----------------------------------------------------------------------------
(* The recursive function behind the sum. *)

\* The library folds over a set in the order of this choice.
Pick(s) == CHOOSE x \in s : TRUE

\* g holds the sums of f over the subsets of S.
IsSums(g, f, S) ==
    g = [s \in SUBSET S |-> IF s = {} THEN 0 ELSE f[Pick(s)] + g[s \ {Pick(s)}]]

\* The sum is the value at S of a function on the subsets of S, if there is
\* one.
LEMMA SumIsFold ==
    ASSUME NEW f, NEW S
    PROVE  SumFunctionOnSet(f, S) = (CHOOSE g : IsSums(g, f, S))[S]
BY DEF SumFunctionOnSet, FoldFunctionOnSet, MapThenFoldSet, IsSums, Pick

\* One element fewer is a strict subset.
LEMMA PickFacts ==
    ASSUME NEW s, s # {}
    PROVE  Pick(s) \in s /\ s \ {Pick(s)} \in SUBSET s /\ s \ {Pick(s)} # s
<1>1. Pick(s) \in s
  BY DEF Pick
<1> QED
  BY <1>1

\* Two such functions agree where both are defined.
LEMMA SumsAgree ==
    ASSUME NEW f, NEW S, IsFiniteSet(S), NEW A \in SUBSET S, NEW B \in SUBSET S,
           NEW g, IsSums(g, f, A), NEW h, IsSums(h, f, B)
    PROVE  \A s \in SUBSET (A \cap B) : g[s] = h[s]
<1> DEFINE Bad == {s \in SUBSET (A \cap B) : g[s] # h[s]}
<1> SUFFICES ASSUME Bad # {} PROVE FALSE
  OBVIOUS
<1>f. IsFiniteSet(A \cap B)
  BY FS_Subset
<1>0. Bad \in SUBSET (SUBSET A \cap B)
  OBVIOUS
<1> HIDE DEF Bad
<1>1. PICK s \in Bad : \A u \in SUBSET s : u # s => u \notin Bad
  BY <1>0, <1>f, MinimalMember
<1> USE DEF Bad
<1>2. /\ g[s] = IF s = {} THEN 0 ELSE f[Pick(s)] + g[s \ {Pick(s)}]
      /\ h[s] = IF s = {} THEN 0 ELSE f[Pick(s)] + h[s \ {Pick(s)}]
  BY DEF IsSums
<1>3. s # {} => g[s \ {Pick(s)}] = h[s \ {Pick(s)}]
  BY <1>1, PickFacts
<1> QED
  BY <1>2, <1>3

\* There is such a function for every finite set.
LEMMA SumsExist ==
    ASSUME NEW f, NEW S, IsFiniteSet(S)
    PROVE  \E g : IsSums(g, f, S)
<1> DEFINE Bad == {s \in SUBSET S : ~ \E g : IsSums(g, f, s)}
<1> SUFFICES ASSUME Bad # {} PROVE FALSE
  OBVIOUS
<1>0. Bad \in SUBSET (SUBSET S)
  OBVIOUS
<1> HIDE DEF Bad
<1>1. PICK T \in Bad : \A u \in SUBSET T : u # T => u \notin Bad
  BY <1>0, MinimalMember
<1> USE DEF Bad
<1> DEFINE G(s) == CHOOSE g : IsSums(g, f, s)
           V(s) == G(s)[s]
           g == [s \in SUBSET T |-> IF s = {} THEN 0 ELSE f[Pick(s)] + V(s \ {Pick(s)})]
<1>2. ASSUME NEW s \in SUBSET T, s # T PROVE IsSums(G(s), f, s)
  BY <1>1, <1>2
<1> HIDE DEF G
<1>3. ASSUME NEW s \in SUBSET T, s # T PROVE g[s] = V(s)
  <2>1. V(s) = IF s = {} THEN 0 ELSE f[Pick(s)] + G(s)[s \ {Pick(s)}]
    BY <1>2, <1>3 DEF IsSums
  <2>2. CASE s # {}
    <3> DEFINE r == s \ {Pick(s)}
    <3>1. r \in SUBSET s /\ r # s /\ r \in SUBSET T /\ r # T
      BY <2>2, <1>3, PickFacts
    <3>2. IsSums(G(r), f, r) /\ IsSums(G(s), f, s)
      BY <1>2, <1>3, <3>1
    <3> HIDE DEF r
    <3>3. r \in SUBSET (r \cap s) /\ r \in SUBSET S /\ s \in SUBSET S
      BY <3>1
    <3>4. G(r)[r] = G(s)[r]
      BY <3>2, <3>3, SumsAgree
    <3> QED
      BY <2>1, <2>2, <3>4 DEF r
  <2> QED
    BY <2>1, <2>2
<1>4. ASSUME NEW s \in SUBSET T, s # {} PROVE g[s \ {Pick(s)}] = V(s \ {Pick(s)})
  <2>1. s \ {Pick(s)} \in SUBSET T /\ s \ {Pick(s)} # T
    BY <1>4, PickFacts
  <2> QED
    BY <1>3, <2>1
<1>5. IsSums(g, f, T)
  <2>1. g = [s \in SUBSET T |-> IF s = {} THEN 0 ELSE f[Pick(s)] + V(s \ {Pick(s)})]
    OBVIOUS
  <2> HIDE DEF g, V
  <2> QED
    BY <1>4, <2>1 DEF IsSums
<1> QED
  BY <1>5

\* The sum over a set is one of its elements' and the sum over the rest.
LEMMA SumUnfolds ==
    ASSUME NEW f, NEW S, IsFiniteSet(S)
    PROVE  SumFunctionOnSet(f, S) =
             IF S = {} THEN 0 ELSE f[Pick(S)] + SumFunctionOnSet(f, S \ {Pick(S)})
<1> DEFINE g == CHOOSE k : IsSums(k, f, S)
           R == S \ {Pick(S)}
           h == CHOOSE k : IsSums(k, f, R)
<1>1. IsFiniteSet(R) /\ R \in SUBSET S /\ R \in SUBSET (S \cap R) /\ S \in SUBSET S
  BY FS_RemoveElement
<1> HIDE DEF R
<1>2. IsSums(g, f, S) /\ IsSums(h, f, R)
  BY <1>1, SumsExist
<1>3. SumFunctionOnSet(f, S) = g[S] /\ SumFunctionOnSet(f, R) = h[R]
  BY SumIsFold
<1> HIDE DEF g, h
<1>4. g[S] = IF S = {} THEN 0 ELSE f[Pick(S)] + g[R]
  BY <1>2 DEF IsSums, R
<1>5. g[R] = h[R]
  <2>1. \A s \in SUBSET (S \cap R) : g[s] = h[s]
    BY <1>1, <1>2, SumsAgree
  <2> QED
    BY <1>1, <2>1
<1> QED
  BY <1>3, <1>4, <1>5 DEF R

-----------------------------------------------------------------------------
(* Sums of integers. *)

\* A sum of integers is one.
LEMMA SumType ==
    ASSUME NEW f, NEW S, IsFiniteSet(S), \A x \in S : f[x] \in Int
    PROVE  SumFunctionOnSet(f, S) \in Int
<1> DEFINE Bad == {s \in SUBSET S : SumFunctionOnSet(f, s) \notin Int}
<1> SUFFICES ASSUME Bad # {} PROVE FALSE
  OBVIOUS
<1>0. Bad \in SUBSET (SUBSET S)
  OBVIOUS
<1> HIDE DEF Bad
<1>1. PICK s \in Bad : \A u \in SUBSET s : u # s => u \notin Bad
  BY <1>0, MinimalMember
<1> USE DEF Bad
<1>2. SumFunctionOnSet(f, s) =
        IF s = {} THEN 0 ELSE f[Pick(s)] + SumFunctionOnSet(f, s \ {Pick(s)})
  BY SumUnfolds, FS_Subset
<1>3. s # {} => f[Pick(s)] \in Int /\ SumFunctionOnSet(f, s \ {Pick(s)}) \in Int
  BY <1>1, PickFacts
<1> QED
  BY <1>2, <1>3

\* The order does not matter: any element can be taken out of a sum.
LEMMA SumTakesOut ==
    ASSUME NEW f, NEW S, IsFiniteSet(S), \A x \in S : f[x] \in Int, NEW x \in S
    PROVE  SumFunctionOnSet(f, S) = f[x] + SumFunctionOnSet(f, S \ {x})
<1> DEFINE Total(s) == SumFunctionOnSet(f, s)
           TakesOut(s) == \A y \in s : Total(s) = f[y] + Total(s \ {y})
           Bad == {s \in SUBSET S : ~ TakesOut(s)}
<1>1. ASSUME NEW r \in SUBSET S
      PROVE  /\ Total(r) \in Int
             /\ Total(r) = IF r = {} THEN 0 ELSE f[Pick(r)] + Total(r \ {Pick(r)})
  <2>1. IsFiniteSet(r) /\ \A y \in r : f[y] \in Int
    BY FS_Subset
  <2> QED
    BY <2>1, SumType, SumUnfolds
<1>2. ASSUME Bad # {} PROVE FALSE
  <2>1. Bad \in SUBSET (SUBSET S)
    OBVIOUS
  <2> HIDE DEF Bad
  <2>2. PICK s \in Bad : \A u \in SUBSET s : u # s => u \notin Bad
    BY <1>2, <2>1, MinimalMember
  <2> USE DEF Bad
  <2> HIDE DEF TakesOut
  <2>3. s \in SUBSET S /\ ~ TakesOut(s)
    BY <2>2
  <2>4. ASSUME NEW u \in SUBSET s, u # s PROVE TakesOut(u)
    BY <2>2, <2>3, <2>4
  <2> HIDE DEF Bad, Total
  <2>5. PICK y \in s : Total(s) # f[y] + Total(s \ {y})
    BY <2>3 DEF TakesOut
  <2> DEFINE p == Pick(s)
  <2>6. p \in s /\ s \ {p} \in SUBSET s /\ s \ {p} # s
    BY PickFacts
  <2>7. Total(s) = f[p] + Total(s \ {p})
    BY <1>1, <2>3
  <2> HIDE DEF p
  <2>8. p # y
    BY <2>5, <2>7
  <2>9. Total(s \ {p}) = f[y] + Total((s \ {p}) \ {y})
    BY <2>4, <2>6, <2>8 DEF TakesOut
  <2>10. Total(s \ {y}) = f[p] + Total((s \ {y}) \ {p})
    <3>1. s \ {y} \in SUBSET s /\ s \ {y} # s /\ p \in s \ {y}
      BY <2>6, <2>8
    <3> QED
      BY <2>4, <3>1 DEF TakesOut
  <2>11. (s \ {p}) \ {y} = (s \ {y}) \ {p}
    OBVIOUS
  <2>12. f[p] \in Int /\ f[y] \in Int /\ Total((s \ {y}) \ {p}) \in Int
    BY <1>1, <2>3, <2>6
  <2> DEFINE rest == Total((s \ {y}) \ {p})
  <2>13. Total(s) = f[p] + (f[y] + rest)
    BY <2>7, <2>9, <2>11
  <2>14. Total(s) # f[y] + (f[p] + rest)
    BY <2>5, <2>10
  <2> HIDE DEF rest
  <2> QED
    BY <2>12, <2>13, <2>14 DEF rest
<1> QED
  BY <1>2

\* Functions that agree on a set have the same sum over it.
LEMMA SameSum ==
    ASSUME NEW f, NEW g, NEW S, IsFiniteSet(S), \A x \in S : f[x] = g[x]
    PROVE  SumFunctionOnSet(f, S) = SumFunctionOnSet(g, S)
<1> DEFINE Bad == {s \in SUBSET S : SumFunctionOnSet(f, s) # SumFunctionOnSet(g, s)}
<1> SUFFICES ASSUME Bad # {} PROVE FALSE
  OBVIOUS
<1>0. Bad \in SUBSET (SUBSET S)
  OBVIOUS
<1> HIDE DEF Bad
<1>1. PICK s \in Bad : \A u \in SUBSET s : u # s => u \notin Bad
  BY <1>0, MinimalMember
<1> USE DEF Bad
<1>2. /\ SumFunctionOnSet(f, s) =
           IF s = {} THEN 0 ELSE f[Pick(s)] + SumFunctionOnSet(f, s \ {Pick(s)})
      /\ SumFunctionOnSet(g, s) =
           IF s = {} THEN 0 ELSE g[Pick(s)] + SumFunctionOnSet(g, s \ {Pick(s)})
  <2>1. IsFiniteSet(s)
    BY FS_Subset
  <2> QED
    BY <2>1, SumUnfolds
<1>3. s # {} => /\ f[Pick(s)] = g[Pick(s)]
                /\ SumFunctionOnSet(f, s \ {Pick(s)}) = SumFunctionOnSet(g, s \ {Pick(s)})
  BY <1>1, PickFacts
<1> QED
  BY <1>2, <1>3

\* A sum of zeros.
LEMMA SumOfZeros ==
    ASSUME NEW S, IsFiniteSet(S)
    PROVE  SumFunction([x \in S |-> 0]) = 0
<1> DEFINE f == [x \in S |-> 0]
           Bad == {s \in SUBSET S : SumFunctionOnSet(f, s) # 0}
<1> SUFFICES ASSUME Bad # {} PROVE FALSE
  BY DEF SumFunction
<1>0. Bad \in SUBSET (SUBSET S)
  OBVIOUS
<1> HIDE DEF Bad
<1>1. PICK s \in Bad : \A u \in SUBSET s : u # s => u \notin Bad
  BY <1>0, MinimalMember
<1> USE DEF Bad
<1>2. SumFunctionOnSet(f, s) =
        IF s = {} THEN 0 ELSE f[Pick(s)] + SumFunctionOnSet(f, s \ {Pick(s)})
  <2>1. IsFiniteSet(s)
    BY FS_Subset
  <2> QED
    BY <2>1, SumUnfolds
<1>3. s # {} => f[Pick(s)] = 0 /\ SumFunctionOnSet(f, s \ {Pick(s)}) = 0
  BY <1>1, PickFacts
<1> QED
  BY <1>2, <1>3

\* A function's sum is an integer.
LEMMA SumFunctionType ==
    ASSUME NEW S, IsFiniteSet(S), NEW f \in [S -> Int]
    PROVE  SumFunction(f) \in Int
BY SumType DEF SumFunction

\* Writing one entry changes the sum by what the entry changes by.
LEMMA SumUpdate ==
    ASSUME NEW S, IsFiniteSet(S), NEW f \in [S -> Int], NEW x \in S, NEW v \in Int
    PROVE  SumFunction([f EXCEPT ![x] = v]) = SumFunction(f) - f[x] + v
<1> DEFINE g == [f EXCEPT ![x] = v]
           R == S \ {x}
<1>1. g \in [S -> Int] /\ g[x] = v /\ \A y \in R : g[y] = f[y]
  OBVIOUS
<1> HIDE DEF g
<1>2. SumFunctionOnSet(f, S) = f[x] + SumFunctionOnSet(f, R)
  BY SumTakesOut
<1>3. SumFunctionOnSet(g, S) = g[x] + SumFunctionOnSet(g, R)
  BY <1>1, SumTakesOut
<1>4. IsFiniteSet(R) /\ \A y \in R : f[y] \in Int
  BY FS_RemoveElement
<1>5. SumFunctionOnSet(f, R) = SumFunctionOnSet(g, R) /\ SumFunctionOnSet(f, R) \in Int
  BY <1>1, <1>4, SameSum, SumType
<1>6. SumFunction(f) = SumFunctionOnSet(f, S) /\ SumFunction(g) = SumFunctionOnSet(g, S)
  BY <1>1 DEF SumFunction
<1>7. SumFunction(g) = SumFunction(f) - f[x] + v
  <2> HIDE DEF R
  <2>1. f[x] \in Int
    OBVIOUS
  <2> QED
    BY <1>1, <1>2, <1>3, <1>5, <1>6, <2>1
<1> QED
  BY <1>7 DEF g

\* Adding to one entry adds as much to the sum.
LEMMA SumAdd ==
    ASSUME NEW S, IsFiniteSet(S), NEW f \in [S -> Int], NEW x \in S, NEW d \in Int
    PROVE  SumFunction([f EXCEPT ![x] = @ + d]) = SumFunction(f) + d
<1> DEFINE more == f[x] + d
<1>1. more \in Int /\ f[x] \in Int /\ SumFunction(f) \in Int
  BY SumFunctionType
<1> HIDE DEF more
<1>2. SumFunction([f EXCEPT ![x] = more]) = SumFunction(f) - f[x] + more
  BY <1>1, SumUpdate
<1>3. [f EXCEPT ![x] = @ + d] = [f EXCEPT ![x] = more]
  BY DEF more
<1> QED
  BY <1>1, <1>2, <1>3 DEF more

\* Taking from one entry takes as much from the sum.
LEMMA SumTake ==
    ASSUME NEW S, IsFiniteSet(S), NEW f \in [S -> Int], NEW x \in S, NEW d \in Int
    PROVE  SumFunction([f EXCEPT ![x] = @ - d]) = SumFunction(f) - d
<1> DEFINE less == f[x] - d
<1>1. less \in Int /\ f[x] \in Int /\ SumFunction(f) \in Int
  BY SumFunctionType
<1> HIDE DEF less
<1>2. SumFunction([f EXCEPT ![x] = less]) = SumFunction(f) - f[x] + less
  BY <1>1, SumUpdate
<1>3. [f EXCEPT ![x] = @ - d] = [f EXCEPT ![x] = less]
  BY DEF less
<1> QED
  BY <1>1, <1>2, <1>3 DEF less

\* Moving an amount from one entry to another leaves the sum as it was.
LEMMA SumMove ==
    ASSUME NEW S, IsFiniteSet(S), NEW f \in [S -> Int],
           NEW x \in S, NEW y \in S, x # y, NEW d \in Int,
           NEW g \in [S -> Int], g[x] = f[x] - d, g[y] = f[y] + d,
           \A z \in S \ {x, y} : g[z] = f[z]
    PROVE  SumFunction(g) = SumFunction(f)
<1> DEFINE h == [f EXCEPT ![x] = @ - d]
<1>1. h \in [S -> Int] /\ SumFunction(f) \in Int
  BY SumFunctionType
<1>2. g = [h EXCEPT ![y] = @ + d]
  OBVIOUS
<1>3. SumFunction(h) = SumFunction(f) - d
  BY SumTake
<1> HIDE DEF h
<1>4. SumFunction([h EXCEPT ![y] = @ + d]) = SumFunction(h) + d
  BY <1>1, SumAdd
<1>5. SumFunction(g) = SumFunction(h) + d
  BY <1>2, <1>4, Zenon
<1> QED
  BY <1>1, <1>3, <1>5
=============================================================================
