----------------------------- MODULE SumsProofs -----------------------------
(***************************************************************************)
(* Lemmas about SumOf, for every finite set and every amount: what the     *)
(* proofs about accounts need when a row enters or leaves a sum or changes *)
(* its amount.                                                             *)
(*                                                                         *)
(* A sum is a recursion over the subsets of a set.  Facts about it are     *)
(* proved without an induction theorem, by the least counterexample: if    *)
(* the fact failed for some part of the set, it would fail for a part none *)
(* of whose proper parts it fails for (SmallestSet), and one step of the   *)
(* recursion would lead from a smaller part to that one.                   *)
(***************************************************************************)
EXTENDS Sums, FiniteSetTheorems, WellFoundedInduction, TLAPS

\* Of a set of parts of a finite set, some part contains no other one of them.
LEMMA SmallestSet ==
    ASSUME NEW S, IsFiniteSet(S), NEW B, B \subseteq SUBSET S, B # {}
    PROVE  \E T \in B : \A U \in B : U \subseteq T => U = T
<1>1. B \subseteq FiniteSubsetsOf(S)
    BY FS_Subset DEF FiniteSubsetsOf
<1>2. IsWellFoundedOn(StrictSubsetOrdering(S), FiniteSubsetsOf(S))
    BY FS_StrictSubsetOrderingWellFounded
<1>3. PICK T \in B : \A U \in B : ~ (<<U, T>> \in StrictSubsetOrdering(S))
    BY <1>1, <1>2, WFMin
<1>4. ASSUME NEW U \in B, U \subseteq T, U # T
      PROVE  FALSE
    <2>1. <<U, T>> \in StrictSubsetOrdering(S)
        BY <1>4 DEF StrictSubsetOrdering
    <2> QED  BY <2>1, <1>3
<1> QED  BY <1>4

\* The recursion of MapThenSumSet: the element taken out first, one step, and
\* the function that computes the sum of every part of D.
PickOne(s) == CHOOSE x \in s : TRUE
FoldStep(f, g, s) == IF s = {} THEN 0 ELSE f[PickOne(s)] + g[s \ {PickOne(s)}]
IsFold(f, D, g) == g = [s \in SUBSET D |-> FoldStep(f, g, s)]

\* The element taken out first is one of the set.
LEMMA PickIsIn ==
    ASSUME NEW s, s # {} PROVE PickOne(s) \in s
BY DEF PickOne

\* SumOf is what that function gives for the whole set.
LEMMA SumIsFold ==
    ASSUME NEW f, NEW S
    PROVE  SumOf(f, S) = (CHOOSE g : IsFold(f, S, g))[S]
BY DEF SumOf, MapThenSumSet, MapThenFoldSet, IsFold, FoldStep, PickOne

\* Two such functions agree wherever both are defined.
LEMMA FoldsAgree ==
    ASSUME NEW f, NEW D, IsFiniteSet(D), NEW g, IsFold(f, D, g),
           NEW E, E \subseteq D, NEW h, IsFold(f, E, h)
    PROVE  \A s \in SUBSET E : g[s] = h[s]
<1> DEFINE B == {s \in SUBSET E : g[s] # h[s]}
<1>1. SUFFICES ASSUME B # {} PROVE FALSE
    OBVIOUS
<1>2. IsFiniteSet(E)
    BY FS_Subset
<1>3. PICK T \in B : \A U \in B : U \subseteq T => U = T
    <2>1. B \subseteq SUBSET E  OBVIOUS
    <2> HIDE DEF B
    <2> QED  BY <1>1, <1>2, <2>1, SmallestSet
<1>4. /\ g[T] = FoldStep(f, g, T)
      /\ h[T] = FoldStep(f, h, T)
    BY DEF IsFold
<1>5. CASE T = {}
    BY <1>4, <1>5 DEF FoldStep
<1>6. CASE T # {}
    <2> DEFINE U == T \ {PickOne(T)}
    <2>1. U \in SUBSET E /\ U # T /\ U \subseteq T
        BY <1>6, PickIsIn
    <2>2. g[U] = h[U]
        BY <2>1, <1>3
    <2>3. g[T] = h[T]
        BY <2>2, <1>4, <1>6 DEF FoldStep
    <2> QED  BY <2>3
<1> QED  BY <1>5, <1>6

\* There is such a function for every finite set.
LEMMA SumFolds ==
    ASSUME NEW f, NEW S, IsFiniteSet(S)
    PROVE  \E g : IsFold(f, S, g)
<1> DEFINE B == {T \in SUBSET S : ~ \E g : IsFold(f, T, g)}
<1>1. SUFFICES ASSUME B # {} PROVE FALSE
    OBVIOUS
<1>3. PICK T \in B : \A U \in B : U \subseteq T => U = T
    <2>1. B \subseteq SUBSET S  OBVIOUS
    <2> HIDE DEF B
    <2> QED  BY <1>1, <2>1, SmallestSet
<1> DEFINE F(U) == CHOOSE g : IsFold(f, U, g)
           h == [s \in SUBSET T |-> IF s = {} THEN 0 ELSE f[PickOne(s)] + F(s \ {PickOne(s)})[s \ {PickOne(s)}]]
<1>4. ASSUME NEW U, U \subseteq T, U # T
      PROVE  IsFold(f, U, F(U))
    <2>1. \E g : IsFold(f, U, g)
        BY <1>4, <1>3
    <2> QED  BY <2>1
<1>5. ASSUME NEW U, U \subseteq T, U # T
      PROVE  h[U] = F(U)[U]
    <2>1. F(U)[U] = FoldStep(f, F(U), U)
        <3> HIDE DEF F
        <3> QED BY <1>4, <1>5 DEF IsFold
    <2>2. CASE U = {}
        <3> HIDE DEF F
        <3> QED BY <2>1, <2>2 DEF FoldStep
    <2>3. CASE U # {}
        <3> DEFINE V == U \ {PickOne(U)}
        <3>1. V \subseteq U /\ V # T /\ V \subseteq T
            BY <1>5, <2>3, PickIsIn
        <3>2. IsFold(f, V, F(V)) /\ IsFold(f, U, F(U))
            BY <3>1, <1>4, <1>5
        <3>3. IsFiniteSet(U)
            BY <1>5, FS_Subset
        <3>4. F(U)[V] = F(V)[V]
            <4> HIDE DEF F, V
            <4> QED  BY <3>1, <3>2, <3>3, FoldsAgree
        <3> HIDE DEF F
        <3>5. h[U] = f[PickOne(U)] + F(V)[V]
            BY <1>5, <2>3
        <3>6. F(U)[U] = f[PickOne(U)] + F(U)[V]
            BY <2>1, <2>3 DEF FoldStep
        <3> QED  BY <3>4, <3>5, <3>6
    <2> QED  BY <2>2, <2>3
<1> HIDE DEF F
<1>6. ASSUME NEW s \in SUBSET T
      PROVE  h[s] = FoldStep(f, h, s)
    <2>1. CASE s = {}
        BY <2>1 DEF FoldStep
    <2>2. CASE s # {}
        <3> DEFINE V == s \ {PickOne(s)}
        <3>1. V \subseteq T /\ V # T
            BY <2>2, PickIsIn
        <3>2. h[V] = F(V)[V]
            BY <3>1, <1>5
        <3>3. h[s] = f[PickOne(s)] + F(V)[V]
            BY <2>2
        <3> HIDE DEF h
        <3> QED  BY <3>2, <3>3, <2>2 DEF FoldStep
    <2> QED  BY <2>1, <2>2
<1>7. IsFold(f, T, h)
    <2>1. h = [s \in SUBSET T |-> h[s]]
        OBVIOUS
    <2> HIDE DEF h
    <2>2. [s \in SUBSET T |-> h[s]] = [s \in SUBSET T |-> FoldStep(f, h, s)]
        BY <1>6
    <2> QED  BY <2>1, <2>2 DEF IsFold
<1> QED  BY <1>7

\* One step of the sum.
LEMMA SumUnfolds ==
    ASSUME NEW f, NEW S, IsFiniteSet(S), S # {}
    PROVE  SumOf(f, S) = f[PickOne(S)] + SumOf(f, S \ {PickOne(S)})
<1> DEFINE F(U) == CHOOSE g : IsFold(f, U, g)
           V == S \ {PickOne(S)}
<1>1. IsFiniteSet(V) /\ V \subseteq S
    BY FS_Subset
<1>2. IsFold(f, S, F(S)) /\ IsFold(f, V, F(V))
    BY <1>1, SumFolds
<1>3. SumOf(f, S) = F(S)[S] /\ SumOf(f, V) = F(V)[V]
    BY SumIsFold
<1> HIDE DEF F
<1>4. F(S)[S] = f[PickOne(S)] + F(S)[V]
    BY <1>2 DEF IsFold, FoldStep
<1>5. F(S)[V] = F(V)[V]
    <2> HIDE DEF V
    <2> QED  BY <1>1, <1>2, FoldsAgree
<1> QED  BY <1>3, <1>4, <1>5

\* No row adds up to 0.
LEMMA SumOfNothing ==
    ASSUME NEW f PROVE SumOf(f, {}) = 0
<1>1. IsFiniteSet({})
    BY FS_EmptySet
<1> DEFINE G == CHOOSE g : IsFold(f, {}, g)
<1>2. IsFold(f, {}, G)
    BY <1>1, SumFolds
<1>3. SumOf(f, {}) = G[{}]
    BY SumIsFold
<1> HIDE DEF G
<1> QED  BY <1>2, <1>3 DEF IsFold, FoldStep

\* A sum of integers is an integer.
LEMMA SumIsInt ==
    ASSUME NEW f, NEW S, IsFiniteSet(S), \A x \in S : f[x] \in Int
    PROVE  SumOf(f, S) \in Int
<1> DEFINE B == {T \in SUBSET S : SumOf(f, T) \notin Int}
<1>1. SUFFICES ASSUME B # {} PROVE FALSE
    OBVIOUS
<1>2. PICK T \in B : \A U \in B : U \subseteq T => U = T
    <2>1. B \subseteq SUBSET S  OBVIOUS
    <2> HIDE DEF B
    <2> QED  BY <1>1, <2>1, SmallestSet
<1>3. T # {}
    BY SumOfNothing
<1>4. PickOne(T) \in T
    BY <1>3, PickIsIn
<1>5. SumOf(f, T \ {PickOne(T)}) \in Int
    BY <1>2, <1>4
<1>6. IsFiniteSet(T)
    BY FS_Subset
<1>7. SumOf(f, T) = f[PickOne(T)] + SumOf(f, T \ {PickOne(T)})
    BY <1>3, <1>6, SumUnfolds
<1> QED  BY <1>4, <1>5, <1>7

\* Any row of the set may be taken out first: the order does not matter.
LEMMA SumTakesOut ==
    ASSUME NEW f, NEW S, IsFiniteSet(S), \A x \in S : f[x] \in Int, NEW x \in S
    PROVE  SumOf(f, S) = f[x] + SumOf(f, S \ {x})
<1> DEFINE B == {T \in SUBSET S :
                   \E y \in T : SumOf(f, T) # f[y] + SumOf(f, T \ {y})}
<1>1. SUFFICES ASSUME B # {} PROVE FALSE
    OBVIOUS
<1>2. PICK T \in B : \A U \in B : U \subseteq T => U = T
    <2>1. B \subseteq SUBSET S  OBVIOUS
    <2> HIDE DEF B
    <2> QED  BY <1>1, <2>1, SmallestSet
<1>3. PICK y \in T : SumOf(f, T) # f[y] + SumOf(f, T \ {y})
    OBVIOUS
<1> DEFINE p == PickOne(T)
<1>4. p \in T
    BY PickIsIn
<1>5. SumOf(f, T) = f[p] + SumOf(f, T \ {p})
    BY SumUnfolds, FS_Subset
<1>6. p # y
    BY <1>3, <1>5
<1> HIDE DEF p
<1>7. SumOf(f, T \ {p}) = f[y] + SumOf(f, (T \ {p}) \ {y})
    <2>1. T \ {p} \in SUBSET S /\ T \ {p} # T /\ y \in T \ {p}
        BY <1>4, <1>6
    <2> QED  BY <2>1, <1>2
<1>8. SumOf(f, T \ {y}) = f[p] + SumOf(f, (T \ {y}) \ {p})
    <2>1. T \ {y} \in SUBSET S /\ T \ {y} # T /\ p \in T \ {y}
        BY <1>4, <1>6
    <2> QED  BY <2>1, <1>2
<1>9. (T \ {p}) \ {y} = (T \ {y}) \ {p}
    OBVIOUS
<1>10. SumOf(f, (T \ {p}) \ {y}) \in Int
    <2>1. IsFiniteSet((T \ {p}) \ {y})
        BY FS_Subset
    <2> QED  BY <2>1, SumIsInt
<1>11. f[p] \in Int /\ f[y] \in Int
    BY <1>4
<1> DEFINE rest == SumOf(f, (T \ {p}) \ {y})
<1>12. SumOf(f, T) = f[p] + (f[y] + rest)
    BY <1>5, <1>7
<1>13. f[y] + SumOf(f, T \ {y}) = f[y] + (f[p] + rest)
    BY <1>8, <1>9
<1>14. rest \in Int
    BY <1>10
<1> HIDE DEF rest, B
<1>15. f[p] + (f[y] + rest) = f[y] + (f[p] + rest)
    BY <1>11, <1>14
<1> QED  BY <1>3, <1>12, <1>13, <1>15

\* A row that enters the set adds its amount.
LEMMA SumPutsIn ==
    ASSUME NEW f, NEW S, IsFiniteSet(S), NEW x, x \notin S,
           \A y \in S \cup {x} : f[y] \in Int
    PROVE  SumOf(f, S \cup {x}) = f[x] + SumOf(f, S)
<1>1. IsFiniteSet(S \cup {x}) /\ (S \cup {x}) \ {x} = S
    BY FS_AddElement
<1> QED  BY <1>1, SumTakesOut

\* The sum depends on the amounts of the rows of the set and on nothing else.
LEMMA SumAgrees ==
    ASSUME NEW S, IsFiniteSet(S), NEW f, NEW g, \A x \in S : f[x] = g[x]
    PROVE  SumOf(f, S) = SumOf(g, S)
<1> DEFINE B == {T \in SUBSET S : SumOf(f, T) # SumOf(g, T)}
<1>1. SUFFICES ASSUME B # {} PROVE FALSE
    OBVIOUS
<1>2. PICK T \in B : \A U \in B : U \subseteq T => U = T
    <2>1. B \subseteq SUBSET S  OBVIOUS
    <2> HIDE DEF B
    <2> QED  BY <1>1, <2>1, SmallestSet
<1>3. T # {}
    BY SumOfNothing
<1>4. PickOne(T) \in T
    BY <1>3, PickIsIn
<1>5. SumOf(f, T \ {PickOne(T)}) = SumOf(g, T \ {PickOne(T)})
    BY <1>2, <1>4
<1>6. IsFiniteSet(T)
    BY FS_Subset
<1>7. /\ SumOf(f, T) = f[PickOne(T)] + SumOf(f, T \ {PickOne(T)})
      /\ SumOf(g, T) = g[PickOne(T)] + SumOf(g, T \ {PickOne(T)})
    BY <1>3, <1>6, SumUnfolds
<1> QED  BY <1>4, <1>5, <1>7

\* A row whose amount changes moves the sum by the difference.
LEMMA SumChanges ==
    ASSUME NEW S, IsFiniteSet(S), NEW f, NEW g, NEW x \in S,
           \A y \in S : f[y] \in Int /\ g[y] \in Int,
           \A y \in S \ {x} : f[y] = g[y]
    PROVE  SumOf(g, S) = SumOf(f, S) - f[x] + g[x]
<1>1. SumOf(f, S) = f[x] + SumOf(f, S \ {x})
    BY SumTakesOut
<1>2. SumOf(g, S) = g[x] + SumOf(g, S \ {x})
    BY SumTakesOut
<1>3. IsFiniteSet(S \ {x})
    BY FS_Subset
<1>4. SumOf(f, S \ {x}) = SumOf(g, S \ {x})
    BY <1>3, SumAgrees
<1>5. SumOf(f, S \ {x}) \in Int
    BY <1>3, SumIsInt
<1> QED  BY <1>1, <1>2, <1>4, <1>5

\* A sum of amounts that are not negative is not negative.
LEMMA SumIsNat ==
    ASSUME NEW f, NEW S, IsFiniteSet(S), \A x \in S : f[x] \in Nat
    PROVE  SumOf(f, S) \in Nat
<1> DEFINE B == {T \in SUBSET S : SumOf(f, T) \notin Nat}
<1>1. SUFFICES ASSUME B # {} PROVE FALSE
    OBVIOUS
<1>2. PICK T \in B : \A U \in B : U \subseteq T => U = T
    <2>1. B \subseteq SUBSET S  OBVIOUS
    <2> HIDE DEF B
    <2> QED  BY <1>1, <2>1, SmallestSet
<1>3. T # {}
    BY SumOfNothing
<1>4. PickOne(T) \in T
    BY <1>3, PickIsIn
<1>5. SumOf(f, T \ {PickOne(T)}) \in Nat
    BY <1>2, <1>4
<1>6. IsFiniteSet(T)
    BY FS_Subset
<1>7. SumOf(f, T) = f[PickOne(T)] + SumOf(f, T \ {PickOne(T)})
    BY <1>3, <1>6, SumUnfolds
<1> QED  BY <1>4, <1>5, <1>7

\* The sum of a set is that of a part and that of the rest.
LEMMA SumSplits ==
    ASSUME NEW f, NEW S, IsFiniteSet(S), \A x \in S : f[x] \in Int,
           NEW R, R \subseteq S
    PROVE  SumOf(f, S) = SumOf(f, R) + SumOf(f, S \ R)
<1> DEFINE B == {T \in SUBSET S : SumOf(f, S) # SumOf(f, T) + SumOf(f, S \ T)}
<1>1. SUFFICES ASSUME B # {} PROVE FALSE
    OBVIOUS
<1>2. PICK T \in B : \A U \in B : U \subseteq T => U = T
    <2>1. B \subseteq SUBSET S  OBVIOUS
    <2> HIDE DEF B
    <2> QED  BY <1>1, <2>1, SmallestSet
<1>3. T # {}
    <2>1. SUFFICES ASSUME T = {} PROVE FALSE
        OBVIOUS
    <2>2. SumOf(f, S) \in Int /\ S \ {} = S
        BY SumIsInt
    <2>3. SumOf(f, S) = 0 + SumOf(f, S \ {})
        BY <2>2
    <2>4. SumOf(f, S) = SumOf(f, T) + SumOf(f, S \ T)
        BY <2>1, <2>3, SumOfNothing
    <2> QED  BY <2>4
<1>4. PICK y \in T : TRUE
    BY <1>3
<1>5. SumOf(f, S) = SumOf(f, T \ {y}) + SumOf(f, S \ (T \ {y}))
    BY <1>2, <1>4
<1>6. SumOf(f, T) = f[y] + SumOf(f, T \ {y})
    BY SumTakesOut, FS_Subset
<1>7. SumOf(f, S \ (T \ {y})) = f[y] + SumOf(f, S \ T)
    <2>1. S \ (T \ {y}) = (S \ T) \cup {y}
        OBVIOUS
    <2>2. IsFiniteSet(S \ T)
        BY FS_Subset
    <2>3. \A x \in (S \ T) \cup {y} : f[x] \in Int
        OBVIOUS
    <2> QED  BY <2>1, <2>2, <2>3, SumPutsIn
<1>8. SumOf(f, S \ T) \in Int /\ SumOf(f, T \ {y}) \in Int /\ f[y] \in Int
    <2>1. IsFiniteSet(S \ T) /\ IsFiniteSet(T \ {y})
        BY FS_Subset
    <2> QED  BY <2>1, SumIsInt
<1>9. SumOf(f, S) = SumOf(f, T) + SumOf(f, S \ T)
    BY <1>5, <1>6, <1>7, <1>8
<1> QED  BY <1>9

\* A part of the rows adds up to no more than all of them.
LEMMA SumOfAPart ==
    ASSUME NEW f, NEW S, IsFiniteSet(S), \A x \in S : f[x] \in Nat,
           NEW R, R \subseteq S
    PROVE  SumOf(f, R) <= SumOf(f, S)
<1>1. SumOf(f, S) = SumOf(f, R) + SumOf(f, S \ R)
    BY SumSplits
<1>2. IsFiniteSet(R) /\ IsFiniteSet(S \ R)
    BY FS_Subset
<1>3. SumOf(f, R) \in Nat /\ SumOf(f, S \ R) \in Nat
    BY <1>2, SumIsNat
<1> QED  BY <1>1, <1>3
=============================================================================
