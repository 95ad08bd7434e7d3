----------------------------- MODULE SumTheorems -----------------------------
(***************************************************************************)
(* What SumFunctionOnSet(f, S), the sum of the values f[x] over a finite    *)
(* set S, is and does.  The models use it for the balances of a product, of *)
(* a title and of the lines of a sale.                                      *)
(*                                                                         *)
(* The sum is a fold, hence a function defined by recursion on subsets,     *)
(* that removes an element of its choice.  The lemmas show that such a      *)
(* function exists, that the choice does not matter, and how sums change    *)
(* with the set and with the function.                                      *)
(***************************************************************************)
EXTENDS FiniteSetsExt, FiniteSetTheorems, WellFoundedInduction, TLAPS

(***************************************************************************)
(* Two forms of induction that speak of sets, so that provers can use them. *)
(***************************************************************************)

Below == {pair \in Nat \X Nat : pair[1] < pair[2]}

\* A nonempty set of numbers has a least one.
LEMMA LeastNumber ==
    ASSUME NEW T \in SUBSET Nat, T # {}
    PROVE  \E n \in T : \A m \in T : n <= m
<1>1. IsWellFoundedOn(Below, Nat)
  BY NatLessThanWellFounded DEF OpToRel, Below
<1>2. PICK n \in T : \A m \in T : << m, n >> \notin Below
  BY <1>1, WFMin
<1>3. ASSUME NEW m \in T PROVE n <= m
  <2>1. << m, n >> \in Nat \X Nat /\ ~(m < n)
    BY <1>2 DEF Below
  <2>2. QED
    BY <2>1
<1>4. QED
  BY <1>3

\* A set of numbers with 0 and with the successors of its elements is Nat.
LEMMA NumbersBySuccessor ==
    ASSUME NEW Q \in SUBSET Nat, 0 \in Q, \A n \in Q : n + 1 \in Q
    PROVE  Q = Nat
<1> SUFFICES ASSUME Nat \ Q # {} PROVE FALSE
  OBVIOUS
<1>1. PICK n \in Nat \ Q : \A m \in Nat \ Q : n <= m
  BY LeastNumber
<1>2. n - 1 \in Nat /\ n - 1 \in Q
  BY <1>1
<1>3. (n - 1) + 1 = n
  BY <1>1
<1>4. QED
  BY <1>1, <1>2, <1>3

\* A set of subsets of a finite set S that holds a subset whenever it holds
\* the smaller ones has them all.
LEMMA SubsetsByRemoval ==
    ASSUME NEW S, IsFiniteSet(S), NEW Q \in SUBSET (SUBSET S),
           \A T \in SUBSET S : (\A x \in T : T \ {x} \in Q) => T \in Q
    PROVE  Q = SUBSET S
<1> DEFINE Other == (SUBSET S) \ Q
<1> SUFFICES ASSUME Other # {} PROVE FALSE
  OBVIOUS
<1>1. IsWellFoundedOn(StrictSubsetOrdering(S), SUBSET S)
  <2>1. FiniteSubsetsOf(S) = SUBSET S
    BY FS_FiniteSubsetsOfFinite
  <2>2. IsWellFoundedOn(StrictSubsetOrdering(S), FiniteSubsetsOf(S))
    BY FS_StrictSubsetOrderingWellFounded
  <2>3. QED
    BY <2>1, <2>2
<1>2. PICK T \in Other : \A U \in Other : << U, T >> \notin StrictSubsetOrdering(S)
  <2>1. Other \subseteq SUBSET S
    OBVIOUS
  <2> HIDE DEF Other
  <2>2. QED
    BY <1>1, <2>1, WFMin
<1>3. PICK x \in T : T \ {x} \notin Q
  BY <1>2
<1>4. T \ {x} \in Other /\ << T \ {x}, T >> \in StrictSubsetOrdering(S)
  BY <1>2, <1>3 DEF StrictSubsetOrdering
<1>5. QED
  BY <1>2, <1>4

-----------------------------------------------------------------------------
(***************************************************************************)
(* The function behind the fold.                                            *)
(***************************************************************************)

Pick(T) == CHOOSE x \in T : TRUE

\* g is the sum of f on the sets in D, which is closed under removal.
Unfolds(g, f, D) ==
    g = [T \in D |-> IF T = {} THEN 0 ELSE f[Pick(T)] + g[T \ {Pick(T)}]]

LEMMA PickIsElement ==
    ASSUME NEW T, T # {} PROVE Pick(T) \in T
BY DEF Pick

LEMMA SumIsFold ==
    ASSUME NEW f, NEW S
    PROVE  SumFunctionOnSet(f, S) = (CHOOSE g : Unfolds(g, f, SUBSET S))[S]
BY DEF SumFunctionOnSet, FoldFunctionOnSet, MapThenFoldSet, Unfolds, Pick

\* There is such a function on the subsets of up to n elements: it extends the
\* one for n.
UpTo(S, n) == {T \in SUBSET S : Cardinality(T) <= n}

LEMMA UnfoldingExists ==
    ASSUME NEW f, NEW S, IsFiniteSet(S)
    PROVE  \E g : Unfolds(g, f, SUBSET S)
<1> DEFINE Q == {n \in Nat : \E g : Unfolds(g, f, UpTo(S, n))}
<1>0. \A T \in SUBSET S : IsFiniteSet(T) /\ Cardinality(T) \in Nat
  BY FS_Subset, FS_CardinalityType
<1>1. 0 \in Q
  <2> DEFINE g == [T \in UpTo(S, 0) |-> 0]
  <2>1. \A T \in UpTo(S, 0) : T = {}
    BY <1>0, FS_EmptySet DEF UpTo
  <2>2. Unfolds(g, f, UpTo(S, 0))
    BY <2>1 DEF Unfolds
  <2>3. QED
    BY <2>2
<1>2. ASSUME NEW n \in Q PROVE n + 1 \in Q
  <2>1. PICK g : Unfolds(g, f, UpTo(S, n))
    OBVIOUS
  <2> DEFINE Value(T) == IF T = {} THEN 0 ELSE f[Pick(T)] + g[T \ {Pick(T)}]
             h == [T \in UpTo(S, n + 1) |-> Value(T)]
  <2>2. n \in Nat
    OBVIOUS
  <2>3. ASSUME NEW T \in UpTo(S, n) PROVE T \in UpTo(S, n + 1) /\ h[T] = g[T]
    <3>1. T \in UpTo(S, n + 1)
      BY <1>0, <2>2 DEF UpTo
    <3>2. g[T] = Value(T)
      BY <2>1 DEF Unfolds
    <3>3. QED
      BY <3>1, <3>2
  <2>4. ASSUME NEW T \in UpTo(S, n + 1), T # {}
        PROVE  h[T \ {Pick(T)}] = g[T \ {Pick(T)}]
    <3>1. Pick(T) \in T /\ IsFiniteSet(T) /\ Cardinality(T) \in Nat /\ Cardinality(T) <= n + 1
      BY <1>0, <2>4, PickIsElement DEF UpTo
    <3>2. Cardinality(T \ {Pick(T)}) = Cardinality(T) - 1
      BY <3>1, FS_RemoveElement
    <3>3. T \ {Pick(T)} \in UpTo(S, n)
      BY <2>2, <3>1, <3>2 DEF UpTo
    <3>4. QED
      BY <2>3, <3>3
  <2>5. Unfolds(h, f, UpTo(S, n + 1))
    <3>1. \A T \in UpTo(S, n + 1) :
            Value(T) = IF T = {} THEN 0 ELSE f[Pick(T)] + h[T \ {Pick(T)}]
      BY <2>4
    <3>2. h = [T \in UpTo(S, n + 1) |->
                  IF T = {} THEN 0 ELSE f[Pick(T)] + h[T \ {Pick(T)}]]
      BY <3>1
    <3>3. QED
      BY <3>2 DEF Unfolds
  <2>6. QED
    BY <2>2, <2>5
<1>3. Q = Nat
  BY <1>1, <1>2, NumbersBySuccessor
<1>4. Cardinality(S) \in Nat /\ UpTo(S, Cardinality(S)) = SUBSET S
  BY <1>0, FS_Subset DEF UpTo
<1>5. Cardinality(S) \in Q
  BY <1>3, <1>4
<1>6. QED
  BY <1>4, <1>5

\* Two such functions agree where both are defined.
LEMMA UnfoldingIsUnique ==
    ASSUME NEW f, NEW S, IsFiniteSet(S), NEW U \in SUBSET S
    PROVE  \A g, h : Unfolds(g, f, SUBSET S) /\ Unfolds(h, f, SUBSET U) => g[U] = h[U]
<1> TAKE g, h
<1> HAVE Unfolds(g, f, SUBSET S) /\ Unfolds(h, f, SUBSET U)
<1> DEFINE Q == {T \in SUBSET U : g[T] = h[T]}
<1>1. IsFiniteSet(U)
  BY FS_Subset
<1>2. ASSUME NEW T \in SUBSET U, \A x \in T : T \ {x} \in Q
      PROVE  T \in Q
  <2>1. /\ g[T] = IF T = {} THEN 0 ELSE f[Pick(T)] + g[T \ {Pick(T)}]
        /\ h[T] = IF T = {} THEN 0 ELSE f[Pick(T)] + h[T \ {Pick(T)}]
    BY DEF Unfolds
  <2>2. T # {} => g[T \ {Pick(T)}] = h[T \ {Pick(T)}]
    BY <1>2, PickIsElement
  <2>3. QED
    BY <2>1, <2>2
<1>3. Q = SUBSET U
  <2>1. Q \in SUBSET (SUBSET U)
    OBVIOUS
  <2> HIDE DEF Q
  <2>2. QED
    BY <1>1, <1>2, <2>1, SubsetsByRemoval
<1>4. QED
  BY <1>3

-----------------------------------------------------------------------------
(***************************************************************************)
(* The equations of sums.                                                   *)
(***************************************************************************)

\* The sum of a set is that of what is left when one element is taken out.
LEMMA SumUnfolds ==
    ASSUME NEW f, NEW S, IsFiniteSet(S)
    PROVE  SumFunctionOnSet(f, S)
             = IF S = {} THEN 0
               ELSE f[Pick(S)] + SumFunctionOnSet(f, S \ {Pick(S)})
<1> DEFINE U == S \ {Pick(S)}
           g == CHOOSE k : Unfolds(k, f, SUBSET S)
           h == CHOOSE k : Unfolds(k, f, SUBSET U)
<1>1. IsFiniteSet(U) /\ U \in SUBSET S
  BY FS_Subset
<1>2. Unfolds(g, f, SUBSET S)
  BY UnfoldingExists
<1>3. Unfolds(h, f, SUBSET U)
  <2>1. \E k : Unfolds(k, f, SUBSET U)
    BY <1>1, UnfoldingExists
  <2>2. QED
    BY <2>1
<1>4. SumFunctionOnSet(f, S) = g[S] /\ SumFunctionOnSet(f, U) = h[U]
  BY SumIsFold
<1> HIDE DEF U, g, h
<1>5. g[U] = h[U]
  <2>1. \A j, k : Unfolds(j, f, SUBSET S) /\ Unfolds(k, f, SUBSET U) => j[U] = k[U]
    BY <1>1, UnfoldingIsUnique, Zenon
  <2>2. QED
    BY <1>2, <1>3, <2>1
<1>6. g[S] = IF S = {} THEN 0 ELSE f[Pick(S)] + g[U]
  BY <1>2 DEF Unfolds, U
<1>7. QED
  BY <1>4, <1>5, <1>6 DEF U

LEMMA SumOfNothing ==
    ASSUME NEW f PROVE SumFunctionOnSet(f, {}) = 0
BY SumUnfolds, FS_EmptySet

LEMMA SumIsInt ==
    ASSUME NEW f, NEW S, IsFiniteSet(S), \A x \in S : f[x] \in Int
    PROVE  SumFunctionOnSet(f, S) \in Int
<1> DEFINE Q == {T \in SUBSET S : SumFunctionOnSet(f, T) \in Int}
<1>1. ASSUME NEW T \in SUBSET S, \A x \in T : T \ {x} \in Q
      PROVE  T \in Q
  <2>1. SumFunctionOnSet(f, T)
          = IF T = {} THEN 0 ELSE f[Pick(T)] + SumFunctionOnSet(f, T \ {Pick(T)})
    BY SumUnfolds, FS_Subset
  <2>2. QED
    BY <1>1, <2>1, PickIsElement
<1>2. Q = SUBSET S
  <2>1. Q \in SUBSET (SUBSET S)
    OBVIOUS
  <2> HIDE DEF Q
  <2>2. QED
    BY <1>1, <2>1, SubsetsByRemoval
<1>3. QED
  BY <1>2

\* The element that is taken out does not matter.
LEMMA SumWithout ==
    ASSUME NEW f, NEW S, IsFiniteSet(S), \A x \in S : f[x] \in Int, NEW y \in S
    PROVE  SumFunctionOnSet(f, S) = f[y] + SumFunctionOnSet(f, S \ {y})
<1> DEFINE Q == {T \in SUBSET S : \A x \in T :
                    SumFunctionOnSet(f, T) = f[x] + SumFunctionOnSet(f, T \ {x})}
<1>0. ASSUME NEW T \in SUBSET S
      PROVE  IsFiniteSet(T) /\ SumFunctionOnSet(f, T) \in Int
  BY FS_Subset, SumIsInt
<1>1. ASSUME NEW T \in SUBSET S, \A x \in T : T \ {x} \in Q
      PROVE  T \in Q
  <2> SUFFICES ASSUME NEW x \in T
               PROVE  SumFunctionOnSet(f, T) = f[x] + SumFunctionOnSet(f, T \ {x})
    OBVIOUS
  <2> DEFINE c == Pick(T)
  <2>1. c \in T
    BY PickIsElement
  <2>2. SumFunctionOnSet(f, T) = f[c] + SumFunctionOnSet(f, T \ {c})
    BY <1>0, SumUnfolds
  <2> HIDE DEF c
  <2>3. CASE c = x
    BY <2>2, <2>3
  <2>4. CASE c # x
    <3>1. SumFunctionOnSet(f, T \ {c}) = f[x] + SumFunctionOnSet(f, (T \ {c}) \ {x})
      BY <1>1, <2>1, <2>4
    <3>2. SumFunctionOnSet(f, T \ {x}) = f[c] + SumFunctionOnSet(f, (T \ {x}) \ {c})
      BY <1>1, <2>1, <2>4
    <3>3. (T \ {c}) \ {x} = (T \ {x}) \ {c}
      OBVIOUS
    <3>4. /\ f[x] \in Int /\ f[c] \in Int
          /\ SumFunctionOnSet(f, (T \ {c}) \ {x}) \in Int
      BY <1>0, <2>1
    <3> DEFINE rest == SumFunctionOnSet(f, (T \ {c}) \ {x})
    <3>5. SumFunctionOnSet(f, T) = f[c] + (f[x] + rest)
      BY <2>2, <3>1
    <3>6. SumFunctionOnSet(f, T \ {x}) = f[c] + rest
      BY <3>2, <3>3
    <3> HIDE DEF rest
    <3>7. QED
      BY <3>4, <3>5, <3>6 DEF rest
  <2>5. QED
    BY <2>3, <2>4
<1>2. Q = SUBSET S
  <2>1. Q \in SUBSET (SUBSET S)
    OBVIOUS
  <2> HIDE DEF Q
  <2>2. QED
    BY <1>1, <2>1, SubsetsByRemoval
<1>3. QED
  BY <1>2

\* Functions that agree on a set have the same sum.
LEMMA SumDependsOnValues ==
    ASSUME NEW f, NEW g, NEW S, IsFiniteSet(S), \A x \in S : f[x] = g[x]
    PROVE  SumFunctionOnSet(f, S) = SumFunctionOnSet(g, S)
<1> DEFINE Q == {T \in SUBSET S : SumFunctionOnSet(f, T) = SumFunctionOnSet(g, T)}
<1>1. ASSUME NEW T \in SUBSET S, \A x \in T : T \ {x} \in Q
      PROVE  T \in Q
  <2>0. IsFiniteSet(T)
    BY FS_Subset
  <2>1. SumFunctionOnSet(f, T)
          = IF T = {} THEN 0 ELSE f[Pick(T)] + SumFunctionOnSet(f, T \ {Pick(T)})
    BY <2>0, SumUnfolds
  <2>2. SumFunctionOnSet(g, T)
          = IF T = {} THEN 0 ELSE g[Pick(T)] + SumFunctionOnSet(g, T \ {Pick(T)})
    BY <2>0, SumUnfolds
  <2>3. QED
    BY <1>1, <2>1, <2>2, PickIsElement
<1>2. Q = SUBSET S
  <2>1. Q \in SUBSET (SUBSET S)
    OBVIOUS
  <2> HIDE DEF Q
  <2>2. QED
    BY <1>1, <2>1, SubsetsByRemoval
<1>3. QED
  BY <1>2

-----------------------------------------------------------------------------
(***************************************************************************)
(* How sums change.                                                         *)
(***************************************************************************)

\* One more element.
LEMMA SumWith ==
    ASSUME NEW f, NEW S, IsFiniteSet(S), NEW y, y \notin S,
           \A x \in S \cup {y} : f[x] \in Int
    PROVE  SumFunctionOnSet(f, S \cup {y}) = SumFunctionOnSet(f, S) + f[y]
<1> DEFINE U == S \cup {y}
<1>1. IsFiniteSet(U) /\ y \in U /\ \A x \in U : f[x] \in Int
  BY FS_AddElement
<1>2. U \ {y} = S
  OBVIOUS
<1>3. SumFunctionOnSet(f, S) \in Int /\ f[y] \in Int
  BY SumIsInt
<1> HIDE DEF U
<1>4. SumFunctionOnSet(f, U) = f[y] + SumFunctionOnSet(f, U \ {y})
  BY <1>1, SumWithout
<1>5. SumFunctionOnSet(f, U) = f[y] + SumFunctionOnSet(f, S)
  BY <1>2, <1>4
<1>6. SumFunctionOnSet(f, U) = SumFunctionOnSet(f, S) + f[y]
  BY <1>3, <1>5
<1>7. QED
  BY <1>6 DEF U

\* One value changes.
LEMMA SumOfUpdate ==
    ASSUME NEW f, NEW g, NEW S, IsFiniteSet(S), NEW y \in S,
           \A x \in S : f[x] \in Int /\ g[x] \in Int,
           \A x \in S \ {y} : g[x] = f[x]
    PROVE  SumFunctionOnSet(g, S) = SumFunctionOnSet(f, S) + g[y] - f[y]
<1> DEFINE U == S \ {y}
<1>1. IsFiniteSet(U)
  BY FS_RemoveElement
<1>2. SumFunctionOnSet(f, S) = f[y] + SumFunctionOnSet(f, U)
  BY SumWithout
<1>3. SumFunctionOnSet(g, S) = g[y] + SumFunctionOnSet(g, U)
  BY SumWithout
<1>4. SumFunctionOnSet(g, U) = SumFunctionOnSet(f, U)
  BY <1>1, SumDependsOnValues
<1>5. SumFunctionOnSet(f, U) \in Int
  BY <1>1, SumIsInt
<1>6. QED
  BY <1>2, <1>3, <1>4, <1>5

\* Induction over the subsets of S as the lemmas below use it: they hold for
\* the empty set and when an element is added.
LEMMA SubsetsByAddition ==
    ASSUME NEW S, IsFiniteSet(S), NEW Q \in SUBSET (SUBSET S), {} \in Q,
           \A T \in Q : \A x \in S \ T : T \cup {x} \in Q
    PROVE  Q = SUBSET S
<1>1. ASSUME NEW T \in SUBSET S, \A x \in T : T \ {x} \in Q
      PROVE  T \in Q
  <2>1. CASE T = {}
    BY <2>1
  <2>2. CASE T # {}
    <3>1. PICK x \in T : TRUE
      BY <2>2
    <3>2. T \ {x} \in Q /\ x \in S \ (T \ {x}) /\ (T \ {x}) \cup {x} = T
      BY <1>1, <3>1
    <3>3. QED
      BY <3>2
  <2>3. QED
    BY <2>1, <2>2
<1>2. QED
  BY <1>1, SubsetsByRemoval

\* The sum of the sums of two functions.
LEMMA SumOfSums ==
    ASSUME NEW f, NEW g, NEW h, NEW S, IsFiniteSet(S),
           \A x \in S : f[x] \in Int /\ g[x] \in Int /\ h[x] = f[x] + g[x]
    PROVE  SumFunctionOnSet(h, S) = SumFunctionOnSet(f, S) + SumFunctionOnSet(g, S)
<1> DEFINE Q == {T \in SUBSET S : SumFunctionOnSet(h, T)
                                  = SumFunctionOnSet(f, T) + SumFunctionOnSet(g, T)}
<1>1. {} \in Q
  BY SumOfNothing
<1>2. ASSUME NEW T \in Q, NEW x \in S \ T PROVE T \cup {x} \in Q
  <2>1. IsFiniteSet(T) /\ T \subseteq S
    BY FS_Subset
  <2>2. /\ SumFunctionOnSet(f, T \cup {x}) = SumFunctionOnSet(f, T) + f[x]
        /\ SumFunctionOnSet(g, T \cup {x}) = SumFunctionOnSet(g, T) + g[x]
        /\ SumFunctionOnSet(h, T \cup {x}) = SumFunctionOnSet(h, T) + h[x]
    BY <2>1, SumWith
  <2>3. SumFunctionOnSet(f, T) \in Int /\ SumFunctionOnSet(g, T) \in Int
    BY <2>1, SumIsInt
  <2>4. QED
    BY <2>1, <2>2, <2>3
<1>3. Q = SUBSET S
  <2>1. Q \in SUBSET (SUBSET S)
    OBVIOUS
  <2> HIDE DEF Q
  <2>2. QED
    BY <1>1, <1>2, <2>1, SubsetsByAddition
<1>4. QED
  BY <1>3

\* Sums of larger values are larger.
LEMMA SumIsMonotone ==
    ASSUME NEW f, NEW g, NEW S, IsFiniteSet(S),
           \A x \in S : f[x] \in Int /\ g[x] \in Int /\ f[x] <= g[x]
    PROVE  SumFunctionOnSet(f, S) <= SumFunctionOnSet(g, S)
<1> DEFINE Q == {T \in SUBSET S : SumFunctionOnSet(f, T) <= SumFunctionOnSet(g, T)}
<1>1. {} \in Q
  BY SumOfNothing
<1>2. ASSUME NEW T \in Q, NEW x \in S \ T PROVE T \cup {x} \in Q
  <2>1. IsFiniteSet(T) /\ T \subseteq S
    BY FS_Subset
  <2>2. /\ SumFunctionOnSet(f, T \cup {x}) = SumFunctionOnSet(f, T) + f[x]
        /\ SumFunctionOnSet(g, T \cup {x}) = SumFunctionOnSet(g, T) + g[x]
    BY <2>1, SumWith
  <2>3. SumFunctionOnSet(f, T) \in Int /\ SumFunctionOnSet(g, T) \in Int
    BY <2>1, SumIsInt
  <2>4. QED
    BY <2>1, <2>2, <2>3
<1>3. Q = SUBSET S
  <2>1. Q \in SUBSET (SUBSET S)
    OBVIOUS
  <2> HIDE DEF Q
  <2>2. QED
    BY <1>1, <1>2, <2>1, SubsetsByAddition
<1>4. QED
  BY <1>3

\* Two sets without a common element.
LEMMA SumOfUnion ==
    ASSUME NEW f, NEW S, NEW U, IsFiniteSet(S), IsFiniteSet(U), S \cap U = {},
           \A x \in S \cup U : f[x] \in Int
    PROVE  SumFunctionOnSet(f, S \cup U)
             = SumFunctionOnSet(f, S) + SumFunctionOnSet(f, U)
<1> DEFINE Q == {T \in SUBSET U : SumFunctionOnSet(f, S \cup T)
                                  = SumFunctionOnSet(f, S) + SumFunctionOnSet(f, T)}
<1>1. {} \in Q
  <2>1. SumFunctionOnSet(f, S) \in Int /\ S \cup {} = S
    BY SumIsInt
  <2>2. QED
    BY <2>1, SumOfNothing
<1>2. ASSUME NEW T \in Q, NEW x \in U \ T PROVE T \cup {x} \in Q
  <2>1. IsFiniteSet(T) /\ T \subseteq U
    BY FS_Subset
  <2>2. IsFiniteSet(S \cup T) /\ x \notin S \cup T
    BY <2>1, FS_Union
  <2>3. SumFunctionOnSet(f, (S \cup T) \cup {x}) = SumFunctionOnSet(f, S \cup T) + f[x]
    <3>1. \A y \in (S \cup T) \cup {x} : f[y] \in Int
      BY <2>1
    <3>2. QED
      BY <2>2, <3>1, SumWith
  <2>4. SumFunctionOnSet(f, T \cup {x}) = SumFunctionOnSet(f, T) + f[x]
    BY <2>1, SumWith
  <2>5. /\ SumFunctionOnSet(f, T) \in Int /\ SumFunctionOnSet(f, S) \in Int
        /\ f[x] \in Int
    BY <2>1, SumIsInt
  <2>6. SumFunctionOnSet(f, S \cup T) = SumFunctionOnSet(f, S) + SumFunctionOnSet(f, T)
    OBVIOUS
  <2>7. SumFunctionOnSet(f, (S \cup T) \cup {x})
          = SumFunctionOnSet(f, S) + SumFunctionOnSet(f, T \cup {x})
    BY <2>3, <2>4, <2>5, <2>6
  <2>8. (S \cup T) \cup {x} = S \cup (T \cup {x}) /\ T \cup {x} \in SUBSET U
    BY <2>1
  <2>9. QED
    BY <2>7, <2>8
<1>3. Q = SUBSET U
  <2>1. Q \in SUBSET (SUBSET U)
    OBVIOUS
  <2> HIDE DEF Q
  <2>2. QED
    BY <1>1, <1>2, <2>1, SubsetsByAddition
<1>4. QED
  BY <1>3

\* A sum of numbers is a number, at least as large as that of a part.
LEMMA SumIsNat ==
    ASSUME NEW f, NEW S, IsFiniteSet(S), \A x \in S : f[x] \in Nat
    PROVE  SumFunctionOnSet(f, S) \in Nat
<1> DEFINE zero == [x \in S |-> 0]
<1>1. SumFunctionOnSet(f, S) \in Int /\ SumFunctionOnSet(zero, S) \in Int
  BY SumIsInt
<1>2. SumFunctionOnSet(zero, S) = SumFunctionOnSet(zero, S) + SumFunctionOnSet(zero, S)
  BY SumOfSums
<1>3. SumFunctionOnSet(zero, S) <= SumFunctionOnSet(f, S)
  BY SumIsMonotone
<1> HIDE DEF zero
<1>4. QED
  BY <1>1, <1>2, <1>3

LEMMA SumOfPart ==
    ASSUME NEW f, NEW S, IsFiniteSet(S), NEW T \in SUBSET S, \A x \in S : f[x] \in Nat
    PROVE  /\ SumFunctionOnSet(f, T) \in Nat
           /\ SumFunctionOnSet(f, T) <= SumFunctionOnSet(f, S)
<1>1. /\ IsFiniteSet(T) /\ IsFiniteSet(S \ T) /\ T \cap (S \ T) = {}
      /\ T \cup (S \ T) = S
  BY FS_Subset
<1>2. \A x \in S : f[x] \in Int
  OBVIOUS
<1>3. SumFunctionOnSet(f, S) = SumFunctionOnSet(f, T) + SumFunctionOnSet(f, S \ T)
  BY <1>1, <1>2, SumOfUnion
<1>4. SumFunctionOnSet(f, T) \in Nat /\ SumFunctionOnSet(f, S \ T) \in Nat
  BY <1>1, SumIsNat
<1>5. QED
  BY <1>3, <1>4

LEMMA SumOfZeros ==
    ASSUME NEW f, NEW S, IsFiniteSet(S), \A x \in S : f[x] = 0
    PROVE  SumFunctionOnSet(f, S) = 0
<1>1. SumFunctionOnSet(f, S) \in Int
  BY SumIsInt
<1>2. SumFunctionOnSet(f, S) = SumFunctionOnSet(f, S) + SumFunctionOnSet(f, S)
  BY SumOfSums
<1>3. QED
  BY <1>1, <1>2

\* The elements may be named otherwise.
LEMMA SumOfImage ==
    ASSUME NEW f, NEW S, IsFiniteSet(S), NEW b, NEW g,
           \A x, y \in S : b[x] = b[y] => x = y,
           \A x \in S : g[x] = f[b[x]] /\ g[x] \in Int
    PROVE  SumFunctionOnSet(f, {b[x] : x \in S}) = SumFunctionOnSet(g, S)
<1> DEFINE Image(T) == {b[x] : x \in T}
           Q == {T \in SUBSET S : /\ IsFiniteSet(Image(T))
                                  /\ SumFunctionOnSet(f, Image(T)) = SumFunctionOnSet(g, T)}
<1>1. {} \in Q
  <2>1. Image({}) = {}
    OBVIOUS
  <2>2. QED
    BY <2>1, SumOfNothing, FS_EmptySet
<1>2. ASSUME NEW T \in Q, NEW x \in S \ T PROVE T \cup {x} \in Q
  <2>1. IsFiniteSet(T) /\ T \subseteq S /\ IsFiniteSet(Image(T))
    BY FS_Subset
  <2>2. Image(T \cup {x}) = Image(T) \cup {b[x]} /\ b[x] \notin Image(T)
    BY <2>1
  <2>3. \A y \in Image(T) \cup {b[x]} : f[y] \in Int
    BY <2>1
  <2>4. IsFiniteSet(Image(T) \cup {b[x]})
    BY <2>1, FS_AddElement
  <2>5. SumFunctionOnSet(f, Image(T) \cup {b[x]}) = SumFunctionOnSet(f, Image(T)) + f[b[x]]
    <3> HIDE DEF Image
    <3> QED
      BY <2>1, <2>2, <2>3, SumWith
  <2>6. SumFunctionOnSet(g, T \cup {x}) = SumFunctionOnSet(g, T) + g[x]
    BY <2>1, SumWith
  <2>7. g[x] = f[b[x]] /\ SumFunctionOnSet(f, Image(T)) = SumFunctionOnSet(g, T)
    OBVIOUS
  <2>8. T \cup {x} \in SUBSET S
    BY <2>1
  <2> HIDE DEF Image
  <2>9. QED
    BY <2>2, <2>4, <2>5, <2>6, <2>7, <2>8
<1>3. Q = SUBSET S
  <2>1. Q \in SUBSET (SUBSET S)
    OBVIOUS
  <2> HIDE DEF Q
  <2>2. QED
    BY <1>1, <1>2, <2>1, SubsetsByAddition
<1>4. QED
  BY <1>3

LEMMA SumRenamed ==
    ASSUME NEW f, NEW S, IsFiniteSet(S), NEW U, NEW b, NEW g,
           \A x \in S : b[x] \in U, \A u \in U : \E x \in S : b[x] = u,
           \A x, y \in S : b[x] = b[y] => x = y,
           \A x \in S : g[x] = f[b[x]] /\ g[x] \in Int
    PROVE  SumFunctionOnSet(f, U) = SumFunctionOnSet(g, S)
<1>1. SumFunctionOnSet(f, {b[x] : x \in S}) = SumFunctionOnSet(g, S)
  BY SumOfImage
<1>2. {b[x] : x \in S} = U
  OBVIOUS
<1>3. QED
  BY <1>1, <1>2
=============================================================================
