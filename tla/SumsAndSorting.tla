---------------------------- MODULE SumsAndSorting ----------------------------
(***************************************************************************)
(* What the proofs about reports and lists need of sums over finite sets,  *)
(* of QueryOrder, and of division: facts about data, proved by induction.  *)
(***************************************************************************)
EXTENDS SequencesExt, QueryOrder, FiniteSetTheorems, FunctionTheorems, TLAPS

(***************************************************************************)
(* Induction.  The provers cannot instantiate the library's induction      *)
(* theorems, which take a predicate; they can cite a theorem about a set.  *)
(* A set that has 0 and with a number the next has every natural number.   *)
(***************************************************************************)
LEMMA NatsBySteps ==
  ASSUME NEW S, 0 \in S, \A n \in Nat : n \in S => n + 1 \in S
  PROVE  Nat \subseteq S
<1> DEFINE T == Nat \ S
           R == OpToRel(<, Nat)
<1> SUFFICES ASSUME T # {} PROVE FALSE
  OBVIOUS
<1>1. PICK x \in T : \A y \in T : <<y, x>> \notin R
  <2>1. IsWellFoundedOn(R, Nat) /\ T \subseteq Nat
    BY NatLessThanWellFounded
  <2> HIDE DEF T, R
  <2> QED BY <2>1, WFMin
<1>2. x \in Nat /\ x # 0 /\ x - 1 \in Nat
  OBVIOUS
<1>3. <<x - 1, x>> \in R
  BY <1>2 DEF OpToRel
<1>4. x - 1 \in S
  BY <1>1, <1>2, <1>3
<1> QED BY <1>2, <1>4

(***************************************************************************)
(* A collection that has the empty set, and has a set when it has all that *)
(* are one element smaller, has every subset of a finite set.              *)
(***************************************************************************)
LEMMA SetsBySteps ==
  ASSUME NEW S, IsFiniteSet(S), NEW F, {} \in F,
         \A T \in SUBSET S : T # {} /\ (\A x \in T : T \ {x} \in F) => T \in F
  PROVE  SUBSET S \subseteq F
<1> DEFINE N == {n \in Nat : \A T \in SUBSET S : Cardinality(T) = n => T \in F}
<1>1. \A T \in SUBSET S : IsFiniteSet(T) /\ Cardinality(T) \in Nat
  BY FS_Subset, FS_CardinalityType
<1>2. 0 \in N
  BY <1>1, FS_EmptySet
<1>3. ASSUME NEW n \in Nat, n \in N PROVE n + 1 \in N
  <2> SUFFICES ASSUME NEW T \in SUBSET S, Cardinality(T) = n + 1 PROVE T \in F
    OBVIOUS
  <2>1. IsFiniteSet(T) /\ T # {}
    BY <1>1, FS_EmptySet
  <2>2. ASSUME NEW x \in T PROVE T \ {x} \in F
    <3>1. Cardinality(T \ {x}) = Cardinality(T) - 1
      BY <2>1, FS_RemoveElement
    <3> QED BY <1>3, <3>1
  <2> QED BY <2>1, <2>2
<1>4. Nat \subseteq N
  <2> HIDE DEF N
  <2> QED BY <1>2, <1>3, NatsBySteps
<1> QED BY <1>1, <1>4

-----------------------------------------------------------------------------
Chosen(T) == CHOOSE x \in T : TRUE

Added(f, g, T) == IF T = {} THEN 0 ELSE f[Chosen(T)] + g[T \ {Chosen(T)}]

Folding(f, D) == CHOOSE g : g = [T \in D |-> Added(f, g, T)]

(***************************************************************************)
(* The sum of the community modules is the value, at the set itself, of a  *)
(* function that is chosen because it satisfies the recursive equation.    *)
(***************************************************************************)
LEMMA SumIsFolding ==
  ASSUME NEW f, NEW S
  PROVE  SumFunctionOnSet(f, S) = Folding(f, SUBSET S)[S]
BY DEF SumFunctionOnSet, FoldFunctionOnSet, MapThenFoldSet, Folding, Added, Chosen

(***************************************************************************)
(* There is such a function on the subsets of a finite set: it is built on *)
(* the subsets of at most n elements, for every n.                         *)
(***************************************************************************)
LEMMA FoldingUnfolds ==
  ASSUME NEW f, NEW S, IsFiniteSet(S)
  PROVE  \A T \in SUBSET S : Folding(f, SUBSET S)[T] = Added(f, Folding(f, SUBSET S), T)
<1> DEFINE Upto(n) == {T \in SUBSET S : Cardinality(T) <= n}
           Unfolds(g, n) == g = [T \in Upto(n) |-> Added(f, g, T)]
           N == {n \in Nat : \E g : Unfolds(g, n)}
<1>1. \A T \in SUBSET S : IsFiniteSet(T) /\ Cardinality(T) \in Nat
                          /\ Cardinality(T) <= Cardinality(S)
  BY FS_Subset, FS_CardinalityType
<1>2. \A T \in SUBSET S : T # {} => /\ Chosen(T) \in T
                                    /\ Cardinality(T \ {Chosen(T)}) = Cardinality(T) - 1
  BY <1>1, FS_RemoveElement DEF Chosen
<1>3. 0 \in N
  <2>1. \A T \in Upto(0) : T = {}
    BY <1>1, FS_EmptySet
  <2>2. Unfolds([T \in Upto(0) |-> 0], 0)
    BY <2>1 DEF Added
  <2> QED BY <2>2
<1>4. ASSUME NEW n \in Nat, n \in N PROVE n + 1 \in N
  <2>1. PICK g : Unfolds(g, n)
    BY <1>4
  <2> DEFINE h == [T \in Upto(n + 1) |-> IF T \in Upto(n) THEN g[T] ELSE Added(f, g, T)]
  <2>2. ASSUME NEW T \in Upto(n + 1) PROVE h[T] = Added(f, h, T)
    <3>1. h[T] = Added(f, g, T)
      BY <2>1
    <3>2. T # {} => T \ {Chosen(T)} \in Upto(n)
      <4>1. T \in SUBSET S /\ Cardinality(T) \in Nat /\ Cardinality(T) <= n + 1
        BY <1>1
      <4>2. T # {} => Cardinality(T \ {Chosen(T)}) = Cardinality(T) - 1
        BY <1>2, <4>1
      <4>3. T # {} => Cardinality(T \ {Chosen(T)}) <= n
        BY <4>1, <4>2
      <4> QED BY <4>1, <4>3
    <3>3. T # {} => T \ {Chosen(T)} \in Upto(n + 1)
      BY <3>2, <1>1
    <3>4. T # {} => h[T \ {Chosen(T)}] = g[T \ {Chosen(T)}]
      BY <3>2, <3>3
    <3> QED BY <3>1, <3>4 DEF Added
  <2>3. Unfolds(h, n + 1)
    BY <2>2
  <2> HIDE DEF Unfolds, h
  <2> QED BY <2>3
<1>5. Nat \subseteq N
  <2> HIDE DEF N
  <2> QED BY <1>3, <1>4, NatsBySteps
<1>6. Upto(Cardinality(S)) = SUBSET S /\ Cardinality(S) \in Nat
  BY <1>1
<1>7. PICK g : g = [T \in SUBSET S |-> Added(f, g, T)]
  BY <1>5, <1>6
<1>8. Folding(f, SUBSET S) = [T \in SUBSET S |-> Added(f, Folding(f, SUBSET S), T)]
  BY <1>7 DEF Folding
<1> QED BY <1>8

(***************************************************************************)
(* The functions of a set and of a larger one give the subsets the same.   *)
(***************************************************************************)
LEMMA FoldingAgrees ==
  ASSUME NEW f, NEW S, IsFiniteSet(S), NEW T \in SUBSET S
  PROVE  Folding(f, SUBSET S)[T] = Folding(f, SUBSET T)[T]
<1> DEFINE F == {U \in SUBSET T : Folding(f, SUBSET S)[U] = Folding(f, SUBSET T)[U]}
<1>1. IsFiniteSet(T)
  BY FS_Subset
<1>2. \A U \in SUBSET T : /\ Folding(f, SUBSET T)[U] = Added(f, Folding(f, SUBSET T), U)
                          /\ Folding(f, SUBSET S)[U] = Added(f, Folding(f, SUBSET S), U)
  BY <1>1, FoldingUnfolds
<1>3. {} \in F
  BY <1>2 DEF Added
<1>4. ASSUME NEW U \in SUBSET T, U # {}, \A x \in U : U \ {x} \in F PROVE U \in F
  <2>1. Chosen(U) \in U
    BY <1>4 DEF Chosen
  <2>2. U \ {Chosen(U)} \in F
    BY <1>4, <2>1
  <2> QED BY <1>2, <2>2 DEF Added
<1>5. SUBSET T \subseteq F
  <2> HIDE DEF F
  <2> QED BY <1>1, <1>3, <1>4, SetsBySteps
<1> QED BY <1>5

(***************************************************************************)
(* The sum over the empty set, and over another by its chosen element.     *)
(***************************************************************************)
LEMMA SumEmpty == ASSUME NEW f PROVE SumFunctionOnSet(f, {}) = 0
<1>1. IsFiniteSet({})
  BY FS_EmptySet
<1>2. Folding(f, SUBSET {})[{}] = Added(f, Folding(f, SUBSET {}), {})
  BY <1>1, FoldingUnfolds
<1> QED BY <1>2, SumIsFolding DEF Added

LEMMA SumChosen ==
  ASSUME NEW f, NEW S, IsFiniteSet(S), S # {}
  PROVE  SumFunctionOnSet(f, S) = f[Chosen(S)] + SumFunctionOnSet(f, S \ {Chosen(S)})
<1>1. Folding(f, SUBSET S)[S] = Added(f, Folding(f, SUBSET S), S)
  BY FoldingUnfolds
<1>2. Folding(f, SUBSET S)[S \ {Chosen(S)}]
      = Folding(f, SUBSET (S \ {Chosen(S)}))[S \ {Chosen(S)}]
  BY FoldingAgrees
<1>3. SumFunctionOnSet(f, S) = f[Chosen(S)] + Folding(f, SUBSET S)[S \ {Chosen(S)}]
  BY <1>1, SumIsFolding DEF Added
<1> QED BY <1>2, <1>3, SumIsFolding

(***************************************************************************)
(* Sums of integers are integers, and those of naturals are naturals.      *)
(***************************************************************************)
LEMMA SumIsInt ==
  ASSUME NEW f, NEW S, IsFiniteSet(S), \A x \in S : f[x] \in Int
  PROVE  SumFunctionOnSet(f, S) \in Int
<1> DEFINE F == {T \in SUBSET S : SumFunctionOnSet(f, T) \in Int}
<1>1. {} \in F
  BY SumEmpty
<1>2. ASSUME NEW T \in SUBSET S, T # {}, \A x \in T : T \ {x} \in F PROVE T \in F
  <2>1. IsFiniteSet(T) /\ Chosen(T) \in T
    BY <1>2, FS_Subset DEF Chosen
  <2>2. SumFunctionOnSet(f, T) = f[Chosen(T)] + SumFunctionOnSet(f, T \ {Chosen(T)})
    BY <1>2, <2>1, SumChosen
  <2> QED BY <1>2, <2>1, <2>2
<1>3. SUBSET S \subseteq F
  <2> HIDE DEF F
  <2> QED BY <1>1, <1>2, SetsBySteps
<1> QED BY <1>3

(***************************************************************************)
(* Any element may be taken out of a sum first.                            *)
(***************************************************************************)
LEMMA SumTakes ==
  ASSUME NEW f, NEW S, IsFiniteSet(S), \A y \in S : f[y] \in Int, NEW x \in S
  PROVE  SumFunctionOnSet(f, S) = f[x] + SumFunctionOnSet(f, S \ {x})
<1> DEFINE Takes(T, y) == SumFunctionOnSet(f, T) = f[y] + SumFunctionOnSet(f, T \ {y})
           F == {T \in SUBSET S : \A y \in T : Takes(T, y)}
<1>1. {} \in F
  OBVIOUS
<1>2. ASSUME NEW T \in SUBSET S, T # {}, \A y \in T : T \ {y} \in F PROVE T \in F
  <2>1. PICK c \in T : c = Chosen(T)
    BY <1>2 DEF Chosen
  <2>2. Takes(T, c)
    BY <1>2, <2>1, FS_Subset, SumChosen
  <2>3. ASSUME NEW y \in T, y # c PROVE Takes(T, y)
    <3>1. (T \ {y}) \ {c} = (T \ {c}) \ {y}
      OBVIOUS
    <3>2. Takes(T \ {c}, y) /\ Takes(T \ {y}, c)
      BY <1>2, <2>3
    <3>3. \A U \in SUBSET S : SumFunctionOnSet(f, U) \in Int
      BY FS_Subset, SumIsInt
    <3>4. SumFunctionOnSet(f, (T \ {c}) \ {y}) \in Int /\ f[y] \in Int /\ f[c] \in Int
      BY <3>3
    <3>5. SumFunctionOnSet(f, T) = f[c] + (f[y] + SumFunctionOnSet(f, (T \ {c}) \ {y}))
      BY <2>2, <3>2
    <3>6. SumFunctionOnSet(f, T \ {y}) = f[c] + SumFunctionOnSet(f, (T \ {c}) \ {y})
      BY <3>1, <3>2
    <3> QED BY <3>4, <3>5, <3>6
  <2> QED BY <2>2, <2>3
<1>3. SUBSET S \subseteq F
  <2> HIDE DEF F
  <2> QED BY <1>1, <1>2, SetsBySteps
<1> QED BY <1>3

LEMMA SumAdds ==
  ASSUME NEW f, NEW S, IsFiniteSet(S), NEW x, x \notin S, \A y \in S \union {x} : f[y] \in Int
  PROVE  SumFunctionOnSet(f, S \union {x}) = f[x] + SumFunctionOnSet(f, S)
<1>1. IsFiniteSet(S \union {x}) /\ (S \union {x}) \ {x} = S
  BY FS_AddElement
<1> QED BY <1>1, SumTakes

(***************************************************************************)
(* Functions that agree on a set have one sum over it.                     *)
(***************************************************************************)
LEMMA SumAgrees ==
  ASSUME NEW f, NEW g, NEW S, IsFiniteSet(S), \A y \in S : f[y] \in Int /\ g[y] = f[y]
  PROVE  SumFunctionOnSet(f, S) = SumFunctionOnSet(g, S)
<1> DEFINE F == {T \in SUBSET S : SumFunctionOnSet(f, T) = SumFunctionOnSet(g, T)}
<1>1. {} \in F
  BY SumEmpty
<1>2. ASSUME NEW T \in SUBSET S, T # {}, \A x \in T : T \ {x} \in F PROVE T \in F
  <2>1. PICK x \in T : TRUE
    BY <1>2
  <2>2. IsFiniteSet(T) /\ \A y \in T : f[y] \in Int /\ g[y] \in Int
    BY FS_Subset
  <2>3. /\ SumFunctionOnSet(f, T) = f[x] + SumFunctionOnSet(f, T \ {x})
        /\ SumFunctionOnSet(g, T) = g[x] + SumFunctionOnSet(g, T \ {x})
    BY <2>2, SumTakes
  <2> QED BY <1>2, <2>3
<1>3. SUBSET S \subseteq F
  <2> HIDE DEF F
  <2> QED BY <1>1, <1>2, SetsBySteps
<1> QED BY <1>3

(***************************************************************************)
(* A function that is nowhere smaller has no smaller sum.                  *)
(***************************************************************************)
LEMMA SumGrows ==
  ASSUME NEW f, NEW g, NEW S, IsFiniteSet(S),
         \A y \in S : f[y] \in Int /\ g[y] \in Int /\ f[y] <= g[y]
  PROVE  SumFunctionOnSet(f, S) <= SumFunctionOnSet(g, S)
<1> DEFINE F == {T \in SUBSET S : SumFunctionOnSet(f, T) <= SumFunctionOnSet(g, T)}
<1>1. {} \in F
  BY SumEmpty
<1>2. ASSUME NEW T \in SUBSET S, T # {}, \A x \in T : T \ {x} \in F PROVE T \in F
  <2>1. PICK x \in T : TRUE
    BY <1>2
  <2>2. IsFiniteSet(T) /\ IsFiniteSet(T \ {x})
    BY FS_Subset
  <2>3. /\ SumFunctionOnSet(f, T) = f[x] + SumFunctionOnSet(f, T \ {x})
        /\ SumFunctionOnSet(g, T) = g[x] + SumFunctionOnSet(g, T \ {x})
    BY <2>2, SumTakes
  <2>4. /\ SumFunctionOnSet(f, T \ {x}) \in Int /\ SumFunctionOnSet(g, T \ {x}) \in Int
        /\ f[x] \in Int /\ g[x] \in Int /\ f[x] <= g[x]
    BY <2>2, SumIsInt
  <2>5. SumFunctionOnSet(f, T \ {x}) <= SumFunctionOnSet(g, T \ {x})
    BY <1>2
  <2> QED BY <2>3, <2>4, <2>5
<1>3. SUBSET S \subseteq F
  <2> HIDE DEF F
  <2> QED BY <1>1, <1>2, SetsBySteps
<1> QED BY <1>3

(***************************************************************************)
(* The sum over two sets that share nothing is that of their sums.         *)
(***************************************************************************)
LEMMA SumOfUnion ==
  ASSUME NEW f, NEW S, IsFiniteSet(S), NEW R \in SUBSET S, NEW Q \in SUBSET S, R \intersect Q = {},
         \A y \in S : f[y] \in Int
  PROVE  SumFunctionOnSet(f, R \union Q) = SumFunctionOnSet(f, R) + SumFunctionOnSet(f, Q)
<1> DEFINE F == {T \in SUBSET Q : SumFunctionOnSet(f, R \union T)
                                 = SumFunctionOnSet(f, R) + SumFunctionOnSet(f, T)}
<1>1. IsFiniteSet(Q) /\ SumFunctionOnSet(f, R) \in Int
  BY FS_Subset, SumIsInt
<1>2. {} \in F
  BY <1>1, SumEmpty
<1>3. ASSUME NEW T \in SUBSET Q, T # {}, \A x \in T : T \ {x} \in F PROVE T \in F
  <2>1. PICK x \in T : TRUE
    BY <1>3
  <2>2. IsFiniteSet(T) /\ IsFiniteSet(T \ {x}) /\ IsFiniteSet(R \union T)
    BY FS_Subset
  <2>3. (R \union T) \ {x} = R \union (T \ {x})
    OBVIOUS
  <2>4. SumFunctionOnSet(f, T) = f[x] + SumFunctionOnSet(f, T \ {x})
    BY <2>2, SumTakes
  <2>5. SumFunctionOnSet(f, R \union T) = f[x] + SumFunctionOnSet(f, R \union (T \ {x}))
    BY <2>2, <2>3, SumTakes
  <2>6. SumFunctionOnSet(f, T \ {x}) \in Int /\ f[x] \in Int
    BY <2>2, SumIsInt
  <2>7. SumFunctionOnSet(f, R \union (T \ {x}))
        = SumFunctionOnSet(f, R) + SumFunctionOnSet(f, T \ {x})
    BY <1>3
  <2> QED BY <1>1, <2>4, <2>5, <2>6, <2>7
<1>4. SUBSET Q \subseteq F
  <2> HIDE DEF F
  <2> QED BY <1>1, <1>2, <1>3, SetsBySteps
<1> QED BY <1>4

LEMMA SumIsNat ==
  ASSUME NEW f, NEW S, IsFiniteSet(S), \A y \in S : f[y] \in Nat
  PROVE  SumFunctionOnSet(f, S) \in Nat
<1> DEFINE F == {T \in SUBSET S : SumFunctionOnSet(f, T) \in Nat}
<1>1. {} \in F
  BY SumEmpty
<1>2. ASSUME NEW T \in SUBSET S, T # {}, \A x \in T : T \ {x} \in F PROVE T \in F
  <2>1. PICK x \in T : TRUE
    BY <1>2
  <2>2. IsFiniteSet(T) /\ \A y \in T : f[y] \in Int
    BY FS_Subset
  <2>3. SumFunctionOnSet(f, T) = f[x] + SumFunctionOnSet(f, T \ {x})
    BY <2>2, SumTakes
  <2> QED BY <1>2, <2>3
<1>3. SUBSET S \subseteq F
  <2> HIDE DEF F
  <2> QED BY <1>1, <1>2, SetsBySteps
<1> QED BY <1>3

(***************************************************************************)
(* Of what is never negative, a part has no larger sum than the whole.     *)
(***************************************************************************)
LEMMA SumOfPart ==
  ASSUME NEW f, NEW S, IsFiniteSet(S), \A y \in S : f[y] \in Nat, NEW T \in SUBSET S
  PROVE  SumFunctionOnSet(f, T) <= SumFunctionOnSet(f, S)
<1>1. SumFunctionOnSet(f, T) \in Nat /\ SumFunctionOnSet(f, S \ T) \in Nat
  BY FS_Subset, SumIsNat
<1>2. T \union (S \ T) = S /\ T \intersect (S \ T) = {} /\ S \ T \in SUBSET S
  OBVIOUS
<1>3. \A y \in S : f[y] \in Int
  OBVIOUS
<1>4. SumFunctionOnSet(f, T \union (S \ T)) = SumFunctionOnSet(f, T) + SumFunctionOnSet(f, S \ T)
  BY <1>2, <1>3, SumOfUnion
<1>5. SumFunctionOnSet(f, S) = SumFunctionOnSet(f, T) + SumFunctionOnSet(f, S \ T)
  BY <1>2, <1>4
<1> QED BY <1>1, <1>5

(***************************************************************************)
(* Summing group by group sums the union of the groups.                    *)
(***************************************************************************)
LEMMA SumOfGroups ==
  ASSUME NEW f, NEW S, IsFiniteSet(S), \A y \in S : f[y] \in Int,
         NEW I, IsFiniteSet(I), NEW P \in [I -> SUBSET S],
         \A i, j \in I : i # j => P[i] \intersect P[j] = {}
  PROVE  SumFunctionOnSet([i \in I |-> SumFunctionOnSet(f, P[i])], I)
         = SumFunctionOnSet(f, UNION {P[i] : i \in I})
<1> DEFINE g == [i \in I |-> SumFunctionOnSet(f, P[i])]
           All(J) == UNION {P[i] : i \in J}
           F == {J \in SUBSET I : SumFunctionOnSet(g, J) = SumFunctionOnSet(f, All(J))}
<1>1. \A i \in I : g[i] \in Int
  BY FS_Subset, SumIsInt
<1>2. {} \in F
  <2>1. All({}) = {}
    OBVIOUS
  <2> QED BY <2>1, SumEmpty
<1>3. ASSUME NEW J \in SUBSET I, J # {}, \A i \in J : J \ {i} \in F PROVE J \in F
  <2>1. PICK i \in J : TRUE
    BY <1>3
  <2>2. IsFiniteSet(J)
    BY FS_Subset
  <2>3. SumFunctionOnSet(g, J) = g[i] + SumFunctionOnSet(g, J \ {i})
    <3> HIDE DEF g
    <3> QED BY <1>1, <2>2, SumTakes
  <2>4. SumFunctionOnSet(g, J \ {i}) = SumFunctionOnSet(f, All(J \ {i}))
    BY <1>3
  <2>5. /\ All(J) = P[i] \union All(J \ {i}) /\ P[i] \intersect All(J \ {i}) = {}
        /\ P[i] \in SUBSET S /\ All(J \ {i}) \in SUBSET S
    OBVIOUS
  <2>6. SumFunctionOnSet(f, P[i] \union All(J \ {i}))
        = SumFunctionOnSet(f, P[i]) + SumFunctionOnSet(f, All(J \ {i}))
    <3> DEFINE R == P[i]
               Q == All(J \ {i})
    <3>1. R \in SUBSET S /\ Q \in SUBSET S /\ R \intersect Q = {}
      BY <2>5
    <3> HIDE DEF R, Q
    <3>2. SumFunctionOnSet(f, R \union Q) = SumFunctionOnSet(f, R) + SumFunctionOnSet(f, Q)
      BY <3>1, SumOfUnion
    <3> QED BY <3>2 DEF R, Q
  <2>7. SumFunctionOnSet(f, All(J)) = g[i] + SumFunctionOnSet(g, J \ {i})
    BY <2>4, <2>5, <2>6
  <2> QED BY <2>3, <2>7
<1>4. SUBSET I \subseteq F
  <2> HIDE DEF F
  <2> QED BY <1>2, <1>3, SetsBySteps
<1> QED BY <1>4

(***************************************************************************)
(* A set has as many elements as ones over it sum to.                      *)
(***************************************************************************)
LEMMA SumOfOnes ==
  ASSUME NEW S, IsFiniteSet(S)
  PROVE  SumFunctionOnSet([x \in S |-> 1], S) = Cardinality(S)
<1> DEFINE one == [x \in S |-> 1]
           F == {T \in SUBSET S : SumFunctionOnSet(one, T) = Cardinality(T)}
<1>1. {} \in F
  BY SumEmpty, FS_EmptySet
<1>2. ASSUME NEW T \in SUBSET S, T # {}, \A x \in T : T \ {x} \in F PROVE T \in F
  <2>1. PICK x \in T : TRUE
    BY <1>2
  <2>2. IsFiniteSet(T) /\ Cardinality(T) \in Nat
    BY FS_Subset, FS_CardinalityType
  <2>3. \A y \in T : one[y] \in Int
    OBVIOUS
  <2>4. SumFunctionOnSet(one, T) = one[x] + SumFunctionOnSet(one, T \ {x})
    <3> HIDE DEF one
    <3> QED BY <2>2, <2>3, SumTakes
  <2>5. Cardinality(T \ {x}) = Cardinality(T) - 1
    BY <2>2, FS_RemoveElement
  <2>6. SumFunctionOnSet(one, T \ {x}) = Cardinality(T \ {x}) /\ one[x] = 1
    BY <1>2
  <2> QED BY <2>2, <2>4, <2>5, <2>6
<1>3. SUBSET S \subseteq F
  <2> HIDE DEF F
  <2> QED BY <1>1, <1>2, SetsBySteps
<1> QED BY <1>3

-----------------------------------------------------------------------------
(***************************************************************************)
(* A finite set has an element of largest key.                             *)
(***************************************************************************)
LEMMA LargestExists ==
  ASSUME NEW S, IsFiniteSet(S), S # {}, NEW k, \A x \in S : k[x] \in Int
  PROVE  \E x \in S : \A y \in S : k[y] <= k[x]
<1> DEFINE F == {T \in SUBSET S : T # {} => \E x \in T : \A y \in T : k[y] <= k[x]}
<1>1. {} \in F
  OBVIOUS
<1>2. ASSUME NEW T \in SUBSET S, T # {}, \A x \in T : T \ {x} \in F PROVE T \in F
  <2>1. PICK z \in T : TRUE
    BY <1>2
  <2>2. CASE T \ {z} = {}
    BY <2>1, <2>2
  <2>3. CASE T \ {z} # {}
    <3>1. PICK x \in T \ {z} : \A y \in T \ {z} : k[y] <= k[x]
      BY <1>2, <2>3
    <3>2. CASE k[z] <= k[x]
      BY <3>1, <3>2
    <3>3. CASE ~(k[z] <= k[x])
      <4>1. \A y \in T : k[y] <= k[z]
        BY <3>1, <3>3
      <4> QED BY <4>1
    <3> QED BY <3>2, <3>3
  <2> QED BY <2>2, <2>3
<1>3. SUBSET S \subseteq F
  <2> HIDE DEF F
  <2> QED BY <1>1, <1>2, SetsBySteps
<1> QED BY <1>3

\* s lists S, each of its elements at one place.
Lists(s, S) ==
    /\ s \in [1 .. Cardinality(S) -> S]
    /\ \A i, j \in 1 .. Cardinality(S) : s[i] = s[j] => i = j
    /\ \A x \in S : \E i \in 1 .. Cardinality(S) : s[i] = x

Rising(s, k) == \A i, j \in DOMAIN s : i < j => k[s[i]] < k[s[j]]

(***************************************************************************)
(* A finite set whose keys are distinct integers can be listed by them: the*)
(* element of largest key goes behind a list of the others.                *)
(***************************************************************************)
LEMMA RisingListExists ==
  ASSUME NEW S, IsFiniteSet(S), NEW k, \A x \in S : k[x] \in Int,
         \A x, y \in S : k[x] = k[y] => x = y
  PROVE  \E s : Lists(s, S) /\ Rising(s, k)
<1> DEFINE F == {T \in SUBSET S : \E s : Lists(s, T) /\ Rising(s, k)}
<1>1. {} \in F
  <2>1. Lists([i \in {} |-> 0], {}) /\ Rising([i \in {} |-> 0], k)
    BY FS_EmptySet DEF Lists, Rising
  <2> QED BY <2>1
<1>2. ASSUME NEW T \in SUBSET S, T # {}, \A x \in T : T \ {x} \in F PROVE T \in F
  <2>1. IsFiniteSet(T) /\ Cardinality(T) \in Nat
    BY FS_Subset, FS_CardinalityType
  <2>2. PICK x \in T : \A y \in T : k[y] <= k[x]
    BY <1>2, <2>1, LargestExists
  <2>3. PICK s : Lists(s, T \ {x}) /\ Rising(s, k)
    BY <1>2
  <2> DEFINE n == Cardinality(T \ {x})
             t == [i \in 1 .. n + 1 |-> IF i <= n THEN s[i] ELSE x]
  <2>4. Cardinality(T) = n + 1 /\ n \in Nat
    <3>1. n = Cardinality(T) - 1 /\ IsFiniteSet(T \ {x})
      BY <2>1, <2>2, FS_RemoveElement
    <3>2. n \in Nat
      BY <3>1, FS_CardinalityType
    <3> QED BY <2>1, <3>1, <3>2
  <2>5. s \in [1 .. n -> T \ {x}]
    BY <2>3 DEF Lists
  <2>6. Lists(t, T)
    <3> HIDE DEF n
    <3>1. t \in [1 .. n + 1 -> T]
      BY <2>4, <2>5
    <3>2. \A i, j \in 1 .. n + 1 : t[i] = t[j] => i = j
      <4>1. \A i, j \in 1 .. n : s[i] = s[j] => i = j
        BY <2>3 DEF Lists, n
      <4>2. \A i \in 1 .. n + 1 : IF i <= n THEN t[i] = s[i] /\ t[i] # x /\ i \in 1 .. n
                                            ELSE t[i] = x /\ i = n + 1
        BY <2>4, <2>5
      <4> HIDE DEF t
      <4> QED BY <4>1, <4>2
    <3>3. ASSUME NEW y \in T PROVE \E i \in 1 .. n + 1 : t[i] = y
      <4>1. CASE y = x
        BY <2>4, <4>1
      <4>2. CASE y # x
        <5>1. PICK i \in 1 .. n : s[i] = y
          BY <2>3, <4>2 DEF Lists, n
        <5> QED BY <2>4, <5>1
      <4> QED BY <4>1, <4>2
    <3> QED BY <2>4, <3>1, <3>2, <3>3 DEF Lists
  <2>7. Rising(t, k)
    <3> SUFFICES ASSUME NEW i \in 1 .. n + 1, NEW j \in 1 .. n + 1, i < j PROVE k[t[i]] < k[t[j]]
      BY DEF Rising
    <3> HIDE DEF n
    <3>1. CASE j <= n
      BY <2>3, <2>4, <2>5, <3>1 DEF Rising
    <3>2. CASE ~(j <= n)
      <4>1. t[j] = x /\ t[i] \in T \ {x}
        BY <2>4, <2>5, <3>2
      <4> QED BY <2>2, <4>1
    <3> QED BY <3>1, <3>2
  <2>8. \E r : Lists(r, T) /\ Rising(r, k)
    BY <2>6, <2>7
  <2> QED BY <2>8
<1>3. SUBSET S \subseteq F
  <2> HIDE DEF F
  <2> QED BY <1>1, <1>2, SetsBySteps
<1> QED BY <1>3
(***************************************************************************)
(* In a list in the order of keys, as many elements come before a place as *)
(* have smaller keys.                                                      *)
(***************************************************************************)
LEMMA PlacesCount ==
  ASSUME NEW S, IsFiniteSet(S), NEW key, \A x \in S : key[x] \in Int,
         NEW s, Lists(s, S), Rising(s, key), NEW i \in 1 .. Cardinality(S)
  PROVE  Cardinality({y \in S : key[y] < key[s[i]]}) = i - 1
<1> DEFINE n == Cardinality(S)
           Before == {y \in S : key[y] < key[s[i]]}
           D == 1 .. i - 1
           r == [j \in D |-> s[j]]
<1>1. n \in Nat /\ s \in [1 .. n -> S]
  BY FS_CardinalityType DEF Lists
<1>2. \A j \in 1 .. n : s[j] \in Before <=> j < i
  <2>1. ASSUME NEW j \in 1 .. n, j < i PROVE key[s[j]] < key[s[i]]
    BY <1>1, <2>1 DEF Rising
  <2>2. ASSUME NEW j \in 1 .. n, i < j PROVE ~(key[s[j]] < key[s[i]])
    <3>1. key[s[i]] < key[s[j]]
      BY <1>1, <2>2 DEF Rising
    <3> QED BY <1>1, <3>1
  <2>3. ~(key[s[i]] < key[s[i]])
    BY <1>1
  <2>4. ASSUME NEW j \in 1 .. n PROVE j < i \/ j = i \/ i < j
    BY <1>1
  <2> QED BY <1>1, <2>1, <2>2, <2>3, <2>4
<1>3. r \in [D -> Before]
  BY <1>1, <1>2
<1>4. \A j, k \in D : r[j] = r[k] => j = k
  BY <1>1 DEF Lists
<1>5. \A y \in Before : \E j \in D : r[j] = y
  <2> SUFFICES ASSUME NEW y \in Before PROVE \E j \in D : r[j] = y
    OBVIOUS
  <2>1. PICK j \in 1 .. n : s[j] = y
    BY DEF Lists
  <2> QED BY <1>1, <1>2, <2>1
<1>6. ExistsBijection(1 .. i - 1, Before)
  BY <1>3, <1>4, <1>5, Fun_IsBij DEF ExistsBijection
<1> QED BY <1>1, <1>6, FS_CountingElements

(***************************************************************************)
(* InOrder is that list: the element at a place is the one with as many    *)
(* smaller keys as there are places before it.                             *)
(***************************************************************************)
LEMMA InOrderLists ==
  ASSUME NEW S, IsFiniteSet(S), NEW key, \A x \in S : key[x] \in Int,
         \A x, y \in S : key[x] = key[y] => x = y
  PROVE  Lists(InOrder(S, key), S) /\ Rising(InOrder(S, key), key)
<1>1. PICK s : Lists(s, S) /\ Rising(s, key)
  BY RisingListExists
<1> DEFINE n == Cardinality(S)
           Before(x) == {y \in S : key[y] < key[x]}
<1>2. n \in Nat /\ s \in [1 .. n -> S]
  BY <1>1, FS_CardinalityType DEF Lists
<1>3. \A i \in 1 .. n : Cardinality(Before(s[i])) = i - 1
  BY <1>1, PlacesCount
<1>4. ASSUME NEW i \in 1 .. n PROVE InOrder(S, key)[i] = s[i]
  <2>1. \A x \in S : Cardinality(Before(x)) = i - 1 => x = s[i]
    <3> SUFFICES ASSUME NEW x \in S, Cardinality(Before(x)) = i - 1 PROVE x = s[i]
      OBVIOUS
    <3>1. PICK j \in 1 .. n : s[j] = x
      BY <1>1 DEF Lists
    <3>2. j - 1 = i - 1
      BY <1>3, <3>1
    <3> QED BY <1>2, <3>1, <3>2
  <2>2. s[i] \in S /\ Cardinality(Before(s[i])) = i - 1
    BY <1>2, <1>3
  <2>3. InOrder(S, key)[i] = CHOOSE x \in S : Cardinality(Before(x)) = i - 1
    BY DEF InOrder
  <2> QED BY <2>1, <2>2, <2>3
<1>5. InOrder(S, key) = s
  BY <1>2, <1>4 DEF InOrder
<1> QED BY <1>1, <1>5

(***************************************************************************)
(* An element's place is one more than the number of those before it.      *)
(***************************************************************************)
Smaller(S, key, x) == {y \in S : key[y] < key[x]}

LEMMA InOrderPlaces ==
  ASSUME NEW S, IsFiniteSet(S), NEW key, \A x \in S : key[x] \in Int,
         \A x, y \in S : key[x] = key[y] => x = y
  PROVE  \A x \in S : \E i \in 1 .. Cardinality(S) :
            InOrder(S, key)[i] = x /\ Cardinality(Smaller(S, key, x)) = i - 1
<1> SUFFICES ASSUME NEW x \in S
             PROVE  \E i \in 1 .. Cardinality(S) :
                       InOrder(S, key)[i] = x /\ Cardinality(Smaller(S, key, x)) = i - 1
  OBVIOUS
<1>1. Lists(InOrder(S, key), S) /\ Rising(InOrder(S, key), key)
  BY InOrderLists
<1>2. PICK i \in 1 .. Cardinality(S) : InOrder(S, key)[i] = x
  BY <1>1 DEF Lists
<1>3. Cardinality({y \in S : key[y] < key[InOrder(S, key)[i]]}) = i - 1
  BY <1>1, PlacesCount
<1>4. {y \in S : key[y] < key[InOrder(S, key)[i]]} = Smaller(S, key, x)
  BY <1>2 DEF Smaller
<1> QED BY <1>2, <1>3, <1>4

(***************************************************************************)
(* The order of a set of integers.                                         *)
(***************************************************************************)
LEMMA AscendingLists ==
  ASSUME NEW S \in SUBSET Int, IsFiniteSet(S)
  PROVE  /\ Lists(Ascending(S), S)
         /\ \A i, j \in 1 .. Cardinality(S) : i < j => Ascending(S)[i] < Ascending(S)[j]
<1> DEFINE key == [x \in S |-> x]
<1>1. \A x \in S : key[x] = x /\ key[x] \in Int
  OBVIOUS
<1>2. \A x, y \in S : key[x] = key[y] => x = y
  OBVIOUS
<1>3. Ascending(S) = InOrder(S, key)
  BY DEF Ascending
<1>4. Lists(InOrder(S, key), S) /\ Rising(InOrder(S, key), key)
  <2> HIDE DEF key
  <2> QED BY <1>1, <1>2, InOrderLists
<1>5. \A i \in 1 .. Cardinality(S) : InOrder(S, key)[i] \in S
  BY <1>4 DEF Lists
<1>6. \A i, j \in 1 .. Cardinality(S) :
         i < j => key[InOrder(S, key)[i]] < key[InOrder(S, key)[j]]
  BY <1>4 DEF Lists, Rising
<1> HIDE DEF key
<1> QED BY <1>1, <1>3, <1>4, <1>5, <1>6

(***************************************************************************)
(* The place of an integer in it.                                          *)
(***************************************************************************)
LEMMA AscendingPlaces ==
  ASSUME NEW S \in SUBSET Int, IsFiniteSet(S), NEW x \in S
  PROVE  \E i \in 1 .. Cardinality(S) :
            Ascending(S)[i] = x /\ Cardinality({y \in S : y < x}) = i - 1
<1> DEFINE key == [z \in S |-> z]
<1>1. \A z \in S : key[z] \in Int
  OBVIOUS
<1>2. \A y, z \in S : key[y] = key[z] => y = z
  OBVIOUS
<1>3. Ascending(S) = InOrder(S, key)
  BY DEF Ascending
<1>4. Smaller(S, key, x) = {y \in S : y < x}
  BY DEF Smaller
<1>5. \E i \in 1 .. Cardinality(S) :
         InOrder(S, key)[i] = x /\ Cardinality(Smaller(S, key, x)) = i - 1
  <2> HIDE DEF key
  <2>1. \A z \in S : \E i \in 1 .. Cardinality(S) :
           InOrder(S, key)[i] = z /\ Cardinality(Smaller(S, key, z)) = i - 1
    BY ONLY IsFiniteSet(S), <1>1, <1>2, InOrderPlaces, ZenonT(60)
  <2> QED BY <2>1
<1> HIDE DEF key
<1> QED BY <1>3, <1>4, <1>5

(***************************************************************************)
(* Where keys may be equal.  Every order lists its set; and the first      *)
(* place of an element's key is one more than the number of those with     *)
(* smaller keys, whichever element of that key the order puts there.       *)
(***************************************************************************)
LEMMA OrdersList ==
  ASSUME NEW S, IsFiniteSet(S), NEW key, NEW list \in Orders(S, key)
  PROVE  Lists(list, S) /\ \A i, j \in 1 .. Cardinality(S) : i < j => key[list[i]] <= key[list[j]]
<1> DEFINE n == Cardinality(S)
<1>1. n \in Nat /\ IsFiniteSet(1 .. n) /\ Cardinality(1 .. n) = n
  <2>1. n \in Nat
    BY FS_CardinalityType
  <2> HIDE DEF n
  <2>2. 0 \in Int /\ 1 \in Int /\ n \in Int
    BY <2>1
  <2> QED BY <2>1, <2>2, FS_Interval
<1>2. /\ list \in [1 .. n -> S] /\ DOMAIN list = 1 .. n
      /\ \A x \in S : \E i \in 1 .. n : list[i] = x
      /\ \A i, j \in 1 .. n : i < j => key[list[i]] <= key[list[j]]
  BY DEF Orders
<1>3. list \in Surjection(1 .. n, S)
  BY <1>2, Fun_IsSurj
<1>4. list \in Injection(1 .. n, S)
  <2> HIDE DEF n
  <2>1. Cardinality(S) = n
    BY DEF n
  <2> QED BY <1>1, <1>3, <2>1, FS_SurjSameCardinalityImpliesInj
<1>5. \A i, j \in 1 .. n : list[i] = list[j] => i = j
  BY <1>4 DEF Injection, IsInjective
<1> QED BY <1>2, <1>5 DEF Lists

LEMMA OrderPlaces ==
  ASSUME NEW S, IsFiniteSet(S), NEW key, \A x \in S : key[x] \in Int,
         NEW list \in Orders(S, key), NEW x \in S
  PROVE  \E p \in 1 .. Cardinality(S) :
            key[list[p]] = key[x] /\ Cardinality(Smaller(S, key, x)) = p - 1
<1> DEFINE n == Cardinality(S)
           P == {i \in 1 .. n : key[list[i]] = key[x]}
<1>1. n \in Nat /\ list \in [1 .. n -> S]
  BY OrdersList, FS_CardinalityType DEF Lists
<1>2. /\ \A i, j \in 1 .. n : list[i] = list[j] => i = j
      /\ \A y \in S : \E i \in 1 .. n : list[i] = y
      /\ \A i, j \in 1 .. n : i < j => key[list[i]] <= key[list[j]]
  BY OrdersList DEF Lists
<1> HIDE DEF n
<1>3. PICK p \in P : \A i \in P : p <= i
  <2> DEFINE back == [i \in P |-> -i]
  <2>1. IsFiniteSet(P)
    <3>1. IsFiniteSet(1 .. n)
      BY <1>1, FS_Interval
    <3> QED BY <3>1, FS_Subset
  <2>2. P # {}
    BY <1>2
  <2>3. \A i \in P : back[i] = -i /\ back[i] \in Int
    BY <1>1
  <2>4. \E i \in P : \A j \in P : back[j] <= back[i]
    <3> HIDE DEF P, back
    <3> QED BY <2>1, <2>2, <2>3, LargestExists
  <2>5. PICK i \in P : \A j \in P : back[j] <= back[i]
    BY <2>4
  <2>6. \A j \in P : i <= j
    BY <1>1, <2>3, <2>5
  <2> QED BY <2>6
<1>4. p \in 1 .. n /\ key[list[p]] = key[x]
  OBVIOUS
<1> DEFINE Before == Smaller(S, key, x)
           D == 1 .. p - 1
           r == [j \in D |-> list[j]]
<1>5. \A j \in 1 .. n : list[j] \in Before <=> j < p
  <2>1. ASSUME NEW j \in 1 .. n, j < p PROVE key[list[j]] < key[x]
    <3>1. key[list[j]] <= key[list[p]] /\ key[list[j]] # key[x]
      BY <1>1, <1>2, <1>3, <1>4, <2>1
    <3> QED BY <1>1, <1>4, <3>1
  <2>2. ASSUME NEW j \in 1 .. n, ~(j < p) PROVE ~(key[list[j]] < key[x])
    <3>1. key[list[p]] <= key[list[j]]
      BY <1>1, <1>2, <1>4, <2>2
    <3> QED BY <1>1, <1>4, <3>1
  <2> QED BY <1>1, <2>1, <2>2 DEF Smaller
<1>6. r \in [D -> Before]
  BY <1>1, <1>4, <1>5
<1>7. \A j, k \in D : r[j] = r[k] => j = k
  BY <1>1, <1>2, <1>4
<1>8. \A y \in Before : \E j \in D : r[j] = y
  <2> SUFFICES ASSUME NEW y \in Before PROVE \E j \in D : r[j] = y
    OBVIOUS
  <2>1. PICK j \in 1 .. n : list[j] = y
    BY <1>2 DEF Smaller
  <2> QED BY <1>1, <1>4, <1>5, <2>1
<1>9. ExistsBijection(1 .. p - 1, Before)
  BY <1>6, <1>7, <1>8, Fun_IsBij DEF ExistsBijection
<1>10. Cardinality(Before) = p - 1
  <2>1. p - 1 \in Nat
    BY <1>1, <1>4
  <2> HIDE DEF Before
  <2> QED BY <1>9, <2>1, FS_CountingElements
<1> QED BY <1>4, <1>10 DEF n

-----------------------------------------------------------------------------
(***************************************************************************)
(* Keys.  There are no more keys than elements, and a set whose elements   *)
(* have distinct keys in a finite set is finite.                           *)
(***************************************************************************)
LEMMA KeysAreFinite ==
  ASSUME NEW S, IsFiniteSet(S), NEW key
  PROVE  IsFiniteSet({key[x] : x \in S}) /\ Cardinality({key[x] : x \in S}) <= Cardinality(S)
<1> DEFINE K == {key[x] : x \in S}
           g == [x \in S |-> key[x]]
<1>1. g \in Surjection(S, K)
  BY Fun_IsSurj
<1> HIDE DEF K, g
<1>2. IsFiniteSet(K) /\ Cardinality(K) <= Cardinality(S)
  BY <1>1, FS_Surjection
<1> QED BY <1>2 DEF K

LEMMA FiniteByKeys ==
  ASSUME NEW K, IsFiniteSet(K), NEW S, NEW key \in [S -> K], \A x, y \in S : key[x] = key[y] => x = y
  PROVE  IsFiniteSet(S) /\ Cardinality(S) <= Cardinality(K)
<1>1. key \in Injection(S, K)
  BY Fun_IsInj
<1> QED BY <1>1, FS_Injection

(***************************************************************************)
(* Elements grouped by their keys, the groups in the order of the keys:    *)
(* the groups' sums add up to the sum of all.                              *)
(***************************************************************************)
KeysInOrder(S, key) == Ascending({key[x] : x \in S})

GroupOf(S, key, k) == {x \in S : key[x] = k}

LEMMA GroupsAddUp ==
  ASSUME NEW S, IsFiniteSet(S), NEW f, \A x \in S : f[x] \in Int,
         NEW key, \A x \in S : key[x] \in Int
  PROVE  LET keys == KeysInOrder(S, key)
         IN  SumFunctionOnSet([i \in DOMAIN keys |-> SumFunctionOnSet(f, GroupOf(S, key, keys[i]))],
                              DOMAIN keys)
             = SumFunctionOnSet(f, S)
<1> DEFINE K == {key[x] : x \in S}
           keys == KeysInOrder(S, key)
           I == 1 .. Cardinality(K)
           P == [i \in I |-> GroupOf(S, key, keys[i])]
<1>1. K \in SUBSET Int /\ IsFiniteSet(K) /\ Cardinality(K) \in Nat
  BY KeysAreFinite, FS_CardinalityType
<1>2. keys = Ascending(K)
  BY DEF KeysInOrder
<1>3. Lists(keys, K)
  <2> HIDE DEF K, keys
  <2> QED BY <1>1, <1>2, AscendingLists
<1>4. DOMAIN keys = I /\ IsFiniteSet(I)
  <2> HIDE DEF K, keys
  <2> QED BY <1>1, <1>3, FS_Interval DEF Lists
<1>5. P \in [I -> SUBSET S]
  BY DEF GroupOf
<1>6. \A i, j \in I : i # j => P[i] \intersect P[j] = {}
  <2>1. \A i, j \in I : keys[i] = keys[j] => i = j
    BY <1>3 DEF Lists
  <2> HIDE DEF keys
  <2> QED BY <2>1 DEF GroupOf
<1>7. UNION {P[i] : i \in I} = S
  <2>1. \A x \in S : \E i \in I : keys[i] = key[x]
    BY <1>3 DEF Lists
  <2> HIDE DEF keys
  <2>2. \A x \in S : \E i \in I : x \in P[i]
    BY <2>1 DEF GroupOf
  <2> QED BY <1>5, <2>2
<1>8. SumFunctionOnSet([i \in I |-> SumFunctionOnSet(f, P[i])], I)
      = SumFunctionOnSet(f, UNION {P[i] : i \in I})
  <2> HIDE DEF I, P
  <2> QED BY <1>4, <1>5, <1>6, SumOfGroups
<1>9. [i \in I |-> SumFunctionOnSet(f, P[i])]
      = [i \in DOMAIN keys |-> SumFunctionOnSet(f, GroupOf(S, key, keys[i]))]
  <2>1. \A i \in I : P[i] = GroupOf(S, key, keys[i])
    OBVIOUS
  <2> HIDE DEF P, keys, I
  <2> QED BY <1>4, <2>1
<1> HIDE DEF P, I, K
<1> QED BY <1>4, <1>7, <1>8, <1>9

(***************************************************************************)
(* A sum over places is the sum over what is listed at them.               *)
(***************************************************************************)
LEMMA SumOfList ==
  ASSUME NEW S, IsFiniteSet(S), NEW s, Lists(s, S), NEW f, \A x \in S : f[x] \in Int
  PROVE  SumFunctionOnSet([i \in 1 .. Cardinality(S) |-> f[s[i]]], 1 .. Cardinality(S))
         = SumFunctionOnSet(f, S)
<1> DEFINE I == 1 .. Cardinality(S)
           P == [i \in I |-> {s[i]}]
<1>1. IsFiniteSet(I) /\ s \in [I -> S]
  BY FS_CardinalityType, FS_Interval DEF Lists
<1>2. P \in [I -> SUBSET S]
  BY <1>1
<1>3. \A i, j \in I : i # j => P[i] \intersect P[j] = {}
  BY DEF Lists
<1>4. UNION {P[i] : i \in I} = S
  <2>1. \A x \in S : \E i \in I : x \in P[i]
    BY DEF Lists
  <2> QED BY <1>2, <2>1
<1>5. ASSUME NEW i \in I PROVE SumFunctionOnSet(f, P[i]) = f[s[i]]
  <2>1. s[i] \in S /\ IsFiniteSet({s[i]}) /\ {s[i]} \ {s[i]} = {} /\ P[i] = {s[i]}
    BY <1>1, FS_Singleton
  <2>2. SumFunctionOnSet(f, {s[i]}) = f[s[i]] + SumFunctionOnSet(f, {s[i]} \ {s[i]})
    <3>1. \A y \in {s[i]} : f[y] \in Int
      BY <2>1
    <3> QED BY <2>1, <3>1, SumTakes
  <2>3. SumFunctionOnSet(f, {}) = 0
    BY SumEmpty
  <2> HIDE DEF P
  <2> QED BY <2>1, <2>2, <2>3
<1>6. [i \in I |-> SumFunctionOnSet(f, P[i])] = [i \in I |-> f[s[i]]]
  <2> HIDE DEF I, P
  <2> QED BY <1>5
<1>7. SumFunctionOnSet([i \in I |-> SumFunctionOnSet(f, P[i])], I)
      = SumFunctionOnSet(f, UNION {P[i] : i \in I})
  <2> HIDE DEF I, P
  <2> QED BY <1>1, <1>2, <1>3, SumOfGroups
<1> QED BY <1>4, <1>6, <1>7

(***************************************************************************)
(* What adds nothing may be left out.                                      *)
(***************************************************************************)
LEMMA SumWithoutZeros ==
  ASSUME NEW S, IsFiniteSet(S), NEW f, \A x \in S : f[x] \in Int, NEW T \in SUBSET S,
         \A x \in S \ T : f[x] = 0
  PROVE  SumFunctionOnSet(f, S) = SumFunctionOnSet(f, T)
<1> DEFINE R == S \ T
           zero == [x \in R |-> 0]
           F == {U \in SUBSET R : SumFunctionOnSet(f, U) = 0}
<1>1. IsFiniteSet(R) /\ IsFiniteSet(T) /\ R \in SUBSET S
  BY FS_Subset
<1>2. {} \in F
  BY SumEmpty
<1>3. ASSUME NEW U \in SUBSET R, U # {}, \A x \in U : U \ {x} \in F PROVE U \in F
  <2>1. PICK x \in U : TRUE
    BY <1>3
  <2>2. IsFiniteSet(U) /\ \A y \in U : f[y] \in Int
    BY <1>1, FS_Subset
  <2>3. SumFunctionOnSet(f, U) = f[x] + SumFunctionOnSet(f, U \ {x})
    BY <2>2, SumTakes
  <2>4. SumFunctionOnSet(f, U \ {x}) = 0 /\ f[x] = 0
    BY <1>3, <2>1
  <2> QED BY <2>3, <2>4
<1>4. SUBSET R \subseteq F
  <2> HIDE DEF F, R
  <2> QED BY <1>1, <1>2, <1>3, SetsBySteps
<1>5. SumFunctionOnSet(f, R) = 0
  BY <1>4
<1>6. T \intersect R = {} /\ T \union R = S
  OBVIOUS
<1>7. SumFunctionOnSet(f, T \union R) = SumFunctionOnSet(f, T) + SumFunctionOnSet(f, R)
  <2> HIDE DEF R
  <2> QED BY <1>1, <1>6, SumOfUnion
<1>8. SumFunctionOnSet(f, T) \in Int
  BY <1>1, SumIsInt
<1>9. SumFunctionOnSet(f, S) = SumFunctionOnSet(f, T) + SumFunctionOnSet(f, R)
  BY <1>6, <1>7, Zenon
<1> HIDE DEF R
<1> QED BY <1>5, <1>8, <1>9

-----------------------------------------------------------------------------
(***************************************************************************)
(* Division of integers by a positive number.                              *)
(***************************************************************************)
LEMMA Remainders ==
  ASSUME NEW x \in Int, NEW n \in Nat \ {0}
  PROVE  /\ x \div n \in Int /\ x % n \in 0 .. n - 1
         /\ x = n * (x \div n) + (x % n)
<1> DEFINE q == x \div n
           r == x % n
<1>1. q \in Int /\ r \in 0 .. (n - 1) /\ x = n * q + r
  BY SMT
<1> QED BY <1>1

LEMMA ProductsAreApart ==
  ASSUME NEW n \in Nat \ {0}, NEW a \in Int, NEW b \in Int, a < b
  PROVE  n * a + n <= n * b
<1>1. PICK d \in Nat \ {0} : b = a + d
  <2>1. b - a \in Nat \ {0} /\ b = a + (b - a)
    OBVIOUS
  <2> QED BY <2>1
<1>2. n * b = n * a + n * d
  BY <1>1, SMT
<1>3. n * d >= n
  BY <1>1, SMT
<1>4. n * a \in Int /\ n * d \in Int
  BY <1>1
<1> QED BY <1>2, <1>3, <1>4

LEMMA DivisionIsUnique ==
  ASSUME NEW n \in Nat \ {0}, NEW x \in Int, NEW q \in Int, NEW r \in 0 .. n - 1, x = n * q + r
  PROVE  x \div n = q /\ x % n = r
<1> DEFINE p == x \div n
           s == x % n
<1>1. p \in Int /\ s \in 0 .. n - 1 /\ x = n * p + s
  BY Remainders
<1> HIDE DEF p, s
<1>2. n * p \in Int /\ n * q \in Int /\ r \in Int /\ s \in Int
  BY <1>1
<1>3. CASE p < q
  <2>1. n * p + n <= n * q
    BY <1>1, <1>3, ProductsAreApart
  <2> QED BY <1>1, <1>2, <2>1
<1>4. CASE q < p
  <2>1. n * q + n <= n * p
    BY <1>1, <1>4, ProductsAreApart
  <2> QED BY <1>1, <1>2, <2>1
<1>5. CASE p = q
  <2>1. s = r
    BY <1>1, <1>2, <1>5
  <2> QED BY <1>5, <2>1 DEF p, s
<1> QED BY <1>1, <1>3, <1>4, <1>5

-----------------------------------------------------------------------------
(***************************************************************************)
(* Terms that are each near c times an integer, by half of c: a sum of n   *)
(* of them is near c times the sum of those integers, by n halves of c.    *)
(***************************************************************************)
Near(c, a, e, n) == c * (2 * a) <= 2 * e + c * n /\ 2 * e <= c * (2 * a) + c * n

LEMMA NearAdds ==
  ASSUME NEW c \in Nat, NEW a \in Int, NEW e \in Int, NEW n \in Int, Near(c, a, e, n),
         NEW b \in Int, NEW g \in Int, NEW m \in Int, Near(c, b, g, m)
  PROVE  Near(c, a + b, e + g, n + m)
<1>1. c * (2 * (a + b)) = c * (2 * a) + c * (2 * b) /\ c * (n + m) = c * n + c * m
  BY SMT
<1>2. c * (2 * a) \in Int /\ c * (2 * b) \in Int /\ c * n \in Int /\ c * m \in Int
  OBVIOUS
<1>3. /\ c * (2 * a) + c * (2 * b) <= 2 * (e + g) + (c * n + c * m)
      /\ 2 * (e + g) <= c * (2 * a) + c * (2 * b) + (c * n + c * m)
  BY <1>2 DEF Near
<1> QED BY <1>1, <1>3 DEF Near

LEMMA SumsStayNear ==
  ASSUME NEW f, NEW g, NEW S, IsFiniteSet(S), NEW c \in Nat,
         \A y \in S : f[y] \in Int /\ g[y] \in Int /\ Near(c, f[y], g[y], 1)
  PROVE  Near(c, SumFunctionOnSet(f, S), SumFunctionOnSet(g, S), Cardinality(S))
<1> DEFINE F == {T \in SUBSET S :
                   Near(c, SumFunctionOnSet(f, T), SumFunctionOnSet(g, T), Cardinality(T))}
<1>1. {} \in F
  <2>1. Near(c, 0, 0, 0)
    BY DEF Near
  <2> QED BY <2>1, SumEmpty, FS_EmptySet
<1>2. ASSUME NEW T \in SUBSET S, T # {}, \A x \in T : T \ {x} \in F PROVE T \in F
  <2>1. PICK x \in T : TRUE
    BY <1>2
  <2>2. IsFiniteSet(T) /\ IsFiniteSet(T \ {x})
    BY FS_Subset
  <2>3. /\ SumFunctionOnSet(f, T) = f[x] + SumFunctionOnSet(f, T \ {x})
        /\ SumFunctionOnSet(g, T) = g[x] + SumFunctionOnSet(g, T \ {x})
    BY <2>2, SumTakes
  <2>4. /\ SumFunctionOnSet(f, T \ {x}) \in Int /\ SumFunctionOnSet(g, T \ {x}) \in Int
        /\ f[x] \in Int /\ g[x] \in Int
    BY <2>2, SumIsInt
  <2>5. Cardinality(T \ {x}) \in Int /\ Cardinality(T) = 1 + Cardinality(T \ {x})
    <3>1. Cardinality(T) \in Nat /\ Cardinality(T \ {x}) = Cardinality(T) - 1
      BY <2>2, FS_CardinalityType, FS_RemoveElement
    <3> QED BY <3>1
  <2>6. Near(c, f[x], g[x], 1)
    OBVIOUS
  <2>7. Near(c, SumFunctionOnSet(f, T \ {x}), SumFunctionOnSet(g, T \ {x}), Cardinality(T \ {x}))
    BY <1>2
  <2>8. Near(c, f[x] + SumFunctionOnSet(f, T \ {x}), g[x] + SumFunctionOnSet(g, T \ {x}),
             1 + Cardinality(T \ {x}))
    <3>1. c \in Nat /\ 1 \in Int
      OBVIOUS
    <3> QED BY ONLY <2>4, <2>5, <2>6, <2>7, <3>1, NearAdds
  <2>9. Near(c, SumFunctionOnSet(f, T), SumFunctionOnSet(g, T), Cardinality(T))
    BY <2>3, <2>5, <2>8
  <2> QED BY <2>9
<1>3. SUBSET S \subseteq F
  <2> HIDE DEF F
  <2> QED BY <1>1, <1>2, SetsBySteps
<1> QED BY <1>3

(***************************************************************************)
(* Terms that are c times an integer.                                      *)
(***************************************************************************)
LEMMA SumsOfMultiples ==
  ASSUME NEW f, NEW g, NEW S, IsFiniteSet(S), NEW c \in Nat,
         \A y \in S : f[y] \in Int /\ g[y] = c * f[y]
  PROVE  SumFunctionOnSet(g, S) = c * SumFunctionOnSet(f, S)
<1> DEFINE F == {T \in SUBSET S : SumFunctionOnSet(g, T) = c * SumFunctionOnSet(f, T)}
<1>1. {} \in F
  BY SumEmpty
<1>2. ASSUME NEW T \in SUBSET S, T # {}, \A x \in T : T \ {x} \in F PROVE T \in F
  <2>1. PICK x \in T : TRUE
    BY <1>2
  <2>2. IsFiniteSet(T) /\ IsFiniteSet(T \ {x})
    BY FS_Subset
  <2>3. \A y \in T : g[y] \in Int
    OBVIOUS
  <2>4. /\ SumFunctionOnSet(f, T) = f[x] + SumFunctionOnSet(f, T \ {x})
        /\ SumFunctionOnSet(g, T) = g[x] + SumFunctionOnSet(g, T \ {x})
    BY <2>2, <2>3, SumTakes
  <2>5. SumFunctionOnSet(f, T \ {x}) \in Int /\ f[x] \in Int
    BY <2>2, SumIsInt
  <2>6. c * (f[x] + SumFunctionOnSet(f, T \ {x})) = c * f[x] + c * SumFunctionOnSet(f, T \ {x})
    <3> HIDE DEF F
    <3> QED BY <2>5, SMT
  <2>7. SumFunctionOnSet(g, T \ {x}) = c * SumFunctionOnSet(f, T \ {x}) /\ g[x] = c * f[x]
    BY <1>2
  <2>8. SumFunctionOnSet(g, T) = c * SumFunctionOnSet(f, T)
    BY <2>4, <2>6, <2>7
  <2> QED BY <2>8
<1>3. SUBSET S \subseteq F
  <2> HIDE DEF F
  <2> QED BY <1>1, <1>2, SetsBySteps
<1> QED BY <1>3
=============================================================================
