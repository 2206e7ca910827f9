-------------------------------- MODULE Sums ---------------------------------
(***************************************************************************)
(* Lemmas about SumFunctionOnSet, by which modules add up amounts, and     *)
(* the induction they rest on.  The induction theorems of the library take *)
(* a predicate as a parameter, which the provers cannot instantiate; here  *)
(* it is the set of the good numbers or subsets, which they can.  They are *)
(* proved from the least element of a set of numbers (WFMin).              *)
(***************************************************************************)
EXTENDS Functions, FiniteSetTheorems, WellFoundedInduction, TLAPS

(* What holds of 0, and of n + 1 if it holds of n, holds of every number.   *)
LEMMA Induction ==
    ASSUME NEW G \in SUBSET Nat, 0 \in G, \A n \in G : n + 1 \in G
    PROVE  \A n \in Nat : n \in G
<1> DEFINE B == Nat \ G
           R == OpToRel(<, Nat)
<1>1. SUFFICES ASSUME B # {} PROVE FALSE
  OBVIOUS
<1>2. \A y, x \in Nat : y < x => <<y, x>> \in R
  BY DEF OpToRel
<1>3. IsWellFoundedOn(R, Nat)
  BY NatLessThanWellFounded
<1>4. B \subseteq Nat
  OBVIOUS
<1> HIDE DEF R
<1>5. PICK m \in B : \A y \in B : ~(<<y, m>> \in R)
  <2> HIDE DEF B
  <2> QED
    BY <1>1, <1>3, <1>4, WFMin
<1>6. m # 0 /\ m - 1 \in Nat /\ m - 1 < m
  BY <1>5
<1>7. m - 1 \in G
  BY <1>2, <1>5, <1>6
<1> QED
  BY <1>5, <1>6, <1>7

(* What holds of the empty set, and of a set if it holds of all that have   *)
(* one element less, holds of every subset of a finite set.                 *)
LEMMA FiniteInduction ==
    ASSUME NEW S, IsFiniteSet(S), NEW G \in SUBSET SUBSET S, {} \in G,
           \A T \in SUBSET S : T # {} /\ (\A x \in T : T \ {x} \in G) => T \in G
    PROVE  \A T \in SUBSET S : T \in G
<1> DEFINE H == {n \in Nat : \A T \in SUBSET S : Cardinality(T) = n => T \in G}
<1>0. \A T \in SUBSET S : IsFiniteSet(T) /\ Cardinality(T) \in Nat
  BY FS_Subset, FS_CardinalityType
<1>1. 0 \in H
  BY <1>0, FS_EmptySet
<1>2. ASSUME NEW n \in H PROVE n + 1 \in H
  <2>1. SUFFICES ASSUME NEW T \in SUBSET S, Cardinality(T) = n + 1 PROVE T \in G
    OBVIOUS
  <2>2. T # {}
    BY <1>0, <2>1, FS_EmptySet
  <2>3. \A x \in T : Cardinality(T \ {x}) = n /\ T \ {x} \in SUBSET S
    <3>1. SUFFICES ASSUME NEW x \in T PROVE Cardinality(T \ {x}) = n
      OBVIOUS
    <3>2. Cardinality(T \ {x}) = Cardinality(T) - 1
      BY <1>0, FS_RemoveElement
    <3> QED
      BY <2>1, <3>2
  <2> QED
    BY <2>2, <2>3
<1>3. \A n \in Nat : n \in H
  <2>1. H \in SUBSET Nat
    OBVIOUS
  <2> HIDE DEF H
  <2> QED
    BY <1>1, <1>2, <2>1, Induction
<1> QED
  BY <1>0, <1>3

-----------------------------------------------------------------------------
(* A fold over the subsets of S: pick[T] is the element of T taken last,    *)
(* step[<<i, x>>] what it makes of the value x of the others.               *)
FoldStep(pick, step, base, f, T) ==
    IF T = {} THEN base ELSE step[<<pick[T], f[T \ {pick[T]}]>>]
Folding(S, pick, step, base, f) ==
    \A T \in SUBSET S : f[T] = FoldStep(pick, step, base, f, T)
Picks(S, pick) == \A T \in SUBSET S : T # {} => pick[T] \in T

(* There is one for every finite set: it is put together for the subsets of *)
(* 0, 1, 2, ... elements.                                                   *)
LEMMA FoldExists ==
    ASSUME NEW S, IsFiniteSet(S), NEW X, NEW base \in X, NEW pick, Picks(S, pick),
           NEW step, \A i \in S, x \in X : step[<<i, x>>] \in X
    PROVE  \E f \in [SUBSET S -> X] : Folding(S, pick, step, base, f)
<1> DEFINE Small(n) == {T \in SUBSET S : Cardinality(T) <= n}
           H == {n \in Nat : \E f \in [Small(n) -> X] :
                    \A T \in Small(n) : f[T] = FoldStep(pick, step, base, f, T)}
<1>0. \A T \in SUBSET S : IsFiniteSet(T) /\ Cardinality(T) \in Nat
  BY FS_Subset, FS_CardinalityType
<1>1. 0 \in H
  <2>1. \A T \in Small(0) : T = {}
    BY <1>0, FS_EmptySet
  <2>2. [T \in Small(0) |-> base] \in [Small(0) -> X]
    OBVIOUS
  <2>3. \A T \in Small(0) : [t \in Small(0) |-> base][T]
            = FoldStep(pick, step, base, [t \in Small(0) |-> base], T)
    BY <2>1 DEF FoldStep
  <2> QED
    BY <2>2, <2>3
<1>2. ASSUME NEW n \in H PROVE n + 1 \in H
  <2>1. PICK f \in [Small(n) -> X] :
           \A T \in Small(n) : f[T] = FoldStep(pick, step, base, f, T)
    BY <1>2
  <2>2. \A T \in Small(n + 1) : T # {} => /\ pick[T] \in S
                                          /\ T \ {pick[T]} \in Small(n)
    BY <1>0, FS_RemoveElement DEF Picks
  <2>3. \A T \in Small(n + 1) : FoldStep(pick, step, base, f, T) \in X
    BY <2>2 DEF FoldStep
  <2> DEFINE g == [T \in Small(n + 1) |-> FoldStep(pick, step, base, f, T)]
  <2>4. g \in [Small(n + 1) -> X]
    BY <2>3
  <2>5. \A T \in Small(n) : T \in Small(n + 1) /\ g[T] = f[T]
    BY <1>0, <2>1
  <2>6. \A T \in Small(n + 1) : g[T] = FoldStep(pick, step, base, g, T)
    BY <2>2, <2>5 DEF FoldStep
  <2>7. n + 1 \in Nat
    OBVIOUS
  <2> HIDE DEF g, Small
  <2> QED
    BY <2>4, <2>6, <2>7
<1>3. \A n \in Nat : n \in H
  <2>1. H \in SUBSET Nat
    OBVIOUS
  <2> HIDE DEF H
  <2> QED
    BY <1>1, <1>2, <2>1, Induction
<1>4. Small(Cardinality(S)) = SUBSET S
  BY <1>0, FS_Subset
<1>5. Cardinality(S) \in Nat
  BY FS_CardinalityType
<1>6. PICK f \in [SUBSET S -> X] :
         \A T \in SUBSET S : f[T] = FoldStep(pick, step, base, f, T)
  BY <1>3, <1>4, <1>5
<1> QED
  BY <1>6 DEF Folding

-----------------------------------------------------------------------------
(* The sum of A[i] for the i in S, and the function on the subsets of S     *)
(* that computes it, one chosen element after the other.                    *)
SumOf(A, S) == SumFunctionOnSet(A, S)
Chosen(T) == CHOOSE x \in T : TRUE
SumStep(A, f, T) == IF T = {} THEN 0 ELSE A[Chosen(T)] + f[T \ {Chosen(T)}]
IsSums(A, S, f) == f = [T \in SUBSET S |-> SumStep(A, f, T)]

(* The sum is what such a function says.                                    *)
LEMMA SumUnfold ==
    ASSUME NEW A, NEW S
    PROVE  SumOf(A, S) = (CHOOSE f : IsSums(A, S, f))[S]
BY DEF SumOf, IsSums, SumStep, Chosen, SumFunctionOnSet,
   FoldFunctionOnSet, MapThenFoldSet

LEMMA ChosenIn == ASSUME NEW T, T # {} PROVE Chosen(T) \in T
BY DEF Chosen

(* Two such functions agree where both are defined.                         *)
LEMMA SumsUnique ==
    ASSUME NEW A, NEW S, NEW U, IsFiniteSet(S), U \subseteq S, NEW f, NEW g,
           IsSums(A, S, f), IsSums(A, U, g)
    PROVE  \A T \in SUBSET U : f[T] = g[T]
<1> DEFINE G == {T \in SUBSET U : f[T] = g[T]}
<1>1. \A T \in SUBSET U : f[T] = SumStep(A, f, T) /\ g[T] = SumStep(A, g, T)
  BY DEF IsSums
<1>2. {} \in G
  BY <1>1 DEF SumStep
<1>3. ASSUME NEW T \in SUBSET U, T # {}, \A x \in T : T \ {x} \in G
      PROVE  T \in G
  BY <1>1, <1>3, ChosenIn DEF SumStep
<1>4. IsFiniteSet(U)
  BY FS_Subset
<1> HIDE DEF G
<1>5. G \in SUBSET SUBSET U
  BY DEF G
<1>6. \A T \in SUBSET U : T \in G
  BY <1>2, <1>3, <1>4, <1>5, FiniteInduction
<1> QED
  BY <1>6 DEF G

(* It is a fold.                                                            *)
ChosenOf(S) == [T \in SUBSET S |-> Chosen(T)]
AddTo(A, S) == [p \in S \X Int |-> A[p[1]] + p[2]]

LEMMA SumsFold ==
    ASSUME NEW S, NEW U, U \subseteq S, NEW A, \A i \in S : A[i] \in Int,
           NEW f \in [SUBSET U -> Int]
    PROVE  IsSums(A, U, f) <=> Folding(U, ChosenOf(S), AddTo(A, S), 0, f)
<1>1. ASSUME NEW T \in SUBSET U
      PROVE  SumStep(A, f, T) = FoldStep(ChosenOf(S), AddTo(A, S), 0, f, T)
  <2>1. ChosenOf(S)[T] = Chosen(T)
    BY DEF ChosenOf
  <2>2. CASE T # {}
    <3>1. PICK c \in T : c = Chosen(T)
      BY <2>2, ChosenIn
    <3>2. T \ {c} \in SUBSET U /\ f[T \ {c}] \in Int /\ c \in S
      OBVIOUS
    <3>3. AddTo(A, S)[<<c, f[T \ {c}]>>] = A[c] + f[T \ {c}]
      BY <3>2 DEF AddTo
    <3> QED
      BY <2>1, <2>2, <3>1, <3>3 DEF SumStep, FoldStep
  <2> QED
    BY <2>2 DEF SumStep, FoldStep
<1> QED
  BY <1>1 DEF IsSums, Folding

LEMMA SumsExists ==
    ASSUME NEW S, IsFiniteSet(S), NEW A, \A i \in S : A[i] \in Int
    PROVE  \E f \in [SUBSET S -> Int] : IsSums(A, S, f)
<1>1. Picks(S, ChosenOf(S))
  BY ChosenIn DEF Picks, ChosenOf
<1>2. \A i \in S, x \in Int : AddTo(A, S)[<<i, x>>] \in Int
  BY DEF AddTo
<1>3. \E f \in [SUBSET S -> Int] : Folding(S, ChosenOf(S), AddTo(A, S), 0, f)
  <2>1. PICK pick, step : pick = ChosenOf(S) /\ step = AddTo(A, S)
    OBVIOUS
  <2>2. Picks(S, pick) /\ \A i \in S, x \in Int : step[<<i, x>>] \in Int
    BY <1>1, <1>2, <2>1, Zenon
  <2>3. \E f \in [SUBSET S -> Int] : Folding(S, pick, step, 0, f)
    <3>1. 0 \in Int
      OBVIOUS
    <3> QED
      BY <2>2, <3>1, FoldExists, Zenon
  <2> QED
    BY <2>1, <2>3, Zenon
<1> QED
  BY <1>3, SumsFold

(* The sum of a subset is what the function behind the sum of the whole set *)
(* says.                                                                    *)
LEMMA SumValue ==
    ASSUME NEW S, IsFiniteSet(S), NEW A, NEW f, IsSums(A, S, f),
           \A i \in S : A[i] \in Int, NEW T \in SUBSET S
    PROVE  SumOf(A, T) = f[T]
<1>1. IsFiniteSet(T) /\ \A i \in T : A[i] \in Int
  BY FS_Subset
<1>2. PICK g : g = (CHOOSE h : IsSums(A, T, h))
  OBVIOUS
<1>3. IsSums(A, T, g)
  BY <1>1, <1>2, SumsExists
<1>4. f[T] = g[T]
  BY <1>3, SumsUnique
<1> QED
  BY <1>2, <1>4, SumUnfold

(* What can be added up: whole numbers or, where a part is to be no more    *)
(* than the whole, numbers of things.                                       *)
Amounts(A, S) == IsFiniteSet(S) /\ \A i \in S : A[i] \in Int
Counts(A, S) == IsFiniteSet(S) /\ \A i \in S : A[i] \in Nat

(* The recursion, for the element that is chosen ...                        *)
LEMMA SumRec ==
    ASSUME NEW S, NEW A, Amounts(A, S)
    PROVE  /\ SumOf(A, S) \in Int
           /\ S = {} => SumOf(A, S) = 0
           /\ S # {} => SumOf(A, S) = A[Chosen(S)] + SumOf(A, S \ {Chosen(S)})
<1>1. PICK f \in [SUBSET S -> Int] : IsSums(A, S, f)
  BY SumsExists DEF Amounts
<1>2. \A T \in SUBSET S : SumOf(A, T) = f[T]
  BY <1>1, SumValue DEF Amounts
<1>3. f[S] = SumStep(A, f, S)
  BY <1>1 DEF IsSums
<1> QED
  BY <1>1, <1>2, <1>3 DEF SumStep

LEMMA SumEmpty == ASSUME NEW A PROVE SumOf(A, {}) = 0
<1>1. Amounts(A, {})
  BY FS_EmptySet DEF Amounts
<1> QED
  BY <1>1, SumRec

(* ... and for any other.                                                   *)
LEMMA SumRemove ==
    ASSUME NEW S, NEW A, Amounts(A, S)
    PROVE  \A x \in S : SumOf(A, S) = A[x] + SumOf(A, S \ {x})
<1> DEFINE G == {T \in SUBSET S : \A x \in T : SumOf(A, T) = A[x] + SumOf(A, T \ {x})}
<1>0. \A T \in SUBSET S : Amounts(A, T)
  BY FS_Subset DEF Amounts
<1>1. {} \in G
  OBVIOUS
<1>2. ASSUME NEW T \in SUBSET S, T # {}, \A x \in T : T \ {x} \in G
      PROVE  T \in G
  <2>1. SUFFICES ASSUME NEW x \in T PROVE SumOf(A, T) = A[x] + SumOf(A, T \ {x})
    OBVIOUS
  <2>2. PICK c \in T : c = Chosen(T)
    BY <1>2, ChosenIn
  <2>3. SumOf(A, T) = A[c] + SumOf(A, T \ {c})
    BY <1>0, <1>2, <2>2, SumRec
  <2>4. CASE c = x
    BY <2>3, <2>4
  <2>5. CASE c # x
    <3>1. SumOf(A, T \ {c}) = A[x] + SumOf(A, (T \ {c}) \ {x})
      BY <1>2, <2>5
    <3>2. SumOf(A, T \ {x}) = A[c] + SumOf(A, (T \ {x}) \ {c})
      BY <1>2, <2>5
    <3>3. (T \ {c}) \ {x} = (T \ {x}) \ {c}
      OBVIOUS
    <3>4. A[x] \in Int /\ A[c] \in Int /\ SumOf(A, (T \ {x}) \ {c}) \in Int
      <4>1. (T \ {x}) \ {c} \in SUBSET S
        OBVIOUS
      <4> QED
        BY <1>0, <4>1, SumRec DEF Amounts
    <3>5. PICK a \in Int, b \in Int, r \in Int :
             a = A[x] /\ b = A[c] /\ r = SumOf(A, (T \ {x}) \ {c})
      BY <3>4
    <3>6. SumOf(A, T) = b + (a + r) /\ A[x] + SumOf(A, T \ {x}) = a + (b + r)
      BY <2>3, <3>1, <3>2, <3>3, <3>5, Zenon
    <3>7. b + (a + r) = a + (b + r)
      OBVIOUS
    <3> QED
      BY <3>6, <3>7, Zenon
  <2> QED
    BY <2>4, <2>5
<1> HIDE DEF G
<1>3. G \in SUBSET SUBSET S
  BY DEF G
<1>4. \A T \in SUBSET S : T \in G
  BY <1>1, <1>2, <1>3, FiniteInduction DEF Amounts
<1> QED
  BY <1>4 DEF G

(* Disjoint sets add up.                                                    *)
LEMMA SumDisjoint ==
    ASSUME NEW S, NEW U, NEW A, Amounts(A, S \cup U), S \cap U = {}
    PROVE  SumOf(A, S \cup U) = SumOf(A, S) + SumOf(A, U)
<1> DEFINE G == {T \in SUBSET U : SumOf(A, S \cup T) = SumOf(A, S) + SumOf(A, T)}
<1>0. \A T \in SUBSET (S \cup U) : Amounts(A, T) /\ SumOf(A, T) \in Int
  <2>1. \A T \in SUBSET (S \cup U) : Amounts(A, T)
    BY FS_Subset DEF Amounts
  <2> QED
    BY <2>1, SumRec
<1>1. {} \in G
  <2>1. S \cup {} = S /\ SumOf(A, {}) = 0
    BY SumEmpty
  <2> QED
    BY <1>0, <2>1
<1>2. ASSUME NEW T \in SUBSET U, T # {}, \A x \in T : T \ {x} \in G
      PROVE  T \in G
  <2>1. PICK x \in T : TRUE
    BY <1>2
  <2>2. SumOf(A, S \cup (T \ {x})) = SumOf(A, S) + SumOf(A, T \ {x})
    BY <1>2
  <2>3. SumOf(A, S \cup T) = A[x] + SumOf(A, (S \cup T) \ {x})
    BY <1>0, SumRemove
  <2>4. SumOf(A, T) = A[x] + SumOf(A, T \ {x})
    BY <1>0, SumRemove
  <2>5. (S \cup T) \ {x} = S \cup (T \ {x})
    OBVIOUS
  <2>6. A[x] \in Int /\ SumOf(A, S) \in Int /\ SumOf(A, T \ {x}) \in Int
    BY <1>0 DEF Amounts
  <2>7. PICK a \in Int, s \in Int, r \in Int :
           a = A[x] /\ s = SumOf(A, S) /\ r = SumOf(A, T \ {x})
    BY <2>6
  <2>8. SumOf(A, S \cup T) = a + (s + r) /\ SumOf(A, S) + SumOf(A, T) = s + (a + r)
    BY <2>2, <2>3, <2>4, <2>5, <2>7, Zenon
  <2>9. a + (s + r) = s + (a + r)
    OBVIOUS
  <2> QED
    BY <2>8, <2>9, Zenon
<1> HIDE DEF G
<1>3. G \in SUBSET SUBSET U
  BY DEF G
<1>4. \A T \in SUBSET U : T \in G
  BY <1>0, <1>1, <1>2, <1>3, FiniteInduction DEF Amounts
<1> QED
  BY <1>4 DEF G

(* Numbers of things add up to one.                                         *)
LEMMA SumCount ==
    ASSUME NEW S, NEW A, Counts(A, S)
    PROVE  Amounts(A, S) /\ SumOf(A, S) \in Nat
<1> DEFINE G == {T \in SUBSET S : SumOf(A, T) \in Nat}
<1>0. \A T \in SUBSET S : Amounts(A, T)
  BY FS_Subset DEF Amounts, Counts
<1>1. {} \in G
  BY SumEmpty
<1>2. ASSUME NEW T \in SUBSET S, T # {}, \A x \in T : T \ {x} \in G
      PROVE  T \in G
  <2>1. PICK x \in T : SumOf(A, T) = A[x] + SumOf(A, T \ {x})
    BY <1>0, <1>2, SumRemove
  <2>2. A[x] \in Nat /\ SumOf(A, T \ {x}) \in Nat
    BY <1>2 DEF Counts
  <2> QED
    BY <2>1, <2>2
<1> HIDE DEF G
<1>3. G \in SUBSET SUBSET S
  BY DEF G
<1>4. \A T \in SUBSET S : T \in G
  BY <1>1, <1>2, <1>3, FiniteInduction DEF Counts
<1> QED
  BY <1>0, <1>4 DEF G

(* A subset adds up to no more.                                             *)
LEMMA SumMonotone ==
    ASSUME NEW S, NEW A, Counts(A, S), NEW T \in SUBSET S
    PROVE  SumOf(A, T) <= SumOf(A, S)
<1>1. S = T \cup (S \ T) /\ T \cap (S \ T) = {}
  OBVIOUS
<1>2. Counts(A, T) /\ Counts(A, S \ T)
  BY FS_Subset DEF Counts
<1>3. SumOf(A, S) = SumOf(A, T) + SumOf(A, S \ T)
  BY <1>1, SumDisjoint, SumCount
<1>4. PICK t \in Nat, r \in Nat : t = SumOf(A, T) /\ r = SumOf(A, S \ T)
  BY <1>2, SumCount
<1>5. t <= t + r
  OBVIOUS
<1> QED
  BY <1>3, <1>4, <1>5, Zenon

(* Only the amounts of the elements matter.                                 *)
LEMMA SumSame ==
    ASSUME NEW S, NEW A, NEW B, Amounts(A, S), \A i \in S : A[i] = B[i]
    PROVE  SumOf(A, S) = SumOf(B, S)
<1> DEFINE G == {T \in SUBSET S : SumOf(A, T) = SumOf(B, T)}
<1>0. \A T \in SUBSET S : Amounts(A, T) /\ Amounts(B, T)
  BY FS_Subset DEF Amounts
<1>1. {} \in G
  <2>1. SumOf(A, {}) = 0
    BY SumEmpty
  <2>2. SumOf(B, {}) = 0
    BY SumEmpty
  <2> QED
    BY <2>1, <2>2
<1>2. ASSUME NEW T \in SUBSET S, T # {}, \A x \in T : T \ {x} \in G
      PROVE  T \in G
  <2>1. PICK x \in T : TRUE
    BY <1>2
  <2>2. SumOf(A, T) = A[x] + SumOf(A, T \ {x})
    BY <1>0, SumRemove
  <2>3. SumOf(B, T) = B[x] + SumOf(B, T \ {x})
    BY <1>0, SumRemove
  <2>4. A[x] = B[x] /\ SumOf(A, T \ {x}) = SumOf(B, T \ {x})
    BY <1>2
  <2>5. SumOf(A, T) = SumOf(B, T)
    BY <2>2, <2>3, <2>4, Zenon
  <2> QED
    BY <2>5
<1> HIDE DEF G
<1>3. G \in SUBSET SUBSET S
  BY DEF G
<1>4. \A T \in SUBSET S : T \in G
  BY <1>1, <1>2, <1>3, FiniteInduction DEF Amounts
<1> QED
  BY <1>4 DEF G

(* Nothing adds up to nothing ...                                           *)
LEMMA SumZero ==
    ASSUME NEW S, NEW A, IsFiniteSet(S), \A i \in S : A[i] = 0
    PROVE  SumOf(A, S) = 0
<1> DEFINE G == {T \in SUBSET S : SumOf(A, T) = 0}
<1>0. \A T \in SUBSET S : Amounts(A, T)
  BY FS_Subset DEF Amounts
<1>1. {} \in G
  BY SumEmpty
<1>2. ASSUME NEW T \in SUBSET S, T # {}, \A x \in T : T \ {x} \in G
      PROVE  T \in G
  <2>1. PICK x \in T : SumOf(A, T) = A[x] + SumOf(A, T \ {x})
    BY <1>0, <1>2, SumRemove
  <2> QED
    BY <1>2, <2>1
<1> HIDE DEF G
<1>3. G \in SUBSET SUBSET S
  BY DEF G
<1>4. \A T \in SUBSET S : T \in G
  BY <1>1, <1>2, <1>3, FiniteInduction
<1> QED
  BY <1>4 DEF G

(* ... and where one amount grows, the sum grows by as much.                *)
LEMMA SumGrows ==
    ASSUME NEW S, NEW A, NEW B, Amounts(A, S), NEW k \in S, NEW n \in Int,
           B[k] = A[k] + n, \A i \in S \ {k} : A[i] = B[i]
    PROVE  SumOf(B, S) = SumOf(A, S) + n
<1>1. Amounts(B, S) /\ Amounts(A, S \ {k})
  BY FS_Subset DEF Amounts
<1>2. SumOf(A, S) = A[k] + SumOf(A, S \ {k})
  BY SumRemove
<1>3. SumOf(B, S) = B[k] + SumOf(B, S \ {k})
  BY <1>1, SumRemove
<1>4. SumOf(A, S \ {k}) = SumOf(B, S \ {k})
  BY <1>1, SumSame
<1>5. PICK a \in Int, r \in Int : a = A[k] /\ r = SumOf(A, S \ {k})
  BY <1>1, SumRec DEF Amounts
<1>6. SumOf(A, S) + n = (a + r) + n /\ SumOf(B, S) = (a + n) + r
  BY <1>2, <1>3, <1>4, <1>5, Zenon
<1>7. (a + r) + n = (a + n) + r
  OBVIOUS
<1> QED
  BY <1>6, <1>7, Zenon

(* Parts of a finite set that do not overlap have together no more elements *)
(* than the set.                                                            *)
LEMMA SumOfParts ==
    ASSUME NEW S, IsFiniteSet(S), NEW U, IsFiniteSet(U), NEW A, NEW F,
           \A i \in S : F[i] \subseteq U /\ A[i] = Cardinality(F[i]),
           \A i, j \in S : i # j => F[i] \cap F[j] = {}
    PROVE  SumOf(A, S) <= Cardinality(U)
<1> DEFINE All(T) == UNION {F[i] : i \in T}
           G == {T \in SUBSET S : SumOf(A, T) = Cardinality(All(T))}
<1>0. \A T \in SUBSET S : /\ Counts(A, T) /\ Amounts(A, T)
                          /\ IsFiniteSet(All(T)) /\ All(T) \subseteq U
  <2>1. \A i \in S : A[i] \in Nat
    BY FS_Subset, FS_CardinalityType
  <2>2. \A T \in SUBSET S : IsFiniteSet(T) /\ All(T) \subseteq U
    BY FS_Subset
  <2> HIDE DEF All
  <2> QED
    BY <2>1, <2>2, FS_Subset DEF Counts, Amounts
<1>1. {} \in G
  BY SumEmpty, FS_EmptySet
<1>2. ASSUME NEW T \in SUBSET S, T # {}, \A x \in T : T \ {x} \in G
      PROVE  T \in G
  <2>1. PICK x \in T : TRUE
    BY <1>2
  <2>2. SumOf(A, T) = A[x] + SumOf(A, T \ {x})
    BY <1>0, SumRemove
  <2>3. All(T) = F[x] \cup All(T \ {x}) /\ F[x] \cap All(T \ {x}) = {}
    OBVIOUS
  <2>4. IsFiniteSet(F[x]) /\ IsFiniteSet(All(T \ {x}))
    BY <1>0, FS_Subset
  <2>5. SumOf(A, T \ {x}) = Cardinality(All(T \ {x}))
    BY <1>2
  <2> HIDE DEF All
  <2>6. Cardinality(All(T)) = Cardinality(F[x]) + Cardinality(All(T \ {x}))
    <3>1. PICK a, b : a = F[x] /\ b = All(T \ {x})
      OBVIOUS
    <3>2. Cardinality(a \cup b) = Cardinality(a) + Cardinality(b) - Cardinality(a \cap b)
      BY <2>4, <3>1, FS_Union
    <3>3. Cardinality(a \cap b) = 0 /\ Cardinality(a) \in Nat /\ Cardinality(b) \in Nat
      BY <2>3, <2>4, <3>1, FS_EmptySet, FS_CardinalityType
    <3> QED
      BY <2>3, <3>1, <3>2, <3>3
  <2> QED
    BY <2>2, <2>5, <2>6, Zenon
<1>3. \A T \in SUBSET S : T \in G
  <2>1. G \in SUBSET SUBSET S
    OBVIOUS
  <2> HIDE DEF G
  <2> QED
    BY <1>1, <1>2, <2>1, FiniteInduction
<1>4. SumOf(A, S) = Cardinality(All(S))
  BY <1>3
<1> HIDE DEF All
<1> QED
  BY <1>0, <1>4, FS_Subset
=============================================================================
