------------------------------- MODULE FiniteSums -------------------------------
(***************************************************************************)
(* What SumFunctionOnSet computes: the sum of f over a finite set, whatever *)
(* the order in which its definition takes the elements.                   *)
(*                                                                         *)
(* The induction theorems of the library cannot be instantiated by the     *)
(* provers, so every induction is by a smallest counterexample: a non-empty *)
(* family of subsets of a finite set has a member with no smaller one.     *)
(***************************************************************************)
EXTENDS Integers, FiniteSets, Functions, FiniteSetTheorems, WellFoundedInduction, TLAPS

(* The element that the definition of a fold takes first. *)
Pick(T) == CHOOSE x \in T : TRUE

(* g gives the sum of f over every subset of S. *)
IsSum(g, f, S) ==
    g = [T \in SUBSET S |-> IF T = {} THEN 0 ELSE f[Pick(T)] + g[T \ {Pick(T)}]]

LEMMA PickIn == ASSUME NEW T, T # {} PROVE Pick(T) \in T
BY DEF Pick

(* Induction over the subsets of a finite set. *)
LEMMA SmallestSubset ==
    ASSUME NEW S, IsFiniteSet(S), NEW F, F \subseteq SUBSET S, F # {}
    PROVE  \E A \in F : \A B \in F : ~(B \subseteq A /\ B # A)
<1>1. F \subseteq FiniteSubsetsOf(S)
  BY FS_FiniteSubsetsOfFinite
<1>2. PICK A \in F : \A B \in F : ~(<<B, A>> \in StrictSubsetOrdering(S))
  BY <1>1, WFMin, FS_StrictSubsetOrderingWellFounded
<1> QED
  BY <1>2 DEF StrictSubsetOrdering

LEMMA SumUnique ==
    ASSUME NEW f, NEW S, NEW R, NEW g, NEW h, IsSum(g, f, S), IsSum(h, f, R),
           IsFiniteSet(S), S \subseteq R
    PROVE  \A A \in SUBSET S : g[A] = h[A]
<1> DEFINE F == {A \in SUBSET S : g[A] # h[A]}
<1> SUFFICES ASSUME F # {} PROVE FALSE
  OBVIOUS
<1>1. PICK A \in F : \A B \in F : ~(B \subseteq A /\ B # A)
  <2> HIDE DEF F
  <2>1. F \subseteq SUBSET S
    BY DEF F
  <2> QED
    BY <2>1, SmallestSubset
<1>2. CASE A = {}
  BY <1>2, <1>1 DEF IsSum
<1>3. CASE A # {}
  <2> DEFINE B == A \ {Pick(A)}
  <2>1. g[A] = f[Pick(A)] + g[B] /\ h[A] = f[Pick(A)] + h[B]
    BY <1>3 DEF IsSum
  <2>2. B \subseteq A /\ B # A
    BY PickIn, <1>3
  <2>3. g[B] = h[B]
    BY <2>2, <1>1
  <2> QED
    BY <2>1, <2>3
<1> QED
  BY <1>2, <1>3

(* The sum, as the definition chooses it. *)
Result(f, S) == (CHOOSE g : IsSum(g, f, S))[S]

LEMMA SumExists == ASSUME NEW f, NEW S, IsFiniteSet(S) PROVE \E g : IsSum(g, f, S)
<1> DEFINE F == {A \in SUBSET S : ~ \E g : IsSum(g, f, A)}
<1> SUFFICES ASSUME F # {} PROVE FALSE
  OBVIOUS
<1>1. PICK A \in F : \A B \in F : ~(B \subseteq A /\ B # A)
  <2> HIDE DEF F
  <2>1. F \subseteq SUBSET S
    BY DEF F
  <2> QED
    BY <2>1, SmallestSubset
<1> DEFINE G == [T \in SUBSET A |-> IF T = {} THEN 0 ELSE f[Pick(T)] + Result(f, T \ {Pick(T)})]
<1>2. ASSUME NEW T \in SUBSET A, T # A PROVE IsSum(CHOOSE g : IsSum(g, f, T), f, T)
  <2>1. \E g : IsSum(g, f, T)
    BY <1>1, <1>2
  <2> QED
    BY <2>1
<1>3. ASSUME NEW T \in SUBSET A, T # A PROVE G[T] = Result(f, T)
  <2> DEFINE g == CHOOSE gg : IsSum(gg, f, T)
             p == Pick(T)
             h == CHOOSE gg : IsSum(gg, f, T \ {p})
  <2>1. IsSum(g, f, T)
    BY <1>3, <1>2
  <2>2. CASE T = {}
    BY <2>1, <2>2 DEF IsSum, Result
  <2>3. CASE T # {}
    <3>1. p \in T
      BY <2>3, PickIn
    <3>2. IsSum(h, f, T \ {p})
      <4>1. T \ {p} \in SUBSET A /\ T \ {p} # A
        BY <1>3, <3>1
      <4> HIDE DEF p
      <4> QED
        BY <4>1, <1>2
    <3>3. g[T] = f[p] + g[T \ {p}]
      BY <2>1, <2>3 DEF IsSum
    <3>4. IsFiniteSet(T \ {p})
      BY FS_Subset
    <3>5. h[T \ {p}] = g[T \ {p}]
      <4> HIDE DEF g, h, p
      <4> QED
        BY <2>1, <3>2, <3>4, SumUnique
    <3>6. G[T] = f[p] + Result(f, T \ {p})
      BY <2>3
    <3> QED
      BY <3>3, <3>5, <3>6 DEF Result
  <2> QED
    BY <2>2, <2>3
<1>4. IsSum(G, f, A)
  <2>1. ASSUME NEW T \in SUBSET A, T # {} PROVE Result(f, T \ {Pick(T)}) = G[T \ {Pick(T)}]
    <3>1. T \ {Pick(T)} \in SUBSET A /\ T \ {Pick(T)} # A
      BY <2>1, PickIn
    <3> HIDE DEF G
    <3> QED
      BY <3>1, <1>3
  <2>2. \A T \in SUBSET A : G[T] = IF T = {} THEN 0 ELSE f[Pick(T)] + G[T \ {Pick(T)}]
    BY <2>1
  <2> QED
    BY <2>2 DEF IsSum
<1>5. A \notin F
  <2> HIDE DEF G
  <2> QED
    BY <1>4
<1> QED
  BY <1>1, <1>5

LEMMA SumResult == ASSUME NEW f, NEW S PROVE SumFunctionOnSet(f, S) = Result(f, S)
BY DEF SumFunctionOnSet, FoldFunctionOnSet, MapThenFoldSet, Result, IsSum, Pick

(* One step of the sum, in the order of the definition. *)
LEMMA SumPick ==
    ASSUME NEW f, NEW S, IsFiniteSet(S), S # {}
    PROVE  SumFunctionOnSet(f, S) = f[Pick(S)] + SumFunctionOnSet(f, S \ {Pick(S)})
<1> DEFINE g == CHOOSE gg : IsSum(gg, f, S)
           T == S \ {Pick(S)}
           h == CHOOSE hh : IsSum(hh, f, T)
<1>1. IsFiniteSet(T)
  BY FS_Subset
<1>2. IsSum(g, f, S) /\ IsSum(h, f, T)
  <2> HIDE DEF T
  <2> QED
    BY <1>1, SumExists
<1>3. h[T] = g[T]
  <2>1. T \subseteq S
    OBVIOUS
  <2> HIDE DEF g, h, T
  <2> QED
    BY <1>1, <1>2, <2>1, SumUnique
<1>4. g[S] = f[Pick(S)] + g[T]
  BY <1>2 DEF IsSum
<1>5. SumFunctionOnSet(f, S) = g[S] /\ SumFunctionOnSet(f, T) = h[T]
  <2> HIDE DEF T
  <2> QED
    BY SumResult DEF Result
<1> HIDE DEF g, h
<1> QED
  BY <1>3, <1>4, <1>5

(* Nothing adds up to 0. *)
LEMMA SumEmpty == ASSUME NEW f PROVE SumFunctionOnSet(f, {}) = 0
<1>1. IsSum(CHOOSE g : IsSum(g, f, {}), f, {})
  BY SumExists, FS_EmptySet
<1> QED
  BY <1>1, SumResult DEF IsSum, Result

(* The sum of integers is an integer. *)
LEMMA SumType ==
    ASSUME NEW f, NEW S, IsFiniteSet(S), \A x \in S : f[x] \in Int
    PROVE  SumFunctionOnSet(f, S) \in Int
<1> DEFINE F == {A \in SUBSET S : SumFunctionOnSet(f, A) \notin Int}
<1> SUFFICES ASSUME F # {} PROVE FALSE
  OBVIOUS
<1>1. PICK A \in F : \A B \in F : ~(B \subseteq A /\ B # A)
  <2> HIDE DEF F
  <2>1. F \subseteq SUBSET S
    BY DEF F
  <2> QED
    BY <2>1, SmallestSubset
<1>2. A # {}
  <2>1. SumFunctionOnSet(f, {}) \in Int
    BY SumEmpty
  <2> QED
    BY <1>1, <2>1
<1>3. IsFiniteSet(A) /\ Pick(A) \in A
  BY <1>2, FS_Subset, PickIn
<1>4. SumFunctionOnSet(f, A \ {Pick(A)}) \in Int
  BY <1>1, <1>3
<1> QED
  BY <1>1, <1>2, <1>3, <1>4, SumPick

(* Nothing but zeros adds up to 0. *)
LEMMA SumZero ==
    ASSUME NEW f, NEW S, IsFiniteSet(S), \A x \in S : f[x] = 0
    PROVE  SumFunctionOnSet(f, S) = 0
<1> DEFINE F == {A \in SUBSET S : SumFunctionOnSet(f, A) # 0}
<1> SUFFICES ASSUME F # {} PROVE FALSE
  OBVIOUS
<1>1. PICK A \in F : \A B \in F : ~(B \subseteq A /\ B # A)
  <2> HIDE DEF F
  <2>1. F \subseteq SUBSET S
    BY DEF F
  <2> QED
    BY <2>1, SmallestSubset
<1>2. A # {}
  BY <1>1, SumEmpty
<1>3. IsFiniteSet(A) /\ Pick(A) \in A
  BY <1>2, FS_Subset, PickIn
<1>4. SumFunctionOnSet(f, A \ {Pick(A)}) = 0
  BY <1>1, <1>3
<1>5. SumFunctionOnSet(f, A) = 0
  BY <1>2, <1>3, <1>4, SumPick
<1> QED
  BY <1>1, <1>5

(* Functions that agree on a set have the same sum over it. *)
LEMMA SumSame ==
    ASSUME NEW f, NEW g, NEW S, IsFiniteSet(S), \A x \in S : f[x] = g[x]
    PROVE  SumFunctionOnSet(f, S) = SumFunctionOnSet(g, S)
<1> DEFINE F == {A \in SUBSET S : SumFunctionOnSet(f, A) # SumFunctionOnSet(g, A)}
<1> SUFFICES ASSUME F # {} PROVE FALSE
  OBVIOUS
<1>1. PICK A \in F : \A B \in F : ~(B \subseteq A /\ B # A)
  <2> HIDE DEF F
  <2>1. F \subseteq SUBSET S
    BY DEF F
  <2> QED
    BY <2>1, SmallestSubset
<1>2. A # {}
  BY <1>1, SumEmpty
<1>3. IsFiniteSet(A) /\ Pick(A) \in A
  BY <1>2, FS_Subset, PickIn
<1>4. SumFunctionOnSet(f, A \ {Pick(A)}) = SumFunctionOnSet(g, A \ {Pick(A)})
  BY <1>1, <1>3
<1> QED
  BY <1>1, <1>2, <1>3, <1>4, SumPick

(* Any element may be taken first. *)
LEMMA SumStep ==
    ASSUME NEW f, NEW S, IsFiniteSet(S), \A x \in S : f[x] \in Int, NEW e \in S
    PROVE  SumFunctionOnSet(f, S) = f[e] + SumFunctionOnSet(f, S \ {e})
<1> DEFINE Odd(A) == \E x \in A : SumFunctionOnSet(f, A) # f[x] + SumFunctionOnSet(f, A \ {x})
           F == {A \in SUBSET S : Odd(A)}
<1> SUFFICES ASSUME F # {} PROVE FALSE
  OBVIOUS
<1>1. PICK A \in F : \A B \in F : ~(B \subseteq A /\ B # A)
  <2> HIDE DEF F
  <2>1. F \subseteq SUBSET S
    BY DEF F
  <2> QED
    BY <2>1, SmallestSubset
<1>2. PICK x \in A : SumFunctionOnSet(f, A) # f[x] + SumFunctionOnSet(f, A \ {x})
  BY <1>1
<1> DEFINE p == Pick(A)
<1>3. IsFiniteSet(A) /\ p \in A
  BY <1>2, FS_Subset, PickIn
<1> HIDE DEF p
<1>4. SumFunctionOnSet(f, A) = f[p] + SumFunctionOnSet(f, A \ {p})
  BY <1>2, <1>3, SumPick DEF p
<1>5. x # p
  BY <1>2, <1>4
<1>6. /\ SumFunctionOnSet(f, A \ {p}) = f[x] + SumFunctionOnSet(f, (A \ {p}) \ {x})
      /\ SumFunctionOnSet(f, A \ {x}) = f[p] + SumFunctionOnSet(f, (A \ {x}) \ {p})
  <2>1. A \ {p} \notin F /\ A \ {p} \in SUBSET S /\ x \in A \ {p}
    BY <1>1, <1>3, <1>5
  <2>2. A \ {x} \notin F /\ A \ {x} \in SUBSET S /\ p \in A \ {x}
    BY <1>1, <1>2, <1>3, <1>5
  <2> QED
    BY <2>1, <2>2
<1> DEFINE C == (A \ {x}) \ {p}
           sum == SumFunctionOnSet(f, C)
<1>7. sum \in Int
  <2>1. IsFiniteSet(C) /\ \A y \in C : f[y] \in Int
    BY <1>3, FS_Subset
  <2> QED
    BY <2>1, SumType
<1>8. f[x] \in Int /\ f[p] \in Int
  BY <1>1, <1>2, <1>3
<1>9. /\ SumFunctionOnSet(f, A \ {p}) = f[x] + sum
      /\ SumFunctionOnSet(f, A \ {x}) = f[p] + sum
  <2>1. (A \ {p}) \ {x} = C
    OBVIOUS
  <2> QED
    BY <1>6, <2>1
<1> HIDE DEF F, C
<1> QED
  BY <1>2, <1>4, <1>7, <1>8, <1>9

-----------------------------------------------------------------------------
(* A function that changes at one element changes the sum by as much. *)
LEMMA SumChange ==
    ASSUME NEW f, NEW g, NEW S, IsFiniteSet(S), NEW e \in S,
           \A x \in S : f[x] \in Int, g[e] \in Int,
           \A x \in S \ {e} : g[x] = f[x]
    PROVE  SumFunctionOnSet(g, S) = SumFunctionOnSet(f, S) - f[e] + g[e]
<1> DEFINE T == S \ {e}
<1>1. IsFiniteSet(T)
  BY FS_Subset
<1>2. SumFunctionOnSet(f, T) \in Int
  BY <1>1, SumType
<1>3. SumFunctionOnSet(g, T) = SumFunctionOnSet(f, T)
  BY <1>1, SumSame
<1>4. SumFunctionOnSet(f, S) = f[e] + SumFunctionOnSet(f, T)
  BY SumStep
<1>5. SumFunctionOnSet(g, S) = g[e] + SumFunctionOnSet(g, T)
  <2>1. \A x \in S : g[x] \in Int
    OBVIOUS
  <2> QED
    BY <2>1, SumStep
<1>6. f[e] \in Int
  OBVIOUS
<1> HIDE DEF T
<1> QED
  BY <1>2, <1>3, <1>4, <1>5, <1>6

(* One element more. *)
LEMMA SumAdd ==
    ASSUME NEW f, NEW S, IsFiniteSet(S), NEW e, e \notin S, \A x \in S \cup {e} : f[x] \in Int
    PROVE  SumFunctionOnSet(f, S \cup {e}) = f[e] + SumFunctionOnSet(f, S)
<1>1. IsFiniteSet(S \cup {e})
  BY FS_AddElement
<1>2. (S \cup {e}) \ {e} = S
  OBVIOUS
<1> QED
  BY <1>1, <1>2, SumStep

(* A function that is nowhere larger has no larger sum. *)
LEMMA SumMonotone ==
    ASSUME NEW f, NEW g, NEW S, IsFiniteSet(S),
           \A x \in S : f[x] \in Int /\ g[x] \in Int /\ f[x] <= g[x]
    PROVE  SumFunctionOnSet(f, S) <= SumFunctionOnSet(g, S)
<1> DEFINE F == {A \in SUBSET S : ~(SumFunctionOnSet(f, A) <= SumFunctionOnSet(g, A))}
<1> SUFFICES ASSUME F # {} PROVE FALSE
  OBVIOUS
<1>1. PICK A \in F : \A B \in F : ~(B \subseteq A /\ B # A)
  <2> HIDE DEF F
  <2>1. F \subseteq SUBSET S
    BY DEF F
  <2> QED
    BY <2>1, SmallestSubset
<1>2. A # {}
  <2>1. SumFunctionOnSet(f, {}) = 0 /\ SumFunctionOnSet(g, {}) = 0
    BY SumEmpty
  <2>2. ~(SumFunctionOnSet(f, A) <= SumFunctionOnSet(g, A))
    BY <1>1
  <2> HIDE DEF F
  <2> QED
    BY <2>1, <2>2
<1> DEFINE e == Pick(A)
           B == A \ {e}
<1>3. /\ IsFiniteSet(A) /\ e \in A /\ IsFiniteSet(B)
      /\ f[e] \in Int /\ g[e] \in Int /\ f[e] <= g[e]
  BY <1>2, FS_Subset, PickIn
<1>4. SumFunctionOnSet(f, B) <= SumFunctionOnSet(g, B)
  BY <1>1, <1>3
<1>5. SumFunctionOnSet(f, B) \in Int /\ SumFunctionOnSet(g, B) \in Int
  <2>1. \A x \in B : f[x] \in Int /\ g[x] \in Int
    OBVIOUS
  <2> HIDE DEF B
  <2> QED
    BY <1>3, <2>1, SumType
<1>6. /\ SumFunctionOnSet(f, A) = f[e] + SumFunctionOnSet(f, B)
      /\ SumFunctionOnSet(g, A) = g[e] + SumFunctionOnSet(g, B)
  BY <1>2, <1>3, SumPick
<1>7. ~(SumFunctionOnSet(f, A) <= SumFunctionOnSet(g, A))
  BY <1>1
<1> HIDE DEF e, B, F
<1> QED
  BY <1>3, <1>4, <1>5, <1>6, <1>7

(* The sum over two disjoint sets. *)
LEMMA SumUnion ==
    ASSUME NEW f, NEW S, NEW T, IsFiniteSet(S), IsFiniteSet(T), S \cap T = {},
           \A x \in S \cup T : f[x] \in Int
    PROVE  SumFunctionOnSet(f, S \cup T) = SumFunctionOnSet(f, S) + SumFunctionOnSet(f, T)
<1> DEFINE F == {A \in SUBSET T :
                  SumFunctionOnSet(f, S \cup A) # SumFunctionOnSet(f, S) + SumFunctionOnSet(f, A)}
<1> SUFFICES ASSUME F # {} PROVE FALSE
  OBVIOUS
<1>1. PICK A \in F : \A B \in F : ~(B \subseteq A /\ B # A)
  <2> HIDE DEF F
  <2>1. F \subseteq SUBSET T
    BY DEF F
  <2> QED
    BY <2>1, SmallestSubset
<1>2. SumFunctionOnSet(f, S) \in Int
  BY SumType
<1>3. A # {}
  <2> HIDE DEF F
  <2> SUFFICES ASSUME A = {} PROVE FALSE
    OBVIOUS
  <2>1. SumFunctionOnSet(f, A) = 0 /\ S \cup A = S
    BY SumEmpty
  <2>2. SumFunctionOnSet(f, S \cup A) # SumFunctionOnSet(f, S) + SumFunctionOnSet(f, A)
    BY <1>1 DEF F
  <2> QED
    BY <1>2, <2>1, <2>2
<1> DEFINE e == Pick(A)
           B == A \ {e}
<1>4. IsFiniteSet(A) /\ e \in A /\ IsFiniteSet(B) /\ A \subseteq T /\ B \subseteq T
  BY <1>3, FS_Subset, PickIn
<1>5. SumFunctionOnSet(f, S \cup B) = SumFunctionOnSet(f, S) + SumFunctionOnSet(f, B)
  BY <1>1, <1>4
<1>6. SumFunctionOnSet(f, B) \in Int /\ f[e] \in Int
  <2>1. \A x \in B : f[x] \in Int
    OBVIOUS
  <2> HIDE DEF B
  <2> QED
    BY <1>4, <2>1, SumType
<1>7. SumFunctionOnSet(f, A) = f[e] + SumFunctionOnSet(f, B)
  BY <1>3, <1>4, SumPick
<1>8. SumFunctionOnSet(f, S \cup A) = f[e] + SumFunctionOnSet(f, S \cup B)
  <2>1. IsFiniteSet(S \cup B) /\ e \notin S \cup B /\ (S \cup B) \cup {e} = S \cup A
    BY <1>4, FS_Union
  <2>2. \A x \in (S \cup B) \cup {e} : f[x] \in Int
    BY <1>4
  <2> HIDE DEF B, e
  <2> QED
    BY <2>1, <2>2, SumAdd
<1>9. SumFunctionOnSet(f, S \cup A) # SumFunctionOnSet(f, S) + SumFunctionOnSet(f, A)
  BY <1>1
<1> HIDE DEF e, B, F
<1> QED
  BY <1>2, <1>5, <1>6, <1>7, <1>8, <1>9

(* A sum of naturals is one, and no part of it is larger. *)
LEMMA SumPart ==
    ASSUME NEW f, NEW S, IsFiniteSet(S), \A x \in S : f[x] \in Nat, NEW T \in SUBSET S
    PROVE  /\ SumFunctionOnSet(f, S) \in Nat
           /\ SumFunctionOnSet(f, T) <= SumFunctionOnSet(f, S)
<1>1. ASSUME NEW A \in SUBSET S
      PROVE  IsFiniteSet(A) /\ SumFunctionOnSet(f, A) \in Nat
  <2> DEFINE F == {B \in SUBSET A : SumFunctionOnSet(f, B) \notin Nat}
  <2>1. IsFiniteSet(A)
    BY FS_Subset
  <2> SUFFICES ASSUME F # {} PROVE FALSE
    BY <2>1
  <2>2. PICK B \in F : \A C \in F : ~(C \subseteq B /\ C # B)
    <3> HIDE DEF F
    <3>1. F \subseteq SUBSET A
      BY DEF F
    <3> QED
      BY <2>1, <3>1, SmallestSubset
  <2>3. B # {}
    <3>1. SumFunctionOnSet(f, {}) \in Nat
      BY SumEmpty
    <3> QED
      BY <2>2, <3>1
  <2>4. IsFiniteSet(B) /\ Pick(B) \in B /\ f[Pick(B)] \in Nat
    BY <2>1, <2>3, FS_Subset, PickIn
  <2>5. SumFunctionOnSet(f, B \ {Pick(B)}) \in Nat
    BY <2>2, <2>4
  <2>6. SumFunctionOnSet(f, B) = f[Pick(B)] + SumFunctionOnSet(f, B \ {Pick(B)})
    BY <2>3, <2>4, SumPick
  <2>7. SumFunctionOnSet(f, B) \notin Nat
    BY <2>2
  <2> QED
    BY <2>4, <2>5, <2>6, <2>7
<1>2. SumFunctionOnSet(f, T \cup (S \ T))
        = SumFunctionOnSet(f, T) + SumFunctionOnSet(f, S \ T)
  <2>1. T \cap (S \ T) = {} /\ \A x \in T \cup (S \ T) : f[x] \in Int
    OBVIOUS
  <2>2. IsFiniteSet(T) /\ IsFiniteSet(S \ T)
    BY <1>1
  <2> QED
    BY <2>1, <2>2, SumUnion
<1>3. T \cup (S \ T) = S
  OBVIOUS
<1>4. /\ SumFunctionOnSet(f, T) \in Nat
      /\ SumFunctionOnSet(f, S \ T) \in Nat
      /\ SumFunctionOnSet(f, S) \in Nat
  BY <1>1
<1>5. SumFunctionOnSet(f, S) = SumFunctionOnSet(f, T) + SumFunctionOnSet(f, S \ T)
  BY <1>2, <1>3
<1> QED
  BY <1>4, <1>5

(* Fewer and smaller naturals have no larger sum. *)
LEMMA SumBelow ==
    ASSUME NEW f, NEW g, NEW S, IsFiniteSet(S), NEW T \in SUBSET S,
           \A x \in S : f[x] \in Nat, \A x \in T : g[x] \in Nat /\ g[x] <= f[x]
    PROVE  SumFunctionOnSet(g, T) <= SumFunctionOnSet(f, S)
<1>1. IsFiniteSet(T)
  BY FS_Subset
<1>2. SumFunctionOnSet(g, T) <= SumFunctionOnSet(f, T)
  <2>1. \A x \in T : g[x] \in Int /\ f[x] \in Int /\ g[x] <= f[x]
    OBVIOUS
  <2> QED
    BY <1>1, <2>1, SumMonotone
<1>3. SumFunctionOnSet(f, T) <= SumFunctionOnSet(f, S)
  BY SumPart
<1>4. /\ SumFunctionOnSet(f, S) \in Int /\ SumFunctionOnSet(f, T) \in Int
      /\ SumFunctionOnSet(g, T) \in Int
  <2>1. (\A x \in S : f[x] \in Int) /\ (\A x \in T : f[x] \in Int) /\ (\A x \in T : g[x] \in Int)
    OBVIOUS
  <2> QED
    BY <1>1, <2>1, SumType
<1> QED
  BY <1>2, <1>3, <1>4

(* A finite set has elements of the least and of the largest value. *)
LEMMA Least ==
    ASSUME NEW f, NEW S, IsFiniteSet(S), S # {}, \A x \in S : f[x] \in Int
    PROVE  \E x \in S : \A y \in S : f[x] <= f[y]
<1> DEFINE F == {A \in SUBSET S : A # {} /\ ~\E x \in A : \A y \in A : f[x] <= f[y]}
<1> SUFFICES ASSUME F # {} PROVE FALSE
  OBVIOUS
<1>1. PICK A \in F : \A B \in F : ~(B \subseteq A /\ B # A)
  <2> HIDE DEF F
  <2>1. F \subseteq SUBSET S
    BY DEF F
  <2> QED
    BY <2>1, SmallestSubset
<1> DEFINE e == Pick(A)
           B == A \ {e}
<1>2. e \in A /\ A \subseteq S /\ B \subseteq A /\ B # A
  BY <1>1, PickIn
<1>3. ~\E x \in A : \A y \in A : f[x] <= f[y]
  BY <1>1
<1>4. CASE B = {}
  <2>1. \A y \in A : y = e
    BY <1>4
  <2>2. f[e] \in Int
    BY <1>2
  <2> HIDE DEF e
  <2> QED
    BY <1>2, <1>3, <2>1, <2>2
<1>5. CASE B # {}
  <2>1. PICK x \in B : \A y \in B : f[x] <= f[y]
    BY <1>1, <1>2, <1>5
  <2>2. f[x] \in Int /\ f[e] \in Int /\ \A y \in A : f[y] \in Int /\ (y = e \/ y \in B)
    BY <1>2
  <2> HIDE DEF e, B, F
  <2>3. CASE f[x] <= f[e]
    BY <1>2, <1>3, <2>1, <2>2, <2>3
  <2>4. CASE ~(f[x] <= f[e])
    <3>1. \A y \in A : f[e] <= f[y]
      BY <2>1, <2>2, <2>4
    <3> QED
      BY <1>2, <1>3, <3>1
  <2> QED
    BY <2>3, <2>4
<1> QED
  BY <1>4, <1>5

LEMMA Largest ==
    ASSUME NEW f, NEW S, IsFiniteSet(S), S # {}, \A x \in S : f[x] \in Int
    PROVE  \E x \in S : \A y \in S : f[y] <= f[x]
<1> DEFINE g == [x \in S |-> -f[x]]
<1>1. \A x \in S : g[x] \in Int /\ g[x] = -f[x]
  OBVIOUS
<1> HIDE DEF g
<1>2. PICK x \in S : \A y \in S : g[x] <= g[y]
  BY <1>1, Least
<1> QED
  BY <1>1, <1>2
=============================================================================
