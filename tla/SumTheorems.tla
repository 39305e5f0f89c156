------------------------------ MODULE SumTheorems ------------------------------
(***************************************************************************)
(* What a sum over a finite set comes to: SumFunctionOnSet of the          *)
(* community modules, with which the balances of the ledger are added up.  *)
(* It is a recursive function on the subsets of the set, and its laws are   *)
(* proved by induction on them: a law that fails, fails for a smallest set. *)
(***************************************************************************)
EXTENDS Integers, FiniteSetTheorems, TLAPS

(* The element the sum takes out of a set first. *)
Chosen(S) == CHOOSE x \in S : TRUE

(* The table the recursion fills in: the sum over every subset of S. *)
IsTable(h, b, S) ==
  h = [T \in SUBSET S |-> IF T = {} THEN 0 ELSE b[Chosen(T)] + h[T \ {Chosen(T)}]]

Table(b, S) == CHOOSE h : IsTable(h, b, S)

LEMMA SumIsInTable == ASSUME NEW b, NEW S PROVE SumFunctionOnSet(b, S) = Table(b, S)[S]
BY DEF SumFunctionOnSet, FoldFunctionOnSet, MapThenFoldSet, Table, IsTable, Chosen

(* What holds of a set if it holds of its proper subsets, holds of every    *)
(* subset of a finite set.                                                  *)
LEMMA SubsetInduction ==
  ASSUME NEW S, IsFiniteSet(S), NEW Good,
         \A T \in SUBSET S : (\A U \in SUBSET T : U # T => U \in Good) => T \in Good
  PROVE  \A T \in SUBSET S : T \in Good
<1> DEFINE Bad == {T \in SUBSET S : T \notin Good}
<1> SUFFICES ASSUME Bad # {} PROVE FALSE
  OBVIOUS
<1>1. Bad \subseteq SUBSET S
  OBVIOUS
<1>2. IsWellFoundedOn(StrictSubsetOrdering(S), SUBSET S)
  <2>1. IsWellFoundedOn(StrictSubsetOrdering(S), FiniteSubsetsOf(S))
    BY FS_StrictSubsetOrderingWellFounded
  <2>2. FiniteSubsetsOf(S) = SUBSET S
    BY FS_FiniteSubsetsOfFinite
  <2> QED
    BY <2>1, <2>2
<1>3. PICK T \in Bad : \A U \in Bad : ~(<<U, T>> \in StrictSubsetOrdering(S))
  <2> HIDE DEF Bad
  <2> QED
    BY <1>1, <1>2, WFMin
<1>4. ASSUME NEW U \in SUBSET T, U # T PROVE U \in Good
  BY <1>3, <1>4 DEF StrictSubsetOrdering
<1> QED
  BY <1>3, <1>4

(* Taking the chosen element out leaves a proper subset. *)
LEMMA ChosenOut ==
  ASSUME NEW T, T # {}
  PROVE  Chosen(T) \in T /\ T \ {Chosen(T)} \in SUBSET T /\ T \ {Chosen(T)} # T
BY DEF Chosen

LEMMA TableRows ==
  ASSUME NEW b, NEW S, NEW h, IsTable(h, b, S)
  PROVE  /\ h[{}] = 0
         /\ \A T \in SUBSET S : T # {} => h[T] = b[Chosen(T)] + h[T \ {Chosen(T)}]
BY DEF IsTable

(* Two tables agree on the sets they share. *)
LEMMA TablesAgree ==
  ASSUME NEW b, NEW R, NEW S, NEW g, NEW h, IsTable(g, b, R), IsTable(h, b, S),
         IsFiniteSet(R), NEW V \in SUBSET R, V \subseteq S
  PROVE  g[V] = h[V]
<1>0. /\ \A W \in SUBSET R : W # {} => g[W] = b[Chosen(W)] + g[W \ {Chosen(W)}]
      /\ \A W \in SUBSET S : W # {} => h[W] = b[Chosen(W)] + h[W \ {Chosen(W)}]
  BY DEF IsTable
<1> DEFINE Good == {T \in SUBSET R : T \subseteq S => g[T] = h[T]}
<1>1. ASSUME NEW T \in SUBSET R, \A U \in SUBSET T : U # T => U \in Good
      PROVE  T \in Good
  <2>1. CASE T = {}
    BY <2>1, TableRows
  <2>2. CASE T # {} /\ T \subseteq S
    <3> DEFINE U == T \ {Chosen(T)}
    <3>1. U \in Good /\ U \subseteq S
      BY <1>1, <2>2, ChosenOut
    <3>2. g[T] = b[Chosen(T)] + g[U] /\ h[T] = b[Chosen(T)] + h[U]
      BY <1>0, <2>2
    <3> QED
      BY <3>1, <3>2
  <2> QED
    BY <2>1, <2>2
<1>2. V \in Good
  <2> HIDE DEF Good
  <2> QED
    BY <1>1, SubsetInduction
<1> QED
  BY <1>2

LEMMA TableExists ==
  ASSUME NEW b, NEW S, IsFiniteSet(S) PROVE IsTable(Table(b, S), b, S)
<1> DEFINE Good == {T \in SUBSET S : IsTable(Table(b, T), b, T)}
<1>1. ASSUME NEW T \in SUBSET S, \A U \in SUBSET T : U # T => U \in Good
      PROVE  T \in Good
  <2> DEFINE Below(V) == V \ {Chosen(V)}
             h == [V \in SUBSET T |->
                     IF V = {} THEN 0 ELSE b[Chosen(V)] + Table(b, Below(V))[Below(V)]]
  <2>1. ASSUME NEW V \in SUBSET T, V # {} PROVE h[Below(V)] = Table(b, Below(V))[Below(V)]
    <3> DEFINE W == Below(V)
    <3>1. W \in SUBSET T /\ W # T
      BY <2>1, ChosenOut
    <3>2. IsTable(Table(b, W), b, W)
      BY <1>1, <3>1
    <3>3. CASE W = {}
      <4>1. Table(b, W)[{}] = 0
        BY <3>2, TableRows
      <4> QED
        BY <3>1, <3>3, <4>1
    <3>4. CASE W # {}
      <4>1. Below(W) \in SUBSET T /\ Below(W) # T /\ Below(W) \in SUBSET W
        BY <3>1, <3>4, ChosenOut
      <4>2. IsTable(Table(b, Below(W)), b, Below(W))
        BY <1>1, <4>1
      <4>3. IsFiniteSet(W)
        BY <3>1, FS_Subset
      <4>4. h[W] = b[Chosen(W)] + Table(b, Below(W))[Below(W)]
        BY <3>1, <3>4
      <4>5. W \in SUBSET W
        OBVIOUS
      <4> HIDE DEF W, h
      <4>6. Table(b, W)[W] = b[Chosen(W)] + Table(b, W)[Below(W)]
        BY <3>2, <3>4, <4>5, TableRows
      <4>7. Table(b, W)[Below(W)] = Table(b, Below(W))[Below(W)]
        <5> HIDE DEF Below
        <5>1. Below(W) \subseteq Below(W)
          OBVIOUS
        <5> QED
          BY <3>2, <4>1, <4>2, <4>3, <5>1, TablesAgree
      <4>8. h[W] = Table(b, W)[W]
        BY <4>4, <4>6, <4>7
      <4> QED
        BY <4>8 DEF W
    <3> QED
      BY <3>3, <3>4
  <2>2. h = [V \in SUBSET T |-> IF V = {} THEN 0 ELSE b[Chosen(V)] + h[Below(V)]]
    <3> DEFINE k == [V \in SUBSET T |-> IF V = {} THEN 0 ELSE b[Chosen(V)] + h[Below(V)]]
    <3>1. ASSUME NEW V \in SUBSET T PROVE h[V] = k[V]
      BY <2>1
    <3> QED
      BY <3>1
  <2>3. IsTable(h, b, T)
    BY <2>2 DEF IsTable
  <2> HIDE DEF h
  <2> QED
    BY <2>3, Zenon DEF Table
<1>2. S \in Good
  <2> HIDE DEF Good
  <2> QED
    BY <1>1, SubsetInduction
<1> QED
  BY <1>2

-----------------------------------------------------------------------------

(* The recursion, as an equation. *)
LEMMA SumUnfold ==
  ASSUME NEW b, NEW S, IsFiniteSet(S)
  PROVE  /\ SumFunctionOnSet(b, {}) = 0
         /\ S # {} => SumFunctionOnSet(b, S) =
                        b[Chosen(S)] + SumFunctionOnSet(b, S \ {Chosen(S)})
<1>1. SumFunctionOnSet(b, {}) = 0
  BY FS_EmptySet, TableExists, TableRows, SumIsInTable
<1>2. ASSUME S # {}
      PROVE  SumFunctionOnSet(b, S) = b[Chosen(S)] + SumFunctionOnSet(b, S \ {Chosen(S)})
  <2> DEFINE U == S \ {Chosen(S)}
  <2>1. IsFiniteSet(U) /\ U \in SUBSET U /\ U \subseteq S /\ S \in SUBSET S
    BY FS_Subset
  <2> HIDE DEF U
  <2>2. IsTable(Table(b, S), b, S) /\ IsTable(Table(b, U), b, U)
    BY <2>1, TableExists
  <2>3. Table(b, U)[U] = Table(b, S)[U]
    BY <2>1, <2>2, TablesAgree
  <2>4. Table(b, S)[S] = b[Chosen(S)] + Table(b, S)[U]
    BY <1>2, <2>1, <2>2, TableRows DEF U
  <2> QED
    BY <2>3, <2>4, SumIsInTable DEF U
<1> QED
  BY <1>1, <1>2

(* A sum of integers is an integer. *)
LEMMA SumType ==
  ASSUME NEW S, IsFiniteSet(S), NEW b, \A x \in S : b[x] \in Int
  PROVE  SumFunctionOnSet(b, S) \in Int
<1> DEFINE Good == {T \in SUBSET S : SumFunctionOnSet(b, T) \in Int}
<1>1. ASSUME NEW T \in SUBSET S, \A U \in SUBSET T : U # T => U \in Good
      PROVE  T \in Good
  <2>1. CASE T = {}
    <3>1. SumFunctionOnSet(b, {}) = 0
      BY FS_EmptySet, SumUnfold
    <3> QED
      BY <2>1, <3>1
  <2>2. CASE T # {}
    <3>1. T \ {Chosen(T)} \in Good /\ Chosen(T) \in S
      BY <1>1, <2>2, ChosenOut
    <3>2. IsFiniteSet(T)
      BY FS_Subset
    <3> QED
      BY <2>2, <3>1, <3>2, SumUnfold
  <2> QED
    BY <2>1, <2>2
<1>2. S \in Good
  <2> HIDE DEF Good
  <2> QED
    BY <1>1, SubsetInduction
<1> QED
  BY <1>2

(* Any element can be taken out first. *)
LEMMA SumRemove ==
  ASSUME NEW S, IsFiniteSet(S), NEW b, \A y \in S : b[y] \in Int, NEW x \in S
  PROVE  SumFunctionOnSet(b, S) = b[x] + SumFunctionOnSet(b, S \ {x})
<1> DEFINE
  Good == {T \in SUBSET S :
             \A y \in T : SumFunctionOnSet(b, T) = b[y] + SumFunctionOnSet(b, T \ {y})}
<1>1. ASSUME NEW T \in SUBSET S, \A U \in SUBSET T : U # T => U \in Good, NEW y \in T
      PROVE  SumFunctionOnSet(b, T) = b[y] + SumFunctionOnSet(b, T \ {y})
  <2> DEFINE c == Chosen(T)
  <2>1. IsFiniteSet(T) /\ c \in T
    BY FS_Subset, ChosenOut
  <2>2. SumFunctionOnSet(b, T) = b[c] + SumFunctionOnSet(b, T \ {c})
    BY <2>1, SumUnfold
  <2> HIDE DEF c
  <2>3. CASE c # y
    <3> DEFINE W == (T \ {c}) \ {y}
    <3>1. T \ {c} \in Good /\ T \ {y} \in Good
      BY <1>1, <2>1
    <3>2. W = (T \ {y}) \ {c} /\ y \in T \ {c} /\ c \in T \ {y}
      BY <1>1, <2>1, <2>3
    <3>3. IsFiniteSet(W) /\ \A z \in W : b[z] \in Int
      BY <2>1, FS_Subset
    <3> HIDE DEF W
    <3>4. SumFunctionOnSet(b, W) \in Int /\ b[c] \in Int /\ b[y] \in Int
      BY <1>1, <2>1, <3>3, SumType
    <3>5. SumFunctionOnSet(b, T \ {c}) = b[y] + SumFunctionOnSet(b, W)
      BY <3>1, <3>2 DEF W
    <3>6. SumFunctionOnSet(b, T \ {y}) = b[c] + SumFunctionOnSet(b, W)
      BY <3>1, <3>2
    <3> HIDE DEF Good
    <3> QED
      BY <2>2, <3>4, <3>5, <3>6
  <2> QED
    BY <2>2, <2>3
<1>2. \A T \in SUBSET S : (\A U \in SUBSET T : U # T => U \in Good) => T \in Good
  BY <1>1
<1>3. S \in Good
  <2> HIDE DEF Good
  <2> QED
    BY <1>2, SubsetInduction
<1> QED
  BY <1>3

(* A sum of zeros is zero. *)
LEMMA SumZero ==
  ASSUME NEW S, IsFiniteSet(S), NEW b, \A x \in S : b[x] = 0
  PROVE  SumFunctionOnSet(b, S) = 0
<1> DEFINE Good == {T \in SUBSET S : SumFunctionOnSet(b, T) = 0}
<1>1. ASSUME NEW T \in SUBSET S, \A U \in SUBSET T : U # T => U \in Good
      PROVE  T \in Good
  <2>1. CASE T = {}
    <3>1. SumFunctionOnSet(b, {}) = 0
      BY FS_EmptySet, SumUnfold
    <3> QED
      BY <2>1, <3>1
  <2>2. CASE T # {}
    <3>1. T \ {Chosen(T)} \in Good /\ Chosen(T) \in S
      BY <1>1, <2>2, ChosenOut
    <3>2. IsFiniteSet(T)
      BY FS_Subset
    <3> QED
      BY <2>2, <3>1, <3>2, SumUnfold
  <2> QED
    BY <2>1, <2>2
<1>2. S \in Good
  <2> HIDE DEF Good
  <2> QED
    BY <1>1, SubsetInduction
<1> QED
  BY <1>2

(* Sums are added element by element. *)
LEMMA SumAdds ==
  ASSUME NEW S, IsFiniteSet(S), NEW b, NEW d, NEW i,
         \A x \in S : b[x] \in Int /\ i[x] \in Int /\ d[x] = b[x] + i[x]
  PROVE  SumFunctionOnSet(d, S) = SumFunctionOnSet(b, S) + SumFunctionOnSet(i, S)
<1> DEFINE
  Good == {T \in SUBSET S :
             SumFunctionOnSet(d, T) = SumFunctionOnSet(b, T) + SumFunctionOnSet(i, T)}
<1>1. ASSUME NEW T \in SUBSET S, \A U \in SUBSET T : U # T => U \in Good
      PROVE  T \in Good
  <2>1. CASE T = {}
    <3>1. /\ SumFunctionOnSet(b, {}) = 0 /\ SumFunctionOnSet(d, {}) = 0
          /\ SumFunctionOnSet(i, {}) = 0
      BY FS_EmptySet, SumUnfold
    <3> QED
      BY <2>1, <3>1
  <2>2. CASE T # {}
    <3> DEFINE c == Chosen(T)
               U == T \ {c}
    <3>1. c \in S /\ U \in Good /\ IsFiniteSet(T) /\ IsFiniteSet(U) /\ U \subseteq S
      BY <1>1, <2>2, ChosenOut, FS_Subset
    <3>2. /\ SumFunctionOnSet(b, T) = b[c] + SumFunctionOnSet(b, U)
          /\ SumFunctionOnSet(i, T) = i[c] + SumFunctionOnSet(i, U)
          /\ SumFunctionOnSet(d, T) = d[c] + SumFunctionOnSet(d, U)
      BY <2>2, <3>1, SumUnfold
    <3> HIDE DEF c, U
    <3>3. SumFunctionOnSet(b, U) \in Int /\ SumFunctionOnSet(i, U) \in Int
      BY <3>1, SumType
    <3>4. SumFunctionOnSet(d, U) = SumFunctionOnSet(b, U) + SumFunctionOnSet(i, U)
      BY <3>1
    <3>5. b[c] \in Int /\ i[c] \in Int /\ d[c] = b[c] + i[c]
      BY <3>1
    <3> QED
      BY <3>2, <3>3, <3>4, <3>5
  <2> QED
    BY <2>1, <2>2
<1>2. S \in Good
  <2> HIDE DEF Good
  <2> QED
    BY <1>1, SubsetInduction
<1> QED
  BY <1>2

=============================================================================
