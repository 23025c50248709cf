----------------------------- MODULE FiniteSums -----------------------------
(***************************************************************************)
(* What the sum of a function over a finite set (SumFunctionOnSet of the   *)
(* community module Functions) does when an element is added to the set,   *)
(* or the function changes at one of them.  The models of money and of     *)
(* units add up what sessions have with it.                                *)
(*                                                                         *)
(* SumFunctionOnSet takes the elements away one by one, in the order a     *)
(* CHOOSE gives; that the order does not matter is what is proved first.   *)
(* Induction is over sets: a family of sets that holds the empty set and   *)
(* is closed under adding an element holds every finite set.               *)
(***************************************************************************)
EXTENDS Integers, FiniteSets, Functions, FiniteSetTheorems, TLAPS

\* A family that holds {} and is closed under adding one element of S holds
\* every subset of a finite S.
LEMMA SetInduction ==
  ASSUME NEW S, IsFiniteSet(S), NEW F, {} \in F,
         \A T \in SUBSET S : \A x \in S \ T : T \in F => T \cup {x} \in F
  PROVE  SUBSET S \subseteq F
<1> DEFINE Bad == (SUBSET S) \ F
<1>1. SUFFICES ASSUME Bad # {} PROVE FALSE
  OBVIOUS
<1>2. IsWellFoundedOn(StrictSubsetOrdering(S), FiniteSubsetsOf(S))
  BY FS_StrictSubsetOrderingWellFounded
<1>3. Bad \subseteq FiniteSubsetsOf(S)
  BY FS_FiniteSubsetsOfFinite
<1>4. PICK T \in Bad : \A U \in Bad : <<U, T>> \notin StrictSubsetOrdering(S)
  <2> HIDE DEF Bad
  <2> QED BY <1>1, <1>2, <1>3, WFMin
<1>5. PICK x \in T : TRUE
  BY <1>4
<1>6. <<T \ {x}, T>> \in StrictSubsetOrdering(S)
  BY <1>4, <1>5 DEF StrictSubsetOrdering
<1>7. T \ {x} \in F
  BY <1>4, <1>6
<1>8. (T \ {x}) \cup {x} = T /\ x \in S \ (T \ {x}) /\ T \ {x} \in SUBSET S
  BY <1>4, <1>5
<1> QED
  BY <1>4, <1>7, <1>8

-----------------------------------------------------------------------------
(* The recursion that SumFunctionOnSet stands for. *)

Pick(s) == CHOOSE x \in s : TRUE

\* g is the table of the sums of f over the subsets of S.
Tabulates(g, f, S) ==
  g = [s \in SUBSET S |-> IF s = {} THEN 0 ELSE f[Pick(s)] + g[s \ {Pick(s)}]]

\* The sum is what the table says of the whole set.
LEMMA SumIsTabulated ==
  ASSUME NEW f, NEW S
  PROVE  SumFunctionOnSet(f, S) = (CHOOSE g : Tabulates(g, f, S))[S]
BY DEF SumFunctionOnSet, FoldFunctionOnSet, MapThenFoldSet, Tabulates, Pick

\* A table of S holds the tables of its subsets.
LEMMA TableOfSubset ==
  ASSUME NEW f, NEW S, NEW g, Tabulates(g, f, S), NEW T \in SUBSET S
  PROVE  Tabulates([s \in SUBSET T |-> g[s]], f, T)
<1> DEFINE h == [s \in SUBSET T |-> g[s]]
<1>1. ASSUME NEW s \in SUBSET T
      PROVE  h[s] = IF s = {} THEN 0 ELSE f[Pick(s)] + h[s \ {Pick(s)}]
  <2>1. g[s] = IF s = {} THEN 0 ELSE f[Pick(s)] + g[s \ {Pick(s)}]
    <3>1. s \in SUBSET S
      OBVIOUS
    <3> QED BY <3>1 DEF Tabulates
  <2>2. s \ {Pick(s)} \in SUBSET T
    OBVIOUS
  <2> QED
    BY <2>1, <2>2
<1>2. h = [s \in SUBSET T |-> IF s = {} THEN 0 ELSE f[Pick(s)] + h[s \ {Pick(s)}]]
  <2> DEFINE k == [s \in SUBSET T |-> IF s = {} THEN 0 ELSE f[Pick(s)] + h[s \ {Pick(s)}]]
  <2>1. \A s \in SUBSET T : h[s] = k[s]
    BY <1>1
  <2> QED
    BY <2>1
<1> QED
  BY <1>2 DEF Tabulates

\* There is one table.
LEMMA TableUnique ==
  ASSUME NEW f, NEW S, IsFiniteSet(S), NEW g, NEW h, Tabulates(g, f, S), Tabulates(h, f, S)
  PROVE  g = h
<1> DEFINE Same == {s \in SUBSET S : g[s] = h[s]}
<1>0. g = [s \in SUBSET S |-> g[s]] /\ h = [s \in SUBSET S |-> h[s]]
  BY DEF Tabulates
<1>1. \A s \in SUBSET S :
        /\ g[s] = IF s = {} THEN 0 ELSE f[Pick(s)] + g[s \ {Pick(s)}]
        /\ h[s] = IF s = {} THEN 0 ELSE f[Pick(s)] + h[s \ {Pick(s)}]
  BY DEF Tabulates
<1>2. SUBSET S \subseteq Same
  <2> SUFFICES ASSUME (SUBSET S) \ Same # {} PROVE FALSE
    OBVIOUS
  <2>1. PICK T \in (SUBSET S) \ Same : \A U \in (SUBSET S) \ Same : <<U, T>> \notin StrictSubsetOrdering(S)
    <3> HIDE DEF Same
    <3> QED BY FS_StrictSubsetOrderingWellFounded, FS_FiniteSubsetsOfFinite, WFMin
  <2>2. T # {}
    BY <1>1, <2>1
  <2>3. Pick(T) \in T
    BY <2>2 DEF Pick
  <2>4. <<T \ {Pick(T)}, T>> \in StrictSubsetOrdering(S)
    BY <2>1, <2>3 DEF StrictSubsetOrdering
  <2>5. T \ {Pick(T)} \in Same
    BY <2>1, <2>4
  <2> QED
    BY <1>1, <2>1, <2>5
<1> QED
  BY <1>0, <1>2

\* A finite set has a table.
LEMMA TableExists ==
  ASSUME NEW f, NEW S, IsFiniteSet(S)
  PROVE  \E g : Tabulates(g, f, S)
<1> DEFINE Have == {T \in SUBSET S : \E g : Tabulates(g, f, T)}
<1> SUFFICES SUBSET S \subseteq Have
  OBVIOUS
<1> SUFFICES ASSUME (SUBSET S) \ Have # {} PROVE FALSE
  OBVIOUS
<1>1. PICK T \in (SUBSET S) \ Have : \A U \in (SUBSET S) \ Have : <<U, T>> \notin StrictSubsetOrdering(S)
  <2> HIDE DEF Have
  <2> QED BY FS_StrictSubsetOrderingWellFounded, FS_FiniteSubsetsOfFinite, WFMin
<1>2. \A U \in SUBSET T : U # T => \E g : Tabulates(g, f, U)
  <2> SUFFICES ASSUME NEW U \in SUBSET T, U # T PROVE U \in Have
    OBVIOUS
  <2>1. <<U, T>> \in StrictSubsetOrdering(S)
    BY <1>1 DEF StrictSubsetOrdering
  <2> QED
    BY <1>1, <2>1
<1> DEFINE Table(U) == CHOOSE g : Tabulates(g, f, U)
           below == [U \in SUBSET T |-> IF U = T THEN 0 ELSE Table(U)[U]]
           g == [s \in SUBSET T |-> IF s = {} THEN 0 ELSE f[Pick(s)] + below[s \ {Pick(s)}]]
<1>3. ASSUME NEW U \in SUBSET T, U # T PROVE below[U] = g[U]
  <2>1. Tabulates(Table(U), f, U)
    BY <1>2, <1>3
  <2>2. CASE U = {}
    <3>1. Table(U)[{}] = 0
      <4> HIDE DEF Table
      <4> QED BY <2>1, <2>2 DEF Tabulates
    <3> QED
      BY <1>3, <2>2, <3>1
  <2>3. CASE U # {}
    <3> DEFINE V == U \ {Pick(U)}
    <3>1. Pick(U) \in U
      BY <2>3 DEF Pick
    <3>2. V \in SUBSET U /\ V \in SUBSET T /\ V # T
      BY <1>3, <3>1
    <3>3. Tabulates(Table(V), f, V)
      BY <1>2, <3>2
    <3>4. IsFiniteSet(V)
      BY <1>1, <3>2, FS_Subset
    <3>5. Tabulates([s \in SUBSET V |-> Table(U)[s]], f, V)
      <4> HIDE DEF Table, V
      <4> QED BY <2>1, <3>2, TableOfSubset
    <3>6. [s \in SUBSET V |-> Table(U)[s]] = Table(V)
      <4> HIDE DEF Table, V
      <4> QED BY <3>3, <3>4, <3>5, TableUnique
    <3>7. Table(U)[V] = Table(V)[V]
      <4> HIDE DEF Table, V
      <4>1. V \in SUBSET V
        OBVIOUS
      <4> QED BY <3>6, <4>1
    <3>8. Table(U)[U] = f[Pick(U)] + Table(U)[V]
      <4> HIDE DEF Table
      <4>1. U \in SUBSET U
        OBVIOUS
      <4> QED BY <2>1, <2>3, <4>1 DEF Tabulates
    <3> HIDE DEF Table
    <3> QED
      BY <1>3, <2>3, <3>2, <3>7, <3>8
  <2> QED
    BY <2>2, <2>3
<1>4. g = [s \in SUBSET T |-> IF s = {} THEN 0 ELSE f[Pick(s)] + g[s \ {Pick(s)}]]
  <2> DEFINE k == [s \in SUBSET T |-> IF s = {} THEN 0 ELSE f[Pick(s)] + g[s \ {Pick(s)}]]
  <2> HIDE DEF below
  <2>1. ASSUME NEW s \in SUBSET T PROVE g[s] = k[s]
    <3>1. CASE s = {}
      BY <3>1
    <3>2. CASE s # {}
      <4>1. Pick(s) \in s
        BY <3>2 DEF Pick
      <4>2. s \ {Pick(s)} \in SUBSET T /\ s \ {Pick(s)} # T
        BY <4>1
      <4>3. below[s \ {Pick(s)}] = g[s \ {Pick(s)}]
        <5> HIDE DEF g
        <5> QED BY <1>3, <4>2
      <4>4. g[s] = f[Pick(s)] + below[s \ {Pick(s)}]
        BY <3>2
      <4>5. k[s] = f[Pick(s)] + g[s \ {Pick(s)}]
        <5> HIDE DEF g
        <5> QED BY <3>2
      <4> QED
        BY <4>3, <4>4, <4>5
    <3> QED BY <3>1, <3>2
  <2>2. g = [s \in SUBSET T |-> g[s]] /\ k = [s \in SUBSET T |-> k[s]]
    OBVIOUS
  <2>3. g = k
    <3> HIDE DEF g, k
    <3> QED BY <2>1, <2>2
  <2> QED
    BY <2>3
<1>5. Tabulates(g, f, T)
  <2> HIDE DEF g
  <2> QED BY <1>4 DEF Tabulates
<1>6. \E t : Tabulates(t, f, T)
  <2> HIDE DEF g
  <2> QED BY <1>5
<1> QED
  BY <1>1, <1>6

\* The sums over all subsets of S come from one table.
LEMMA TableOfSums ==
  ASSUME NEW f, NEW S, IsFiniteSet(S)
  PROVE  \E g : Tabulates(g, f, S) /\ \A T \in SUBSET S : SumFunctionOnSet(f, T) = g[T]
<1>1. PICK g : Tabulates(g, f, S)
  BY TableExists
<1>2. ASSUME NEW T \in SUBSET S PROVE SumFunctionOnSet(f, T) = g[T]
  <2> DEFINE t == CHOOSE h : Tabulates(h, f, T)
  <2>1. IsFiniteSet(T)
    BY FS_Subset
  <2>2. Tabulates(t, f, T)
    BY <2>1, TableExists
  <2>3. Tabulates([s \in SUBSET T |-> g[s]], f, T)
    BY <1>1, TableOfSubset
  <2> HIDE DEF t
  <2>4. t = [s \in SUBSET T |-> g[s]]
    BY <2>1, <2>2, <2>3, TableUnique
  <2>5. T \in SUBSET T
    OBVIOUS
  <2>6. t[T] = g[T]
    BY <2>4, <2>5
  <2> QED
    BY <2>6, SumIsTabulated DEF t
<1> QED
  BY <1>1, <1>2

-----------------------------------------------------------------------------
(* Sums of numbers. *)

Numbers(f, S) == \A x \in S : f[x] \in Int
SameBut(f, g, S, e) == \A x \in S \ {e} : f[x] = g[x]

\* Nothing adds up to nothing.
LEMMA SumEmpty == ASSUME NEW f PROVE SumFunctionOnSet(f, {}) = 0
<1>1. PICK g : Tabulates(g, f, {}) /\ SumFunctionOnSet(f, {}) = g[{}]
  BY TableOfSums, FS_EmptySet
<1> QED
  BY <1>1 DEF Tabulates

\* A sum of integers is one.
LEMMA SumType ==
  ASSUME NEW S, IsFiniteSet(S), NEW f, \A x \in S : f[x] \in Int
  PROVE  SumFunctionOnSet(f, S) \in Int
<1>1. PICK g : Tabulates(g, f, S) /\ \A T \in SUBSET S : SumFunctionOnSet(f, T) = g[T]
  BY TableOfSums
<1> DEFINE F == {T \in SUBSET S : g[T] \in Int}
<1> SUFFICES (SUBSET S) \ F = {}
  BY <1>1
<1> SUFFICES ASSUME (SUBSET S) \ F # {} PROVE FALSE
  OBVIOUS
<1>2. PICK T \in (SUBSET S) \ F : \A U \in (SUBSET S) \ F : <<U, T>> \notin StrictSubsetOrdering(S)
  <2> HIDE DEF F
  <2> QED BY FS_StrictSubsetOrderingWellFounded, FS_FiniteSubsetsOfFinite, WFMin
<1>3. g[T] = IF T = {} THEN 0 ELSE f[Pick(T)] + g[T \ {Pick(T)}]
  BY <1>1, <1>2 DEF Tabulates
<1>4. T # {}
  BY <1>2, <1>3
<1>5. Pick(T) \in T
  BY <1>4 DEF Pick
<1>6. <<T \ {Pick(T)}, T>> \in StrictSubsetOrdering(S)
  BY <1>2, <1>5 DEF StrictSubsetOrdering
<1>7. g[T \ {Pick(T)}] \in Int
  BY <1>2, <1>6
<1> QED
  BY <1>2, <1>3, <1>5, <1>7

\* Whichever element is taken away first, the sum is the same.
LEMMA SumRemove ==
  ASSUME NEW S, IsFiniteSet(S), NEW f, \A x \in S : f[x] \in Int, NEW e \in S
  PROVE  SumFunctionOnSet(f, S) = f[e] + SumFunctionOnSet(f, S \ {e})
<1>1. PICK g : Tabulates(g, f, S) /\ \A T \in SUBSET S : SumFunctionOnSet(f, T) = g[T]
  BY TableOfSums
<1>0. \A T \in SUBSET S : g[T] \in Int
  <2> SUFFICES ASSUME NEW T \in SUBSET S PROVE SumFunctionOnSet(f, T) \in Int
    BY <1>1
  <2> QED
    BY FS_Subset, SumType
<1> DEFINE F == {T \in SUBSET S : \A x \in T : g[T] = f[x] + g[T \ {x}]}
<1> SUFFICES (SUBSET S) \ F = {}
  <2>1. S \in F
    OBVIOUS
  <2>2. S \ {e} \in SUBSET S
    OBVIOUS
  <2> QED
    BY <1>1, <2>1, <2>2
<1> SUFFICES ASSUME (SUBSET S) \ F # {} PROVE FALSE
  OBVIOUS
<1>2. PICK T \in (SUBSET S) \ F : \A U \in (SUBSET S) \ F : <<U, T>> \notin StrictSubsetOrdering(S)
  <2> HIDE DEF F
  <2> QED BY FS_StrictSubsetOrderingWellFounded, FS_FiniteSubsetsOfFinite, WFMin
<1>3. PICK x \in T : g[T] # f[x] + g[T \ {x}]
  BY <1>2
<1> DEFINE c == Pick(T)
<1>4. c \in T /\ T \in SUBSET S
  BY <1>2, <1>3 DEF Pick
<1>5. g[T] = f[c] + g[T \ {c}]
  BY <1>1, <1>3, <1>4 DEF Tabulates
<1> HIDE DEF c
<1>6. c # x
  BY <1>3, <1>5
<1>7. T \ {c} \in F /\ T \ {x} \in F
  <2>1. <<T \ {c}, T>> \in StrictSubsetOrdering(S) /\ <<T \ {x}, T>> \in StrictSubsetOrdering(S)
    BY <1>3, <1>4 DEF StrictSubsetOrdering
  <2> QED
    BY <1>2, <1>4, <2>1
<1>8. g[T \ {c}] = f[x] + g[(T \ {c}) \ {x}] /\ g[T \ {x}] = f[c] + g[(T \ {x}) \ {c}]
  BY <1>3, <1>4, <1>6, <1>7
<1>9. (T \ {c}) \ {x} = (T \ {x}) \ {c}
  OBVIOUS
<1>10. f[c] \in Int /\ f[x] \in Int /\ g[(T \ {x}) \ {c}] \in Int
  BY <1>0, <1>3, <1>4
<1> HIDE DEF F
<1>11. g[T] = f[c] + (f[x] + g[(T \ {x}) \ {c}])
  BY <1>5, <1>8, <1>9
<1>12. g[T] = f[x] + (f[c] + g[(T \ {x}) \ {c}])
  BY <1>10, <1>11
<1> QED
  BY <1>3, <1>8, <1>12

\* What a new element adds.
LEMMA SumAdd ==
  ASSUME NEW S, IsFiniteSet(S), NEW f, NEW e, e \notin S, \A x \in S \cup {e} : f[x] \in Int
  PROVE  SumFunctionOnSet(f, S \cup {e}) = f[e] + SumFunctionOnSet(f, S)
<1>1. IsFiniteSet(S \cup {e}) /\ (S \cup {e}) \ {e} = S /\ e \in S \cup {e}
  BY FS_AddElement
<1>2. SumFunctionOnSet(f, S \cup {e}) = f[e] + SumFunctionOnSet(f, (S \cup {e}) \ {e})
  BY <1>1, SumRemove
<1> QED
  BY <1>1, <1>2

\* Functions that agree on the set have the same sum.
LEMMA SumSame ==
  ASSUME NEW S, IsFiniteSet(S), NEW f, NEW g,
         \A x \in S : f[x] \in Int /\ f[x] = g[x]
  PROVE  SumFunctionOnSet(f, S) = SumFunctionOnSet(g, S)
<1> DEFINE F == {T \in SUBSET S : SumFunctionOnSet(f, T) = SumFunctionOnSet(g, T)}
<1>1. {} \in F
  BY SumEmpty
<1>2. ASSUME NEW T \in SUBSET S, NEW x \in S \ T, T \in F PROVE T \cup {x} \in F
  <2>1. IsFiniteSet(T)
    BY FS_Subset
  <2>2. /\ SumFunctionOnSet(f, T \cup {x}) = f[x] + SumFunctionOnSet(f, T)
        /\ SumFunctionOnSet(g, T \cup {x}) = g[x] + SumFunctionOnSet(g, T)
    BY <2>1, SumAdd
  <2> QED
    BY <1>2, <2>2
<1>3. SUBSET S \subseteq F
  <2> HIDE DEF F
  <2> QED BY <1>1, <1>2, SetInduction
<1> QED
  BY <1>3

\* What changes at one element changes the sum by as much.
LEMMA SumChange ==
  ASSUME NEW S, IsFiniteSet(S), NEW f, NEW g, NEW e \in S,
         Numbers(f, S), Numbers(g, S), SameBut(f, g, S, e)
  PROVE  SumFunctionOnSet(g, S) = SumFunctionOnSet(f, S) + (g[e] - f[e])
<1>0. (\A x \in S : f[x] \in Int /\ g[x] \in Int) /\ \A x \in S \ {e} : f[x] = g[x]
  BY DEF Numbers, SameBut
<1>1. IsFiniteSet(S \ {e})
  BY FS_RemoveElement
<1>2. SumFunctionOnSet(f, S \ {e}) = SumFunctionOnSet(g, S \ {e})
  BY <1>0, <1>1, SumSame
<1>3. /\ SumFunctionOnSet(f, S) = f[e] + SumFunctionOnSet(f, S \ {e})
      /\ SumFunctionOnSet(g, S) = g[e] + SumFunctionOnSet(g, S \ {e})
  BY <1>0, SumRemove
<1>4. SumFunctionOnSet(f, S \ {e}) \in Int
  BY <1>0, <1>1, SumType
<1> QED
  BY <1>0, <1>2, <1>3, <1>4

\* Sums are monotone.
LEMMA SumAtMost ==
  ASSUME NEW S, IsFiniteSet(S), NEW f, NEW g,
         \A x \in S : f[x] \in Int /\ g[x] \in Int /\ f[x] <= g[x]
  PROVE  SumFunctionOnSet(f, S) <= SumFunctionOnSet(g, S)
<1> DEFINE F == {T \in SUBSET S : SumFunctionOnSet(f, T) <= SumFunctionOnSet(g, T)}
<1>1. {} \in F
  BY SumEmpty
<1>2. ASSUME NEW T \in SUBSET S, NEW x \in S \ T, T \in F PROVE T \cup {x} \in F
  <2>1. IsFiniteSet(T)
    BY FS_Subset
  <2>2. /\ SumFunctionOnSet(f, T \cup {x}) = f[x] + SumFunctionOnSet(f, T)
        /\ SumFunctionOnSet(g, T \cup {x}) = g[x] + SumFunctionOnSet(g, T)
    BY <2>1, SumAdd
  <2>3. SumFunctionOnSet(f, T) \in Int /\ SumFunctionOnSet(g, T) \in Int
    BY <2>1, SumType
  <2>4. SumFunctionOnSet(f, T \cup {x}) <= SumFunctionOnSet(g, T \cup {x})
    BY <1>2, <2>2, <2>3
  <2> QED
    BY <2>4
<1>3. SUBSET S \subseteq F
  <2> HIDE DEF F
  <2> QED BY <1>1, <1>2, SetInduction
<1> QED
  BY <1>3

\* Zeros add up to nothing.
LEMMA SumZero ==
  ASSUME NEW S, IsFiniteSet(S), NEW f, \A x \in S : f[x] = 0
  PROVE  SumFunctionOnSet(f, S) = 0
<1> DEFINE F == {T \in SUBSET S : SumFunctionOnSet(f, T) = 0}
<1>1. {} \in F
  BY SumEmpty
<1>2. ASSUME NEW T \in SUBSET S, NEW x \in S \ T, T \in F PROVE T \cup {x} \in F
  <2>1. IsFiniteSet(T) /\ x \notin T /\ \A y \in T \cup {x} : f[y] \in Int
    BY FS_Subset
  <2>2. SumFunctionOnSet(f, T \cup {x}) = f[x] + SumFunctionOnSet(f, T)
    BY <2>1, SumAdd
  <2> QED
    BY <1>2, <2>2
<1>3. SUBSET S \subseteq F
  <2> HIDE DEF F
  <2> QED BY <1>1, <1>2, SetInduction
<1> QED
  BY <1>3

\* A sum of natural numbers is one.
LEMMA SumNat ==
  ASSUME NEW S, IsFiniteSet(S), NEW f, \A x \in S : f[x] \in Nat
  PROVE  SumFunctionOnSet(f, S) \in Nat
<1> DEFINE z == [x \in S |-> 0]
<1>1. SumFunctionOnSet(z, S) = 0
  BY SumZero
<1>2. SumFunctionOnSet(z, S) <= SumFunctionOnSet(f, S)
  BY SumAtMost
<1>3. SumFunctionOnSet(f, S) \in Int
  BY SumType
<1> QED
  BY <1>1, <1>2, <1>3
=============================================================================
