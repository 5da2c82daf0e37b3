------------------------------- MODULE SumLemmas -------------------------------
(***************************************************************************)
(* Sums over finite sets: what reconcile_company_stock_total (SELECT SUM)  *)
(* returns does not depend on the order of the rows, is a number, and      *)
(* follows from the rows it adds up.                                       *)
(*                                                                         *)
(* SumFunctionOnSet is defined by recursion over the subsets of a set.     *)
(* The proofs go by least counterexample: a non-empty set of subsets of a  *)
(* finite set has a minimal element under strict inclusion.                *)
(***************************************************************************)
EXTENDS Integers, FiniteSets, Functions, FiniteSetTheorems, WellFoundedInduction, TLAPS

Pick(s) == CHOOSE x \in s : TRUE

\* One unfolding of the recursion that adds f over the subsets of S.
Step(f, S, g) ==
  [s \in SUBSET S |-> IF s = {} THEN 0 ELSE f[Pick(s)] + g[s \ {Pick(s)}]]

Adder(f, S) == CHOOSE g : g = Step(f, S, g)

SumOver(f, S) == Adder(f, S)[S]

\* The sum of the library is the sum reasoned about here.
LEMMA SumOverIsLibrarySum ==
  ASSUME NEW f, NEW S
  PROVE  SumFunctionOnSet(f, S) = SumOver(f, S)
BY DEF SumFunctionOnSet, FoldFunctionOnSet, MapThenFoldSet, SumOver, Adder, Step, Pick

\* Least counterexample: among subsets of a finite set one is minimal.
LEMMA MinimalSubset ==
  ASSUME NEW S, IsFiniteSet(S), NEW T, T \subseteq SUBSET S, T # {}
  PROVE  \E m \in T : \A y \in T : ~(y \subseteq m /\ y # m)
<1>1. IsWellFoundedOn(StrictSubsetOrdering(S), FiniteSubsetsOf(S))
  BY FS_StrictSubsetOrderingWellFounded
<1>2. FiniteSubsetsOf(S) = SUBSET S
  BY FS_FiniteSubsetsOfFinite
<1>3. PICK m \in T : \A y \in T : ~(<<y, m>> \in StrictSubsetOrdering(S))
  BY <1>1, <1>2, WFMin
<1>4. ASSUME NEW y \in T, y \subseteq m, y # m PROVE FALSE
  <2>1. <<y, m>> \in StrictSubsetOrdering(S)
    BY <1>4 DEF StrictSubsetOrdering
  <2> QED BY <2>1, <1>3
<1> QED BY <1>4

LEMMA PickInSet == ASSUME NEW s, s # {} PROVE Pick(s) \in s
BY DEF Pick

\* Two functions that satisfy the recursion over S are the same.
LEMMA AdderUnique ==
  ASSUME NEW f, NEW S, IsFiniteSet(S),
         NEW g, g = Step(f, S, g), NEW h, h = Step(f, S, h)
  PROVE  g = h
<1> DEFINE B == {s \in SUBSET S : g[s] # h[s]}
<1>1. SUFFICES ASSUME B # {} PROVE FALSE
  <2>1. CASE B = {}
    <3>1. \A s \in SUBSET S : g[s] = h[s] BY <2>1
    <3> QED BY <3>1 DEF Step
  <2> QED BY <2>1
<1>0. B \subseteq SUBSET S
  OBVIOUS
<1>2. PICK m \in B : \A y \in B : ~(y \subseteq m /\ y # m)
  <2> HIDE DEF B
  <2> QED BY <1>0, <1>1, MinimalSubset
<1>3. g[m] = (IF m = {} THEN 0 ELSE f[Pick(m)] + g[m \ {Pick(m)}])
  BY DEF Step
<1>4. h[m] = (IF m = {} THEN 0 ELSE f[Pick(m)] + h[m \ {Pick(m)}])
  BY DEF Step
<1>5. m # {}
  BY <1>3, <1>4
<1>6. m \ {Pick(m)} \in SUBSET S /\ m \ {Pick(m)} # m
  BY <1>5, PickInSet
<1>7. g[m \ {Pick(m)}] = h[m \ {Pick(m)}]
  BY <1>2, <1>6
<1> QED BY <1>3, <1>4, <1>5, <1>7

\* The recursion over S, cut down to a subset, is the recursion over the subset.
Cut(g, T) == [s \in SUBSET T |-> g[s]]

LEMMA AdderRestricts ==
  ASSUME NEW f, NEW S, NEW T, T \subseteq S, NEW g, g = Step(f, S, g)
  PROVE  Cut(g, T) = Step(f, T, Cut(g, T))
<1>1. ASSUME NEW s \in SUBSET T
      PROVE  Cut(g, T)[s] = Step(f, T, Cut(g, T))[s]
  <2>1. g[s] = (IF s = {} THEN 0 ELSE f[Pick(s)] + g[s \ {Pick(s)}])
    BY DEF Step
  <2>2. s \ {Pick(s)} \in SUBSET T
    OBVIOUS
  <2>3. Cut(g, T)[s] = g[s] /\ Cut(g, T)[s \ {Pick(s)}] = g[s \ {Pick(s)}]
    BY <2>2 DEF Cut
  <2>4. Step(f, T, Cut(g, T))[s]
          = (IF s = {} THEN 0 ELSE f[Pick(s)] + Cut(g, T)[s \ {Pick(s)}])
    BY DEF Step
  <2> QED BY <2>1, <2>3, <2>4
<1>2. Cut(g, T) = [s \in SUBSET T |-> Cut(g, T)[s]]
  BY DEF Cut
<1>3. Step(f, T, Cut(g, T)) = [s \in SUBSET T |-> Step(f, T, Cut(g, T))[s]]
  BY DEF Step
<1> QED BY <1>1, <1>2, <1>3

\* Once the recursion over a finite set is satisfiable, Adder satisfies it and
\* agrees with the sum of every subset.
LEMMA AdderOfSubset ==
  ASSUME NEW f, NEW S, IsFiniteSet(S), NEW g, g = Step(f, S, g), NEW T, T \subseteq S
  PROVE  SumOver(f, T) = g[T]
<1>1. Cut(g, T) = Step(f, T, Cut(g, T))
  BY AdderRestricts
<1>2. Adder(f, T) = Step(f, T, Adder(f, T))
  BY <1>1 DEF Adder
<1>3. IsFiniteSet(T)
  BY FS_Subset
<1>4. Adder(f, T) = Cut(g, T)
  BY <1>1, <1>2, <1>3, AdderUnique
<1> QED BY <1>4 DEF SumOver, Cut

\* The recursion over a finite set is satisfiable: a smallest subset where it is
\* not could be completed from the sums of its own subsets.
LEMMA AdderExists ==
  ASSUME NEW f, NEW S, IsFiniteSet(S)
  PROVE  \E g : g = Step(f, S, g)
<1> DEFINE B == {s \in SUBSET S : ~ \E g : g = Step(f, s, g)}
<1>1. SUFFICES ASSUME B # {} PROVE FALSE
  <2>1. S \in SUBSET S
    OBVIOUS
  <2> QED BY <2>1
<1>2. B \subseteq SUBSET S
  OBVIOUS
<1>3. PICK U \in B : \A y \in B : ~(y \subseteq U /\ y # U)
  <2> HIDE DEF B
  <2> QED BY <1>1, <1>2, MinimalSubset
<1>4. IsFiniteSet(U)
  BY <1>2, FS_Subset
<1>5. ASSUME NEW s \in SUBSET U, s # U
      PROVE  SumOver(f, s) = (IF s = {} THEN 0 ELSE f[Pick(s)] + SumOver(f, s \ {Pick(s)}))
  <2>1. PICK g : g = Step(f, s, g)
    BY <1>3, <1>5
  <2>2. IsFiniteSet(s)
    BY <1>4, FS_Subset
  <2>3. SumOver(f, s) = g[s]
    BY <2>1, <2>2, AdderOfSubset
  <2>4. SumOver(f, s \ {Pick(s)}) = g[s \ {Pick(s)}]
    <3>1. s \ {Pick(s)} \subseteq s
      OBVIOUS
    <3> QED BY <2>1, <2>2, <3>1, AdderOfSubset
  <2>5. g[s] = (IF s = {} THEN 0 ELSE f[Pick(s)] + g[s \ {Pick(s)}])
    <3>1. Step(f, s, g)[s] = (IF s = {} THEN 0 ELSE f[Pick(s)] + g[s \ {Pick(s)}])
      BY DEF Step
    <3> QED BY <2>1, <3>1
  <2> QED BY <2>3, <2>4, <2>5
<1> DEFINE top  == IF U = {} THEN 0 ELSE f[Pick(U)] + SumOver(f, U \ {Pick(U)})
           G    == [s \in SUBSET U |-> IF s = U THEN top ELSE SumOver(f, s)]
<1>6. ASSUME NEW s \in SUBSET U
      PROVE  G[s] = (IF s = {} THEN 0 ELSE f[Pick(s)] + G[s \ {Pick(s)}])
  <2>1. s # {} => /\ s \ {Pick(s)} \in SUBSET U
                  /\ s \ {Pick(s)} # U
    BY PickInSet
  <2>2. s # {} => G[s \ {Pick(s)}] = SumOver(f, s \ {Pick(s)})
    BY <2>1
  <2>3. CASE s = U
    BY <2>2, <2>3
  <2>4. CASE s # U
    BY <1>5, <2>2, <2>4
  <2> QED BY <2>3, <2>4
<1>7. G = Step(f, U, G)
  <2>1. G = [s \in SUBSET U |-> G[s]]
    OBVIOUS
  <2> HIDE DEF G
  <2> QED BY <1>6, <2>1 DEF Step
<1> QED BY <1>3, <1>7

\* The sum obeys its recursion.
LEMMA SumOverUnfolds ==
  ASSUME NEW f, NEW S, IsFiniteSet(S)
  PROVE  SumOver(f, S) = (IF S = {} THEN 0 ELSE f[Pick(S)] + SumOver(f, S \ {Pick(S)}))
<1>1. PICK g : g = Step(f, S, g)
  BY AdderExists
<1>2. SumOver(f, S) = g[S]
  BY <1>1, AdderOfSubset
<1>3. SumOver(f, S \ {Pick(S)}) = g[S \ {Pick(S)}]
  <2>1. S \ {Pick(S)} \subseteq S
    OBVIOUS
  <2> QED BY <1>1, <2>1, AdderOfSubset
<1>4. Step(f, S, g)[S] = (IF S = {} THEN 0 ELSE f[Pick(S)] + g[S \ {Pick(S)}])
  BY DEF Step
<1> QED BY <1>1, <1>2, <1>3, <1>4

\* The sum of integers is an integer.
LEMMA SumOverInt ==
  ASSUME NEW f, NEW S, IsFiniteSet(S), \A x \in S : f[x] \in Int
  PROVE  SumOver(f, S) \in Int
<1> DEFINE B == {s \in SUBSET S : SumOver(f, s) \notin Int}
<1>1. SUFFICES ASSUME B # {} PROVE FALSE
  <2>1. S \in SUBSET S
    OBVIOUS
  <2> QED BY <2>1
<1>2. B \subseteq SUBSET S
  OBVIOUS
<1>3. PICK m \in B : \A y \in B : ~(y \subseteq m /\ y # m)
  <2> HIDE DEF B
  <2> QED BY <1>1, <1>2, MinimalSubset
<1>4. SumOver(f, m) = (IF m = {} THEN 0 ELSE f[Pick(m)] + SumOver(f, m \ {Pick(m)}))
  BY FS_Subset, SumOverUnfolds
<1>5. m # {}
  BY <1>3, <1>4
<1>6. Pick(m) \in m /\ m \ {Pick(m)} \in SUBSET S /\ m \ {Pick(m)} # m
  BY <1>5, PickInSet
<1>7. SumOver(f, m \ {Pick(m)}) \in Int
  BY <1>3, <1>6
<1>8. f[Pick(m)] \in Int
  BY <1>3, <1>6
<1> QED BY <1>3, <1>4, <1>5, <1>7, <1>8

\* The sum of natural numbers is a natural number.
LEMMA SumOverNat ==
  ASSUME NEW f, NEW S, IsFiniteSet(S), \A x \in S : f[x] \in Nat
  PROVE  SumOver(f, S) \in Nat
<1> DEFINE B == {s \in SUBSET S : SumOver(f, s) \notin Nat}
<1>1. SUFFICES ASSUME B # {} PROVE FALSE
  <2>1. S \in SUBSET S
    OBVIOUS
  <2> QED BY <2>1
<1>2. B \subseteq SUBSET S
  OBVIOUS
<1>3. PICK m \in B : \A y \in B : ~(y \subseteq m /\ y # m)
  <2> HIDE DEF B
  <2> QED BY <1>1, <1>2, MinimalSubset
<1>4. SumOver(f, m) = (IF m = {} THEN 0 ELSE f[Pick(m)] + SumOver(f, m \ {Pick(m)}))
  BY FS_Subset, SumOverUnfolds
<1>5. m # {}
  BY <1>3, <1>4
<1>6. Pick(m) \in m /\ m \ {Pick(m)} \in SUBSET S /\ m \ {Pick(m)} # m
  BY <1>5, PickInSet
<1>7. SumOver(f, m \ {Pick(m)}) \in Nat
  BY <1>3, <1>6
<1>8. f[Pick(m)] \in Nat
  BY <1>3, <1>6
<1> QED BY <1>3, <1>4, <1>5, <1>7, <1>8

\* Functions that agree on a set have the same sum over it.
LEMMA SumOverCongruent ==
  ASSUME NEW f, NEW h, NEW S, IsFiniteSet(S), \A x \in S : f[x] = h[x]
  PROVE  SumOver(f, S) = SumOver(h, S)
<1> DEFINE B == {s \in SUBSET S : SumOver(f, s) # SumOver(h, s)}
<1>1. SUFFICES ASSUME B # {} PROVE FALSE
  <2>1. S \in SUBSET S
    OBVIOUS
  <2> QED BY <2>1
<1>2. B \subseteq SUBSET S
  OBVIOUS
<1>3. PICK m \in B : \A y \in B : ~(y \subseteq m /\ y # m)
  <2> HIDE DEF B
  <2> QED BY <1>1, <1>2, MinimalSubset
<1>4. /\ SumOver(f, m) = (IF m = {} THEN 0 ELSE f[Pick(m)] + SumOver(f, m \ {Pick(m)}))
      /\ SumOver(h, m) = (IF m = {} THEN 0 ELSE h[Pick(m)] + SumOver(h, m \ {Pick(m)}))
  BY FS_Subset, SumOverUnfolds
<1>5. m # {}
  BY <1>3, <1>4
<1>6. Pick(m) \in m /\ m \ {Pick(m)} \in SUBSET S /\ m \ {Pick(m)} # m
  BY <1>5, PickInSet
<1>7. SumOver(f, m \ {Pick(m)}) = SumOver(h, m \ {Pick(m)})
  BY <1>3, <1>6
<1>8. f[Pick(m)] = h[Pick(m)]
  BY <1>3, <1>6
<1> QED BY <1>3, <1>4, <1>5, <1>7, <1>8

\* Adding d to one summand adds d to the sum.
LEMMA SumOverShift ==
  ASSUME NEW f, NEW h, NEW S, IsFiniteSet(S), \A x \in S : f[x] \in Int,
         NEW a \in S, NEW d \in Int, h[a] = f[a] + d,
         \A x \in S \ {a} : h[x] = f[x]
  PROVE  SumOver(h, S) = SumOver(f, S) + d
<1> DEFINE B == {s \in SUBSET S : a \in s /\ SumOver(h, s) # SumOver(f, s) + d}
<1>1. SUFFICES ASSUME B # {} PROVE FALSE
  <2>1. S \in SUBSET S
    OBVIOUS
  <2> QED BY <2>1
<1>2. B \subseteq SUBSET S
  OBVIOUS
<1>3. PICK m \in B : \A y \in B : ~(y \subseteq m /\ y # m)
  <2> HIDE DEF B
  <2> QED BY <1>1, <1>2, MinimalSubset
<1>4. m # {} /\ IsFiniteSet(m)
  BY <1>3, FS_Subset
<1> DEFINE q == Pick(m)
           n == m \ {Pick(m)}
<1>5. /\ SumOver(f, m) = f[q] + SumOver(f, n)
      /\ SumOver(h, m) = h[q] + SumOver(h, n)
  BY <1>4, SumOverUnfolds
<1>6. q \in m /\ n \in SUBSET S /\ n # m /\ n \subseteq m
  BY <1>4, PickInSet
<1>7. IsFiniteSet(n) /\ SumOver(f, n) \in Int /\ f[q] \in Int
  <2>1. IsFiniteSet(n) /\ \A x \in n : f[x] \in Int
    BY <1>6, FS_Subset
  <2> HIDE DEF n
  <2> QED BY <1>3, <1>6, <2>1, SumOverInt
<1>8. CASE q = a
  <2>1. \A x \in n : h[x] = f[x]
    BY <1>6, <1>8
  <2>2. SumOver(h, n) = SumOver(f, n)
    <3> HIDE DEF n
    <3> QED BY <1>7, <2>1, SumOverCongruent
  <2> HIDE DEF n, q
  <2>3. SumOver(h, m) = SumOver(f, m) + d
    BY <1>5, <1>7, <1>8, <2>2
  <2> QED BY <1>3, <2>3
<1>9. CASE q # a
  <2>1. a \in n /\ h[q] = f[q]
    BY <1>3, <1>6, <1>9
  <2>2. SumOver(h, n) = SumOver(f, n) + d
    BY <1>3, <1>6, <2>1
  <2> HIDE DEF n, q
  <2>3. SumOver(h, m) = SumOver(f, m) + d
    BY <1>5, <1>7, <2>1, <2>2
  <2> QED BY <1>3, <2>3
<1> QED BY <1>8, <1>9

\* Any summand can be taken out, not only the one the recursion picks.
LEMMA SumOverRemove ==
  ASSUME NEW f, NEW S, IsFiniteSet(S), \A x \in S : f[x] \in Int, NEW a \in S
  PROVE  SumOver(f, S) = f[a] + SumOver(f, S \ {a})
<1> DEFINE B == {s \in SUBSET S : \E x \in s : SumOver(f, s) # f[x] + SumOver(f, s \ {x})}
<1>1. SUFFICES ASSUME B # {} PROVE FALSE
  <2>1. S \in SUBSET S
    OBVIOUS
  <2> QED BY <2>1
<1>2. B \subseteq SUBSET S
  OBVIOUS
<1>3. PICK m \in B : \A y \in B : ~(y \subseteq m /\ y # m)
  <2> HIDE DEF B
  <2> QED BY <1>1, <1>2, MinimalSubset
<1>4. PICK x \in m : SumOver(f, m) # f[x] + SumOver(f, m \ {x})
  OBVIOUS
<1> DEFINE q == Pick(m)
<1>5. q \in m /\ SumOver(f, m) = f[q] + SumOver(f, m \ {q})
  BY <1>3, <1>4, FS_Subset, SumOverUnfolds, PickInSet
<1> HIDE DEF q
<1>6. x # q
  BY <1>4, <1>5
<1>7. \A y \in {x, q} : m \ {y} \in SUBSET S /\ m \ {y} # m /\ m \ {y} \notin B
  BY <1>3, <1>4, <1>5
<1>8. SumOver(f, m \ {q}) = f[x] + SumOver(f, (m \ {q}) \ {x})
  BY <1>4, <1>6, <1>7
<1>9. SumOver(f, m \ {x}) = f[q] + SumOver(f, (m \ {x}) \ {q})
  BY <1>5, <1>6, <1>7
<1>10. (m \ {q}) \ {x} = (m \ {x}) \ {q}
  OBVIOUS
<1>11. f[x] \in Int /\ f[q] \in Int /\ SumOver(f, (m \ {x}) \ {q}) \in Int
  <2>1. (m \ {x}) \ {q} \in SUBSET S
    BY <1>3
  <2>2. IsFiniteSet((m \ {x}) \ {q}) /\ \A y \in (m \ {x}) \ {q} : f[y] \in Int
    BY <2>1, FS_Subset
  <2> QED BY <1>3, <1>4, <1>5, <2>2, SumOverInt
<1>12. SumOver(f, m) = f[x] + SumOver(f, m \ {x})
  <2> DEFINE rest == SumOver(f, (m \ {x}) \ {q})
  <2>1. SumOver(f, m \ {q}) = f[x] + rest /\ SumOver(f, m \ {x}) = f[q] + rest /\ rest \in Int
    BY <1>8, <1>9, <1>10, <1>11
  <2> HIDE DEF rest, B
  <2> QED BY <1>5, <1>11, <2>1
<1> QED BY <1>4, <1>12

\* Summands that are zero can be left out.
LEMMA SumOverNonZero ==
  ASSUME NEW f, NEW S, IsFiniteSet(S), \A x \in S : f[x] \in Int,
         NEW T, T \subseteq S, \A x \in S \ T : f[x] = 0
  PROVE  SumOver(f, S) = SumOver(f, T)
<1> DEFINE B == {s \in SUBSET S : T \subseteq s /\ SumOver(f, s) # SumOver(f, T)}
<1>1. SUFFICES ASSUME B # {} PROVE FALSE
  <2>1. S \in SUBSET S
    OBVIOUS
  <2> QED BY <2>1
<1>2. B \subseteq SUBSET S
  OBVIOUS
<1>3. PICK m \in B : \A y \in B : ~(y \subseteq m /\ y # m)
  <2> HIDE DEF B
  <2> QED BY <1>1, <1>2, MinimalSubset
<1>4. PICK x \in m : x \notin T
  BY <1>3
<1>5. m \ {x} \in SUBSET S /\ m \ {x} # m /\ T \subseteq m \ {x}
  BY <1>3, <1>4
<1>6. SumOver(f, m \ {x}) = SumOver(f, T)
  BY <1>3, <1>5
<1>7. IsFiniteSet(m) /\ IsFiniteSet(m \ {x}) /\ (\A y \in m : f[y] \in Int) /\ f[x] = 0
  BY <1>3, <1>4, <1>5, FS_Subset
<1>8. SumOver(f, m) = f[x] + SumOver(f, m \ {x})
  BY <1>4, <1>7, SumOverRemove
<1>9. SumOver(f, m \ {x}) \in Int
  BY <1>7, SumOverInt
<1>10. SumOver(f, m) = SumOver(f, T)
  BY <1>6, <1>7, <1>8, <1>9
<1> QED BY <1>3, <1>10
================================================================================
