-------------------------------- MODULE Sums --------------------------------
(***************************************************************************)
(* Sums over a finite set, as MapThenSumSet of FiniteSetsExt computes them:  *)
(* what a sum is does not depend on the order its elements are taken in.     *)
(*                                                                         *)
(* MapThenSumSet takes the recursive function that adds up every subset of   *)
(* the set, by the first element of each.  That there is such a function     *)
(* (SumExists), and no other (AddsUpOneWay), is shown on the smallest subset  *)
(* where it fails: the strict subsets of a finite set are well founded.      *)
(***************************************************************************)
EXTENDS Integers, FiniteSets, FiniteSetsExt, FiniteSetTheorems, WellFoundedInduction, TLAPS

\* The element of a set that is added first.
First(s) == CHOOSE x \in s : TRUE

\* Function g adds up the values w of the elements of every subset of P ...
AddsUp(g, w, P) ==
  \A s \in SUBSET P : g[s] = IF s = {} THEN 0 ELSE w[First(s)] + g[s \ {First(s)}]

\* ... and is a function on those subsets, in the words of MapThenFoldSet.
IsSum(g, w, P) ==
  g = [s \in SUBSET P |-> IF s = {} THEN 0 ELSE w[First(s)] + g[s \ {First(s)}]]

\* The sum of the values w of the elements of S.
Total(w, S) == MapThenSumSet(LAMBDA x : w[x], S)

(* A set that is not empty has a first element. *)
LEMMA FirstIn ==
  ASSUME NEW s, s # {}
  PROVE  First(s) \in s
BY DEF First

(* Of the finite subsets of a set, some smallest one has a property that one has. *)
LEMMA SmallestSet ==
  ASSUME NEW P, IsFiniteSet(P), NEW F \in SUBSET (SUBSET P), F # {}
  PROVE  \E s \in F : \A t \in F : t \subseteq s => t = s
<1> DEFINE R == StrictSubsetOrdering(P)
<1>1. F \subseteq FiniteSubsetsOf(P)
  BY FS_Subset DEF FiniteSubsetsOf
<1>2. IsWellFoundedOn(R, FiniteSubsetsOf(P))
  BY FS_StrictSubsetOrderingWellFounded
<1>3. PICK s \in F : \A t \in F : ~(<<t, s>> \in R)
  <2> HIDE DEF R
  <2> QED
    BY <1>1, <1>2, WFMin
<1>4. \A t \in F : t \subseteq s /\ t # s => <<t, s>> \in R
  BY DEF StrictSubsetOrdering
<1> QED
  <2> WITNESS s \in F
  <2> QED
    BY <1>3, <1>4

(* There is one way to add up a set. *)
LEMMA AddsUpOneWay ==
  ASSUME NEW S, IsFiniteSet(S), NEW w, NEW v, \A x \in S : w[x] = v[x],
         NEW g, NEW h, AddsUp(g, w, S), AddsUp(h, v, S)
  PROVE  \A s \in SUBSET S : g[s] = h[s]
<1> DEFINE F == {s \in SUBSET S : g[s] # h[s]}
<1> SUFFICES ASSUME F # {} PROVE FALSE
  OBVIOUS
<1>1. PICK s \in F : \A t \in F : t \subseteq s => t = s
  <2>1. F \in SUBSET (SUBSET S)
    OBVIOUS
  <2> HIDE DEF F
  <2> QED
    BY <2>1, SmallestSet
<1>2. CASE s = {}
  BY <1>1, <1>2 DEF AddsUp
<1>3. CASE s # {}
  <2> DEFINE t == s \ {First(s)}
  <2>1. First(s) \in s /\ t \in SUBSET S /\ t \subseteq s /\ t # s
    BY <1>3, FirstIn
  <2>2. g[t] = h[t]
    BY <1>1, <2>1
  <2>3. g[s] = w[First(s)] + g[t] /\ h[s] = v[First(s)] + h[t]
    BY <1>3 DEF AddsUp
  <2> QED
    BY <1>1, <2>1, <2>2, <2>3
<1> QED
  BY <1>2, <1>3

(* ... and there is a way. *)
LEMMA SumExists ==
  ASSUME NEW P, IsFiniteSet(P), NEW w
  PROVE  \E g : IsSum(g, w, P)
<1> DEFINE Sum(S) == CHOOSE g : AddsUp(g, w, S)
           F == {S \in SUBSET P : ~AddsUp(Sum(S), w, S)}
           Step(s) == IF s = {} THEN 0 ELSE w[First(s)] + Sum(s \ {First(s)})[s \ {First(s)}]
<1>0. \A S \in SUBSET P : IsFiniteSet(S)
  BY FS_Subset
<1>1. ASSUME NEW S \in SUBSET P, \A T \in SUBSET S : T # S => T \notin F
      PROVE  S \notin F
  <2> DEFINE g == [s \in SUBSET S |-> Step(s)]
  <2>1. ASSUME NEW s \in SUBSET S, s # S, s # {}
        PROVE  Sum(s)[s] = w[First(s)] + Sum(s \ {First(s)})[s \ {First(s)}]
    <3> DEFINE t == s \ {First(s)}
    <3>1. First(s) \in s /\ t \in SUBSET s /\ t # S /\ t \in SUBSET P /\ s \in SUBSET P
      BY <2>1, FirstIn
    <3>2. AddsUp(Sum(s), w, s) /\ AddsUp(Sum(t), w, t)
      BY <1>1, <2>1, <3>1
    <3>3. Sum(s)[s] = w[First(s)] + Sum(s)[t]
      <4> HIDE DEF Sum
      <4> QED
        BY <2>1, <3>2 DEF AddsUp
    <3>4. AddsUp(Sum(s), w, t)
      <4> HIDE DEF Sum
      <4> QED
        BY <3>1, <3>2 DEF AddsUp
    <3>5. Sum(s)[t] = Sum(t)[t]
      <4> DEFINE a == Sum(s)
                 b == Sum(t)
      <4>1. IsFiniteSet(t) /\ AddsUp(a, w, t) /\ AddsUp(b, w, t) /\ t \in SUBSET t
        BY <1>0, <3>1, <3>2, <3>4
      <4> HIDE DEF a, b, t
      <4>2. a[t] = b[t]
        BY <4>1, AddsUpOneWay
      <4> QED
        BY <4>2 DEF a, b
    <3> QED
      BY <3>3, <3>5
  <2>2. S # {} => Sum({})[{}] = 0
    <3>1. S # {} => AddsUp(Sum({}), w, {})
      BY <1>1
    <3> HIDE DEF Sum
    <3> QED
      BY <3>1 DEF AddsUp
  <2>3. \A s \in SUBSET S : s # S => Step(s) = Sum(s)[s]
    BY <2>1, <2>2
  <2>4. AddsUp(g, w, S)
    <3> SUFFICES ASSUME NEW s \in SUBSET S, s # {}
                 PROVE  g[s] = w[First(s)] + g[s \ {First(s)}]
      <4>1. g[{}] = 0
        OBVIOUS
      <4> HIDE DEF g
      <4> QED
        BY <4>1 DEF AddsUp
    <3>1. First(s) \in s /\ s \ {First(s)} \in SUBSET S /\ s \ {First(s)} # S
      BY FirstIn
    <3> QED
      BY <2>3, <3>1
  <2> QED
    BY <2>4
<1>2. F = {}
  <2> SUFFICES ASSUME F # {} PROVE FALSE
    OBVIOUS
  <2>1. PICK S \in F : \A T \in F : T \subseteq S => T = S
    <3>1. F \in SUBSET (SUBSET P)
      OBVIOUS
    <3> HIDE DEF F
    <3> QED
      BY <3>1, SmallestSet
  <2> QED
    BY <1>1, <2>1
<1>3. AddsUp(Sum(P), w, P)
  BY <1>2
<1> DEFINE total == Sum(P)
           sum == [s \in SUBSET P |-> total[s]]
<1> HIDE DEF Sum, F, total
<1>4. IsSum(sum, w, P)
  <2>1. AddsUp(total, w, P)
    BY <1>3 DEF total
  <2> QED
    BY <2>1 DEF AddsUp, IsSum
<1> HIDE DEF sum
<1> QED
  BY <1>4

(* MapThenSumSet picks the elements of the set in this way. *)
LEMMA TotalIsASum ==
  ASSUME NEW S, IsFiniteSet(S), NEW w
  PROVE  \E g : AddsUp(g, w, S) /\ Total(w, S) = g[S]
<1> DEFINE g == CHOOSE f : IsSum(f, w, S)
<1>1. IsSum(g, w, S)
  BY SumExists
<1>2. Total(w, S) = g[S]
  BY DEF Total, MapThenSumSet, MapThenFoldSet, First, IsSum
<1> HIDE DEF g
<1>3. AddsUp(g, w, S)
  BY <1>1 DEF AddsUp, IsSum
<1> QED
  BY <1>2, <1>3

(* Adding up a subset does not depend on what it is a subset of. *)
LEMMA TotalWithin ==
  ASSUME NEW P, IsFiniteSet(P), NEW w, NEW v, NEW S \in SUBSET P,
         \A x \in S : w[x] = v[x], NEW g, AddsUp(g, v, P)
  PROVE  Total(w, S) = g[S]
<1>1. IsFiniteSet(S)
  BY FS_Subset
<1>2. PICK h : AddsUp(h, w, S) /\ Total(w, S) = h[S]
  BY <1>1, TotalIsASum
<1>3. AddsUp(g, v, S)
  BY DEF AddsUp
<1> QED
  BY <1>1, <1>2, <1>3, AddsUpOneWay

(* The sum over a set depends on its elements' values only. *)
LEMMA TotalSame ==
  ASSUME NEW S, IsFiniteSet(S), NEW w, NEW v, \A x \in S : w[x] = v[x]
  PROVE  Total(w, S) = Total(v, S)
<1>1. PICK g : AddsUp(g, v, S) /\ Total(v, S) = g[S]
  BY TotalIsASum
<1> QED
  BY <1>1, TotalWithin

(* Nothing adds up to nothing. *)
LEMMA TotalOfNone ==
  ASSUME NEW w
  PROVE  Total(w, {}) = 0
<1>1. PICK g : AddsUp(g, w, {}) /\ Total(w, {}) = g[{}]
  BY TotalIsASum, FS_EmptySet
<1> QED
  BY <1>1 DEF AddsUp

(* Whatever element is taken out, the rest adds up to the rest. *)
LEMMA TotalOf ==
  ASSUME NEW P, IsFiniteSet(P), NEW w, \A x \in P : w[x] \in Int
  PROVE  \A S \in SUBSET P :
           Total(w, S) \in Int /\ \A x \in S : Total(w, S) = w[x] + Total(w, S \ {x})
<1>1. PICK g : AddsUp(g, w, P)
  BY TotalIsASum
<1>2. \A S \in SUBSET P : Total(w, S) = g[S]
  BY <1>1, TotalWithin
<1> DEFINE Fine(S) == g[S] \in Int /\ \A x \in S : g[S] = w[x] + g[S \ {x}]
           F == {S \in SUBSET P : ~Fine(S)}
<1>3. F = {}
  <2> SUFFICES ASSUME F # {} PROVE FALSE
    OBVIOUS
  <2>1. PICK S \in F : \A T \in F : T \subseteq S => T = S
    <3>1. F \in SUBSET (SUBSET P)
      OBVIOUS
    <3> HIDE DEF F
    <3> QED
      BY <3>1, SmallestSet
  <2>2. S # {}
    <3>1. g[{}] = 0
      BY <1>1 DEF AddsUp
    <3>2. Fine({})
      BY <3>1
    <3> HIDE DEF Fine
    <3> QED
      BY <2>1, <3>2
  <2> DEFINE c == First(S)
  <2>3. c \in S /\ S \in SUBSET P /\ g[S] = w[c] + g[S \ {c}]
    BY <1>1, <2>1, <2>2, FirstIn DEF AddsUp
  <2>4. \A T \in SUBSET S : T # S => Fine(T)
    BY <2>1
  <2> HIDE DEF c, F, Fine
  <2>5. \A x \in S : Fine(S \ {x})
    BY <2>3, <2>4
  <2>6. g[S] \in Int
    <3>1. g[S \ {c}] \in Int /\ w[c] \in Int
      BY <2>3, <2>5 DEF Fine
    <3> QED
      BY <2>3, <3>1
  <2>7. ASSUME NEW x \in S, x # c
        PROVE  g[S] = w[x] + g[S \ {x}]
    <3>1. g[S \ {c}] = w[x] + g[(S \ {c}) \ {x}]
      BY <2>3, <2>5, <2>7 DEF Fine
    <3>2. g[S \ {x}] = w[c] + g[(S \ {x}) \ {c}]
      BY <2>3, <2>5, <2>7 DEF Fine
    <3>3. (S \ {c}) \ {x} = (S \ {x}) \ {c}
      OBVIOUS
    <3>4. Fine((S \ {x}) \ {c})
      BY <2>3, <2>4, <2>7
    <3>5. w[x] \in Int /\ w[c] \in Int /\ g[(S \ {x}) \ {c}] \in Int
      BY <2>3, <3>4 DEF Fine
    <3>6. /\ g[S \ {c}] = w[x] + g[(S \ {x}) \ {c}]
          /\ g[S \ {x}] = w[c] + g[(S \ {x}) \ {c}]
          /\ g[S] = w[c] + g[S \ {c}]
      BY <2>3, <3>1, <3>2, <3>3, Zenon
    <3> QED
      BY <3>5, <3>6
  <2>8. Fine(S)
    BY <2>3, <2>6, <2>7 DEF Fine
  <2> QED
    BY <2>1, <2>8 DEF F
<1>4. \A S \in SUBSET P : Fine(S)
  BY <1>3
<1> HIDE DEF F
<1> QED
  BY <1>2, <1>4
=============================================================================
