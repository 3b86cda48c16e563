--------------------------- MODULE Prices_proofs ---------------------------
(***************************************************************************)
(* costliest is a fold over a map, in an order that the code fixes and the *)
(* model does not.  What it gives is the highest price, in every order.    *)
(***************************************************************************)
EXTENDS Prices, FiniteSetTheorems, TLAPS

\* Induction over the subsets of a finite set, for a set of subsets instead of
\* a predicate.
LEMMA SubsetInduction ==
  ASSUME NEW D, IsFiniteSet(D), NEW G,
         {} \in G,
         \A s \in SUBSET D : s # {} /\ (\A x \in s : s \ {x} \in G) => s \in G
  PROVE  SUBSET D \subseteq G
<1> SUFFICES ASSUME (SUBSET D) \ G # {}
             PROVE  FALSE
  OBVIOUS
<1>1. IsWellFoundedOn(StrictSubsetOrdering(D), SUBSET D)
  BY FS_StrictSubsetOrderingWellFounded, FS_FiniteSubsetsOfFinite
<1>2. PICK s \in (SUBSET D) \ G :
         \A t \in (SUBSET D) \ G : <<t, s>> \notin StrictSubsetOrdering(D)
  <2> DEFINE T == (SUBSET D) \ G
             R == StrictSubsetOrdering(D)
  <2>1. T \subseteq SUBSET D /\ T # {}
    OBVIOUS
  <2> HIDE DEF T, R
  <2>2. \E x \in T : \A y \in T : ~ (<<y, x>> \in R)
    BY <1>1, <2>1, WFMin DEF R
  <2> QED
    BY <2>2 DEF T, R
<1>3. ASSUME NEW x \in s PROVE s \ {x} \in G
  <2>1. s \ {x} \in SUBSET D /\ s \ {x} \subseteq s /\ s \ {x} # s
    BY <1>2
  <2>2. <<s \ {x}, s>> \in StrictSubsetOrdering(D)
    BY <1>2, <2>1 DEF StrictSubsetOrdering
  <2> QED
    BY <1>2, <2>1, <2>2
<1>4. s \in SUBSET D /\ s \notin G /\ s # {}
  BY <1>2
<1> QED
  BY <1>3, <1>4
-----------------------------------------------------------------------------
\* The methods of s that have a price.
Priced(methods, s) == {m \in s : SetString(methods[m]) /\ methods[m].n > 0}

\* b is the highest price in s.
Highest(methods, s, b) ==
    /\ b \in Nat
    /\ \A m \in Priced(methods, s) : methods[m].n <= b
    /\ b = 0 \/ \E m \in Priced(methods, s) : methods[m].n = b

\* What the loop of costliest does with one more method.
Better(t, best) == IF SetString(t) /\ t.n > 0 /\ t.n > best THEN t.n ELSE best

\* There is one at most.
LEMMA OneHighest ==
  ASSUME NEW methods, PriceList(methods), NEW s \in SUBSET DOMAIN methods,
         NEW a, NEW b, Highest(methods, s, a), Highest(methods, s, b)
  PROVE  a = b
<1>1. \A m \in Priced(methods, s) : methods[m].n \in Int /\ methods[m].n > 0
  BY DEF Priced, PriceList, Texts
<1> QED
  BY <1>1 DEF Highest

\* The loop keeps it.
LEMMA OneMore ==
  ASSUME NEW methods, PriceList(methods), NEW s \in SUBSET DOMAIN methods,
         NEW x \in s, NEW b, Highest(methods, s \ {x}, b)
  PROVE  Highest(methods, s, Better(methods[x], b))
<1>1. methods[x].n \in Int /\ b \in Nat
  BY DEF PriceList, Texts, Highest
<1>2. \A m \in Priced(methods, s) : methods[m].n \in Int
  BY DEF Priced, PriceList, Texts
<1>3. \A m \in Priced(methods, s) : m = x \/ m \in Priced(methods, s \ {x})
  BY DEF Priced
<1>4. Priced(methods, s \ {x}) \subseteq Priced(methods, s)
  BY DEF Priced
<1>5. CASE SetString(methods[x]) /\ methods[x].n > 0
  <2>1. x \in Priced(methods, s)
    BY <1>5 DEF Priced
  <2>2. CASE methods[x].n > b
    <3>1. Better(methods[x], b) = methods[x].n
      BY <1>5, <2>2 DEF Better
    <3>2. \A m \in Priced(methods, s) : methods[m].n <= methods[x].n
      <4>1. ASSUME NEW m \in Priced(methods, s) PROVE methods[m].n <= methods[x].n
        <5>1. m = x \/ methods[m].n <= b
          BY <1>3 DEF Highest
        <5> QED
          BY <1>1, <1>2, <2>2, <5>1
      <4> QED
        BY <4>1
    <3> QED
      BY <1>1, <1>5, <2>1, <3>1, <3>2 DEF Highest
  <2>3. CASE ~ (methods[x].n > b)
    <3>1. Better(methods[x], b) = b
      BY <2>3 DEF Better
    <3>2. ASSUME NEW m \in Priced(methods, s) PROVE methods[m].n <= b
      <4>1. m = x \/ methods[m].n <= b
        BY <1>3 DEF Highest
      <4> QED
        BY <1>1, <2>3, <4>1
    <3>3. b = 0 \/ \E m \in Priced(methods, s) : methods[m].n = b
      BY <1>4 DEF Highest
    <3> QED
      BY <1>1, <3>1, <3>2, <3>3 DEF Highest
  <2> QED
    BY <2>2, <2>3
<1>6. CASE ~ (SetString(methods[x]) /\ methods[x].n > 0)
  <2>1. Priced(methods, s) = Priced(methods, s \ {x})
    BY <1>6 DEF Priced
  <2> QED
    BY <1>6, <2>1 DEF Highest, Better
<1> QED
  BY <1>5, <1>6

\* The loop starts with it.
LEMMA NoMethod ==
  ASSUME NEW methods
  PROVE  Highest(methods, {}, 0)
  BY DEF Highest, Priced

\* Every part of a list has a highest price.
LEMMA HighestExists ==
  ASSUME NEW methods, PriceList(methods)
  PROVE  \A s \in SUBSET DOMAIN methods : \E b : Highest(methods, s, b)
<1> DEFINE D == DOMAIN methods
           G == {s \in SUBSET D : \E b : Highest(methods, s, b)}
<1>1. IsFiniteSet(D)
  BY DEF PriceList
<1>2. {} \in G
  BY NoMethod
<1>3. ASSUME NEW s \in SUBSET D, s # {}, \A x \in s : s \ {x} \in G
      PROVE  s \in G
  <2>1. PICK x \in s : TRUE
    BY <1>3
  <2>2. PICK b : Highest(methods, s \ {x}, b)
    BY <1>3
  <2> QED
    BY <2>2, OneMore
<1> HIDE DEF D, G
<1>4. SUBSET D \subseteq G
  BY <1>1, <1>2, <1>3, SubsetInduction
<1> QED
  BY <1>4 DEF D, G
-----------------------------------------------------------------------------
\* The function that the fold is defined by.
Iterates(methods, iter) ==
    iter = [s \in SUBSET DOMAIN methods |->
              IF s = {} THEN 0
              ELSE LET x == CHOOSE x \in s : TRUE
                   IN  Better(methods[x], iter[s \ {x}])]

\* costliest is that function, for the whole list.
LEMMA CostliestUnfolds ==
  ASSUME NEW methods
  PROVE  costliest(methods) = (CHOOSE iter : Iterates(methods, iter))[DOMAIN methods]
  BY DEF costliest, FoldFunction, FoldFunctionOnSet, MapThenFoldSet, Iterates, Better

\* There is such a function: the highest price of every part.
LEMMA IteratesExists ==
  ASSUME NEW methods, PriceList(methods)
  PROVE  \E iter : Iterates(methods, iter)
<1> DEFINE D == DOMAIN methods
           g == [s \in SUBSET D |-> CHOOSE b : Highest(methods, s, b)]
<1>1. \A s \in SUBSET D : Highest(methods, s, g[s])
  BY HighestExists
<1>2. ASSUME NEW s \in SUBSET D
      PROVE  g[s] = IF s = {} THEN 0
                    ELSE LET x == CHOOSE x \in s : TRUE IN Better(methods[x], g[s \ {x}])
  <2>1. CASE s = {}
    BY <1>1, <2>1, NoMethod, OneHighest
  <2>2. CASE s # {}
    <3> DEFINE x == CHOOSE x \in s : TRUE
    <3>1. x \in s
      BY <2>2
    <3>2. s \ {x} \in SUBSET D
      OBVIOUS
    <3> HIDE DEF x, g
    <3>3. Highest(methods, s, Better(methods[x], g[s \ {x}]))
      BY <1>1, <3>1, <3>2, OneMore
    <3>4. g[s] = Better(methods[x], g[s \ {x}])
      BY <1>1, <3>3, OneHighest
    <3> QED
      BY <2>2, <3>4 DEF x
  <2> QED
    BY <2>1, <2>2
<1>3. g = [s \in SUBSET D |-> g[s]]
  OBVIOUS
<1> HIDE DEF g
<1>4. Iterates(methods, g)
  BY <1>2, <1>3 DEF Iterates
<1> QED
  BY <1>4

\* The limit that init writes: costliest is the highest price, and 0 when no method has one.
THEOREM CostliestIsHighest ==
  ASSUME NEW methods, PriceList(methods)
  PROVE  Highest(methods, DOMAIN methods, costliest(methods))
<1> DEFINE D == DOMAIN methods
           f == CHOOSE iter : Iterates(methods, iter)
           G == {s \in SUBSET D : Highest(methods, s, f[s])}
<1>1. Iterates(methods, f)
  BY IteratesExists
<1> HIDE DEF f
<1>2. ASSUME NEW s \in SUBSET D
      PROVE  f[s] = IF s = {} THEN 0
                    ELSE LET x == CHOOSE x \in s : TRUE IN Better(methods[x], f[s \ {x}])
  BY <1>1 DEF Iterates
<1>3. {} \in G
  BY <1>2, NoMethod
<1>4. ASSUME NEW s \in SUBSET D, s # {}, \A x \in s : s \ {x} \in G
      PROVE  s \in G
  <2> DEFINE x == CHOOSE x \in s : TRUE
  <2>1. x \in s
    BY <1>4
  <2>2. f[s] = Better(methods[x], f[s \ {x}])
    BY <1>2, <1>4
  <2> HIDE DEF x
  <2>3. Highest(methods, s \ {x}, f[s \ {x}])
    BY <1>4, <2>1
  <2>4. Highest(methods, s, f[s])
    BY <2>1, <2>2, <2>3, OneMore
  <2> QED
    BY <2>4
<1>5. IsFiniteSet(D)
  BY DEF PriceList
<1> HIDE DEF D, G
<1>6. SUBSET D \subseteq G
  BY <1>3, <1>4, <1>5, SubsetInduction
<1>7. Highest(methods, D, f[D])
  BY <1>6 DEF G
<1> QED
  BY <1>7, CostliestUnfolds DEF D, f
=============================================================================
