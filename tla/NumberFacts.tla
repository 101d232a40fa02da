---------------------------- MODULE NumberFacts ----------------------------
(***************************************************************************)
(* The least and the greatest number of a set, which min() and max() find. *)
(***************************************************************************)
EXTENDS Integers, FiniteSetsExt, WellFoundedInduction, TLAPS

\* A non-empty set of numbers has a least element, which is what min() finds
\* among the positions of playable podcasts.
LEMMA MinIn ==
    ASSUME NEW S \in SUBSET Nat, S # {}
    PROVE  Min(S) \in S /\ \A y \in S : Min(S) <= y
<1> DEFINE R == OpToRel(<, Nat)
<1>1. \A x, y \in Nat : y < x => <<y, x>> \in R
  BY DEF OpToRel
<1>2. PICK x \in S : \A y \in S : ~(<<y, x>> \in R)
  <2> HIDE DEF R
  <2>1. IsWellFoundedOn(R, Nat)
    BY NatLessThanWellFounded, Zenon DEF R
  <2> QED
    BY <2>1, WFMin, Zenon
<1> HIDE DEF R
<1>3. ASSUME NEW y \in S PROVE x <= y
  <2>1. x \in Nat /\ y \in Nat
    OBVIOUS
  <2>2. ~(y < x)
    BY <1>1, <1>2, <2>1, Zenon
  <2> QED
    BY <2>1, <2>2
<1> QED
  BY <1>3 DEF Min

\* A non-empty set of positions of a sequence has a greatest element.
LEMMA MaxIn ==
    ASSUME NEW n \in Nat, NEW S \in SUBSET (1 .. n), S # {}
    PROVE  Max(S) \in S /\ \A y \in S : y <= Max(S)
<1> DEFINE T == {n - i : i \in S}
<1>1. T \in SUBSET Nat /\ T # {}
  <2>1. T \in SUBSET Nat
    OBVIOUS
  <2>2. PICK s \in S : TRUE
    OBVIOUS
  <2>3. n - s \in T
    BY <2>2
  <2> QED
    BY <2>1, <2>3
<1>2. PICK x \in S : Min(T) = n - x
  <2> HIDE DEF T
  <2>1. Min(T) \in T
    BY <1>1, MinIn
  <2> QED
    BY <2>1 DEF T
<1>3. ASSUME NEW y \in S PROVE x >= y
  <2>1. Min(T) <= n - y
    <3>1. n - y \in T
      OBVIOUS
    <3> QED
      BY <1>1, <3>1, MinIn
  <2> QED
    BY <1>2, <2>1
<1> QED
  BY <1>3 DEF Max

\* Numbers at finitely many places have a greatest one, which max() by a key
\* finds: a least number of places without one would have one after all.
LEMMA GreatestAmong ==
    ASSUME NEW n \in Nat, NEW f \in [1 .. n -> Nat], NEW S \in SUBSET (1 .. n), S # {}
    PROVE  \E i \in S : \A j \in S : f[j] <= f[i]
<1> DEFINE Greatest(g, T) == \E i \in T : \A j \in T : g[j] <= g[i]
           Bad == {m \in Nat : \E g \in [1 .. m -> Nat], T \in SUBSET (1 .. m) :
                                  T # {} /\ ~Greatest(g, T)}
<1>1. SUFFICES ASSUME Bad # {} PROVE FALSE
  <2>1. n \notin Bad
    BY <1>1
  <2> QED
    BY <2>1
<1>2. Min(Bad) \in Bad /\ \A m \in Bad : Min(Bad) <= m
  <2>1. Bad \in SUBSET Nat
    OBVIOUS
  <2> HIDE DEF Bad
  <2> QED
    BY <1>1, <2>1, MinIn
<1> DEFINE m == Min(Bad)
<1> HIDE DEF m
<1>3. m \in Bad /\ \A k \in Bad : m <= k
  BY <1>2 DEF m
<1>4. PICK g \in [1 .. m -> Nat], T \in SUBSET (1 .. m) : T # {} /\ ~Greatest(g, T)
  BY <1>3
<1>5. m \in Nat /\ m # 0
  <2>1. m \in Nat
    BY <1>3
  <2>2. m # 0
    <3>1. CASE m = 0
      <4>1. 1 .. m = {}
        BY <3>1
      <4>2. T = {}
        BY <1>4, <4>1
      <4> QED
        BY <1>4, <4>2
    <3> QED
      BY <3>1
  <2> QED
    BY <2>1, <2>2
<1>6. CASE T \ {m} = {}
  <2>1. T = {m}
    BY <1>4, <1>6
  <2>2. g[m] <= g[m]
    BY <1>4, <1>5
  <2> QED
    BY <1>4, <2>1, <2>2
<1>7. CASE T \ {m} # {}
  <2> DEFINE h == [i \in 1 .. (m - 1) |-> g[i]]
             U == T \ {m}
  <2>1. m - 1 \in Nat /\ h \in [1 .. (m - 1) -> Nat] /\ U \in SUBSET (1 .. (m - 1))
    BY <1>5
  <2>2. m - 1 \notin Bad
    <3> HIDE DEF Bad
    <3>1. ~(m <= m - 1)
      BY <1>5
    <3> QED
      BY <1>3, <3>1
  <2>3. Greatest(h, U)
    BY <1>7, <2>1, <2>2
  <2>4. PICK i \in U : \A j \in U : h[j] <= h[i]
    BY <2>3
  <2>5. \A j \in U : g[j] <= g[i]
    BY <2>1, <2>4
  <2>6. CASE m \in T /\ g[i] <= g[m]
    <3>1. \A j \in T : g[j] <= g[m]
      <4> TAKE j \in T
      <4>1. g[j] \in Nat /\ g[i] \in Nat /\ g[m] \in Nat
        BY <1>5, <2>1
      <4>2. CASE j = m
        BY <4>1, <4>2
      <4>3. CASE j # m
        BY <2>5, <2>6, <4>1, <4>3
      <4> QED
        BY <4>2, <4>3
    <3> QED
      BY <1>4, <2>6, <3>1
  <2>7. CASE ~(m \in T /\ g[i] <= g[m])
    <3>1. \A j \in T : g[j] <= g[i]
      <4> TAKE j \in T
      <4>1. g[j] \in Nat /\ g[i] \in Nat
        BY <2>1
      <4>2. CASE j = m
        BY <2>7, <4>1, <4>2
      <4>3. CASE j # m
        BY <2>5, <4>3
      <4> QED
        BY <4>2, <4>3
    <3> QED
      BY <1>4, <3>1
  <2> QED
    BY <2>6, <2>7
<1> QED
  BY <1>6, <1>7
=============================================================================
