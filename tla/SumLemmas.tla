------------------------------ MODULE SumLemmas ------------------------------
(***************************************************************************)
(* Sums of a function over a finite set (SumFunctionOnSet of the community *)
(* modules), which are a recursive function on the subsets of that set.    *)
(* Induction is by a minimal counterexample, which needs no theorem with   *)
(* an operator for a parameter.                                            *)
(***************************************************************************)
EXTENDS Integers, FiniteSets, Functions, FiniteSetTheorems, WellFoundedInduction, TLAPS

\* A set of finite sets has a member that contains no other member.
LEMMA MinimalSet ==
  ASSUME NEW S, IsFiniteSet(S), NEW T \in SUBSET SUBSET S, T # {}
  PROVE  \E s \in T : IsFiniteSet(s) /\ \A t \in T : t \subseteq s => t = s
<1>1. IsWellFoundedOn(StrictSubsetOrdering(S), SUBSET S)
  BY FS_StrictSubsetOrderingWellFounded, FS_FiniteSubsetsOfFinite
<1>2. \E s \in T : \A t \in T : <<t, s>> \notin StrictSubsetOrdering(S)
  BY <1>1, WFMin
<1>3. PICK s \in T : \A t \in T : <<t, s>> \notin StrictSubsetOrdering(S)
  BY <1>2
<1>4. ASSUME NEW t \in T, t \subseteq s PROVE t = s
  BY <1>3, <1>4 DEF StrictSubsetOrdering
<1>5. IsFiniteSet(s)
  BY FS_Subset
<1> QED
  BY <1>4, <1>5

\* A set of naturals has a least element.
LEMMA LeastNatural ==
  ASSUME NEW T \in SUBSET Nat, T # {}
  PROVE  \E n \in T : \A m \in T : n <= m
<1> DEFINE R == {p \in Nat \X Nat : p[1] < p[2]}
<1>1. IsWellFoundedOn(R, Nat)
  BY NatLessThanWellFounded DEF OpToRel
<1> HIDE DEF R
<1>2. PICK n \in T : \A m \in T : <<m, n>> \notin R
  BY <1>1, WFMin
<1>3. ASSUME NEW m \in T PROVE n <= m
  <2>1. <<m, n>> \in R <=> m < n
    BY DEF R
  <2> QED
    BY <1>2, <2>1
<1> QED
  BY <1>3

Pick(s) == CHOOSE x \in s : TRUE

\* The values of h on the subsets of S are the sums of f over them.
Sums(h, f, S) ==
  h = [s \in SUBSET S |-> IF s = {} THEN 0 ELSE f[Pick(s)] + h[s \ {Pick(s)}]]

LEMMA Picked == \A s : s # {} => Pick(s) \in s
BY DEF Pick

LEMMA SumsAt ==
  ASSUME NEW h, NEW f, NEW S, Sums(h, f, S), NEW s \in SUBSET S
  PROVE  h[s] = IF s = {} THEN 0 ELSE f[Pick(s)] + h[s \ {Pick(s)}]
BY Zenon DEF Sums

LEMMA SumsAgree ==
  ASSUME NEW f, NEW S, IsFiniteSet(S), NEW g, NEW h, NEW U \in SUBSET S, NEW V \in SUBSET S,
         Sums(g, f, U), Sums(h, f, V), NEW s \in SUBSET (U \cap V)
  PROVE  g[s] = h[s]
<1> DEFINE T == {t \in SUBSET (U \cap V) : g[t] # h[t]}
<1> SUFFICES ASSUME T # {} PROVE FALSE
  OBVIOUS
<1>1. T \in SUBSET SUBSET S
  OBVIOUS
<1> HIDE DEF T
<1>2. PICK t \in T : \A u \in T : u \subseteq t => u = t
  BY <1>1, MinimalSet
<1>3. t \in SUBSET U /\ t \in SUBSET V /\ t \in SUBSET (U \cap V) /\ g[t] # h[t]
  BY DEF T
<1>4. t # {} => Pick(t) \in t
  BY Picked
<1>5. t # {} => g[t \ {Pick(t)}] = h[t \ {Pick(t)}]
  BY <1>2, <1>3, <1>4 DEF T
<1>6. g[t] = IF t = {} THEN 0 ELSE f[Pick(t)] + g[t \ {Pick(t)}]
  BY <1>3, SumsAt
<1>7. h[t] = IF t = {} THEN 0 ELSE f[Pick(t)] + h[t \ {Pick(t)}]
  BY <1>3, SumsAt
<1>8. g[t] = h[t]
  BY <1>5, <1>6, <1>7
<1> QED
  BY <1>3, <1>8

LEMMA SumsNested ==
  ASSUME NEW f, NEW S, IsFiniteSet(S), NEW g, NEW k, NEW u \in SUBSET S, NEW v \in SUBSET u,
         Sums(g, f, u), Sums(k, f, v)
  PROVE  g[v] = k[v]
<1>1. v \in SUBSET S /\ v \in SUBSET (u \cap v)
  OBVIOUS
<1> QED
  BY <1>1, SumsAgree

LEMMA SumsExist ==
  ASSUME NEW f, NEW S, IsFiniteSet(S)
  PROVE  \E h : Sums(h, f, S)
<1> DEFINE T == {s \in SUBSET S : ~\E h : Sums(h, f, s)}
<1> SUFFICES ASSUME T # {} PROVE FALSE
  OBVIOUS
<1>1. T \in SUBSET SUBSET S
  OBVIOUS
<1> HIDE DEF T
<1>2. PICK s \in T : \A t \in T : t \subseteq s => t = s
  BY <1>1, MinimalSet
<1>3. s \in SUBSET S /\ ~\E h : Sums(h, f, s)
  BY DEF T
<1>4. \A t \in SUBSET s : t # s => \E h : Sums(h, f, t)
  BY <1>2, <1>3 DEF T
<1> DEFINE G == [t \in SUBSET s |-> CHOOSE h : Sums(h, f, t)]
           h == [t \in SUBSET s |-> IF t = {} THEN 0
                                    ELSE f[Pick(t)] + G[t \ {Pick(t)}][t \ {Pick(t)}]]
<1>5. \A t \in SUBSET s : t # s => Sums(G[t], f, t)
  BY <1>4
<1>6. ASSUME NEW t \in SUBSET s, t # {}
      PROVE  h[t \ {Pick(t)}] = G[t \ {Pick(t)}][t \ {Pick(t)}]
  <2> DEFINE u == t \ {Pick(t)}
             v == u \ {Pick(u)}
  <2>1. Pick(t) \in t /\ u \in SUBSET s /\ u # s
    BY <1>6, Picked
  <2>2. Sums(G[u], f, u) /\ u \in SUBSET S
    BY <1>3, <1>5, <2>1
  <2> DEFINE g == G[u]
  <2>3. G[u][u] = IF u = {} THEN 0 ELSE f[Pick(u)] + G[u][v]
    <3> HIDE DEF G, h, u, g
    <3>1. Sums(g, f, u) /\ u \in SUBSET u
      BY <2>2 DEF g
    <3>2. g[u] = IF u = {} THEN 0 ELSE f[Pick(u)] + g[u \ {Pick(u)}]
      BY <3>1, SumsAt
    <3> QED
      BY <3>2 DEF g
  <2>4. h[u] = IF u = {} THEN 0 ELSE f[Pick(u)] + G[v][v]
    BY <2>1
  <2>5. ASSUME u # {} PROVE G[u][v] = G[v][v]
    <3>1. Pick(u) \in u /\ v \in SUBSET s /\ v # s /\ v \in SUBSET S /\ v \in SUBSET (u \cap v)
      BY <1>3, <2>1, <2>5, Picked
    <3>2. Sums(G[v], f, v)
      BY <1>5, <3>1
    <3>3. v \in SUBSET u
      OBVIOUS
    <3>4. \A a, b : Sums(a, f, u) /\ Sums(b, f, v) => a[v] = b[v]
      <4> HIDE DEF G, h, T, u, v, g
      <4> QED
        BY <2>2, <3>3, SumsNested
    <3> HIDE DEF G, h, T, u, v, g
    <3> QED
      BY <2>2, <3>2, <3>4
  <2> HIDE DEF G, h, v, g
  <2> QED
    BY <2>3, <2>4, <2>5
<1>7. h = [t \in SUBSET s |-> IF t = {} THEN 0 ELSE f[Pick(t)] + h[t \ {Pick(t)}]]
  <2> DEFINE k == [t \in SUBSET s |-> IF t = {} THEN 0 ELSE f[Pick(t)] + h[t \ {Pick(t)}]]
  <2>1. \A t \in SUBSET s : h[t] = k[t]
    <3>1. \A t \in SUBSET s : h[t] = IF t = {} THEN 0 ELSE f[Pick(t)] + G[t \ {Pick(t)}][t \ {Pick(t)}]
      OBVIOUS
    <3>2. \A t \in SUBSET s : k[t] = IF t = {} THEN 0 ELSE f[Pick(t)] + h[t \ {Pick(t)}]
      BY DEF k
    <3> HIDE DEF G, h, k
    <3> QED
      BY <1>6, <3>1, <3>2
  <2>2. h = [t \in SUBSET s |-> h[t]]
    OBVIOUS
  <2>3. k = [t \in SUBSET s |-> k[t]]
    OBVIOUS
  <2>4. h = k
    <3> HIDE DEF G, h, k
    <3> QED
      BY <2>1, <2>2, <2>3
  <2> QED
    BY <2>4
<1> HIDE DEF h, G
<1>8. Sums(h, f, s)
  BY <1>7, Zenon DEF Sums
<1> QED
  BY <1>3, <1>8

\* The library's sum is such a function's value.
LEMMA SumIsSums ==
  ASSUME NEW f, NEW S, IsFiniteSet(S)
  PROVE  \E h : Sums(h, f, S) /\ SumFunctionOnSet(f, S) = h[S]
<1> DEFINE h == CHOOSE h : Sums(h, f, S)
<1>1. Sums(h, f, S)
  BY SumsExist
<1>2. SumFunctionOnSet(f, S) = h[S]
  BY DEF SumFunctionOnSet, FoldFunctionOnSet, MapThenFoldSet, Sums, Pick
<1> QED
  BY <1>1, <1>2

\* The sum of values each of which is c or nothing is c times their number.
LEMMA SumOfEqual ==
  ASSUME NEW f, NEW S, IsFiniteSet(S), NEW c \in Nat, c > 0, \A x \in S : f[x] \in {0, c}
  PROVE  SumFunctionOnSet(f, S) = c * Cardinality({x \in S : f[x] > 0})
<1>1. PICK h : Sums(h, f, S) /\ SumFunctionOnSet(f, S) = h[S]
  BY SumIsSums
<1> DEFINE P(s) == {x \in s : f[x] > 0}
           T == {s \in SUBSET S : h[s] # c * Cardinality(P(s))}
<1>2. SUFFICES T = {}
  BY <1>1
<1>3. SUFFICES ASSUME T # {} PROVE FALSE
  OBVIOUS
<1>4. T \in SUBSET SUBSET S
  OBVIOUS
<1> HIDE DEF T
<1>5. PICK s \in T : IsFiniteSet(s) /\ \A t \in T : t \subseteq s => t = s
  BY <1>3, <1>4, MinimalSet
<1>6. s \in SUBSET S /\ h[s] # c * Cardinality(P(s))
  BY <1>5 DEF T
<1>7. h[s] = IF s = {} THEN 0 ELSE f[Pick(s)] + h[s \ {Pick(s)}]
  BY <1>1, <1>6, SumsAt
<1>8. CASE s = {}
  <2>1. P(s) = {}
    BY <1>8
  <2>2. Cardinality(P(s)) = 0
    BY <2>1, FS_EmptySet
  <2> QED
    BY <1>6, <1>7, <1>8, <2>2
<1>9. CASE s # {}
  <2> DEFINE x == Pick(s)
             t == s \ {Pick(s)}
  <2>1. x \in s /\ x \in S /\ f[x] \in {0, c}
    BY <1>6, <1>9, Picked
  <2>2. t \in SUBSET S /\ t # s /\ t \subseteq s
    BY <1>6, <2>1
  <2>3. h[t] = c * Cardinality(P(t))
    BY <1>5, <2>2 DEF T
  <2>4. IsFiniteSet(P(t))
    BY <1>5, FS_Subset
  <2>5. Cardinality(P(t)) \in Nat
    BY <2>4, FS_CardinalityType
  <2>6. CASE f[x] = 0
    <3>1. P(s) = P(t)
      BY <2>6
    <3>2. \A n \in Nat : 0 + c * n = c * n
      OBVIOUS
    <3>3. h[s] = 0 + c * Cardinality(P(t))
      BY <1>7, <1>9, <2>3, <2>6
    <3>4. h[s] = c * Cardinality(P(t))
      BY <2>5, <3>2, <3>3
    <3> QED
      BY <1>6, <3>1, <3>4
  <2>7. CASE f[x] = c
    <3>1. P(s) = P(t) \cup {x} /\ x \notin P(t)
      BY <2>1, <2>7
    <3>2. Cardinality(P(s)) = Cardinality(P(t)) + 1
      BY <2>4, <3>1, FS_AddElement
    <3>3. \A n \in Nat : c * (n + 1) = c + c * n
      OBVIOUS
    <3>4. h[s] = c + c * Cardinality(P(t))
      BY <1>7, <1>9, <2>3, <2>7
    <3> QED
      BY <1>6, <2>5, <3>2, <3>3, <3>4
  <2> QED
    BY <2>1, <2>6, <2>7
<1> QED
  BY <1>8, <1>9

(* The values of such a function are the library's sums.                   *)
LEMMA SumsAre ==
  ASSUME NEW f, NEW S, IsFiniteSet(S), NEW h, Sums(h, f, S), NEW s \in SUBSET S
  PROVE  SumFunctionOnSet(f, s) = h[s]
<1>1. IsFiniteSet(s) BY FS_Subset
<1>2. PICK g : Sums(g, f, s) /\ SumFunctionOnSet(f, s) = g[s] BY <1>1, SumIsSums
<1>3. S \in SUBSET S /\ s \in SUBSET (S \cap s) OBVIOUS
<1>4. h[s] = g[s] BY <1>2, <1>3, SumsAgree
<1> QED BY <1>2, <1>4

LEMMA SumOfNone ==
  ASSUME NEW f
  PROVE  SumFunctionOnSet(f, {}) = 0
<1>1. IsFiniteSet({}) BY FS_EmptySet
<1>2. PICK h : Sums(h, f, {}) /\ SumFunctionOnSet(f, {}) = h[{}] BY <1>1, SumIsSums
<1>3. h[{}] = 0 BY <1>2, SumsAt
<1> QED BY <1>2, <1>3

LEMMA SumType ==
  ASSUME NEW f, NEW S, IsFiniteSet(S), \A x \in S : f[x] \in Nat
  PROVE  SumFunctionOnSet(f, S) \in Nat
<1>1. PICK h : Sums(h, f, S) /\ SumFunctionOnSet(f, S) = h[S] BY SumIsSums
<1> DEFINE T == {s \in SUBSET S : h[s] \notin Nat}
<1> SUFFICES ASSUME T # {} PROVE FALSE BY <1>1
<1>2. T \in SUBSET SUBSET S OBVIOUS
<1> HIDE DEF T
<1>3. PICK s \in T : \A t \in T : t \subseteq s => t = s BY <1>2, MinimalSet
<1>4. s \in SUBSET S /\ h[s] \notin Nat BY <1>3 DEF T
<1>5. h[s] = IF s = {} THEN 0 ELSE f[Pick(s)] + h[s \ {Pick(s)}] BY <1>1, <1>4, SumsAt
<1>6. s # {} BY <1>4, <1>5
<1>7. Pick(s) \in s BY <1>6, Picked
<1>8. s \ {Pick(s)} \in SUBSET S /\ s \ {Pick(s)} # s BY <1>4, <1>7
<1>9. h[s \ {Pick(s)}] \in Nat BY <1>3, <1>8 DEF T
<1>10. f[Pick(s)] \in Nat BY <1>4, <1>7
<1> QED BY <1>4, <1>5, <1>6, <1>9, <1>10

(* The sum depends on the values in the set only.                          *)
LEMMA SumSame ==
  ASSUME NEW f, NEW g, NEW S, IsFiniteSet(S), \A x \in S : f[x] = g[x]
  PROVE  SumFunctionOnSet(f, S) = SumFunctionOnSet(g, S)
<1>1. PICK h : Sums(h, f, S) /\ SumFunctionOnSet(f, S) = h[S] BY SumIsSums
<1>2. PICK k : Sums(k, g, S) /\ SumFunctionOnSet(g, S) = k[S] BY SumIsSums
<1> DEFINE T == {s \in SUBSET S : h[s] # k[s]}
<1> SUFFICES ASSUME T # {} PROVE FALSE BY <1>1, <1>2
<1>3. T \in SUBSET SUBSET S OBVIOUS
<1> HIDE DEF T
<1>4. PICK s \in T : \A t \in T : t \subseteq s => t = s BY <1>3, MinimalSet
<1>5. s \in SUBSET S /\ h[s] # k[s] BY <1>4 DEF T
<1>6. h[s] = IF s = {} THEN 0 ELSE f[Pick(s)] + h[s \ {Pick(s)}] BY <1>1, <1>5, SumsAt
<1>7. k[s] = IF s = {} THEN 0 ELSE g[Pick(s)] + k[s \ {Pick(s)}]
  <2>1. Sums(k, g, S) /\ s \in SUBSET S BY <1>2, <1>5
  <2> QED BY ONLY <2>1, SumsAt
<1>8. s # {} BY <1>5, <1>6, <1>7
<1>9. Pick(s) \in s BY <1>8, Picked
<1>10. s \ {Pick(s)} \in SUBSET S /\ s \ {Pick(s)} # s BY <1>5, <1>9
<1>11. h[s \ {Pick(s)}] = k[s \ {Pick(s)}] BY <1>4, <1>10 DEF T
<1>12. f[Pick(s)] = g[Pick(s)] BY <1>5, <1>9
<1> QED BY <1>5, <1>6, <1>7, <1>8, <1>11, <1>12

(* Any element may be taken out first.                                     *)
LEMMA SumTakes ==
  ASSUME NEW f, NEW S, IsFiniteSet(S), \A x \in S : f[x] \in Nat, NEW x \in S
  PROVE  SumFunctionOnSet(f, S) = f[x] + SumFunctionOnSet(f, S \ {x})
<1>1. PICK h : Sums(h, f, S) BY SumIsSums
<1> DEFINE T == {s \in SUBSET S : \E y \in s : h[s] # f[y] + h[s \ {y}]}
<1>2. \A s \in SUBSET S : SumFunctionOnSet(f, s) = h[s] BY <1>1, SumsAre
<1>3. \A s \in SUBSET S : h[s] \in Nat
  <2> SUFFICES ASSUME NEW s \in SUBSET S PROVE h[s] \in Nat OBVIOUS
  <2>1. IsFiniteSet(s) /\ \A y \in s : f[y] \in Nat BY FS_Subset
  <2>2. SumFunctionOnSet(f, s) \in Nat BY <2>1, SumType
  <2> QED BY <1>2, <2>2
<1>4. SUFFICES T = {}
  <2>1. S \in SUBSET S /\ S \notin T BY <1>4
  <2>2. h[S] = f[x] + h[S \ {x}] BY <2>1
  <2>3. S \ {x} \in SUBSET S OBVIOUS
  <2> HIDE DEF T
  <2> QED BY <1>2, <2>1, <2>2, <2>3
<1>5. SUFFICES ASSUME T # {} PROVE FALSE OBVIOUS
<1>6. T \in SUBSET SUBSET S OBVIOUS
<1> HIDE DEF T
<1>7. PICK s \in T : \A t \in T : t \subseteq s => t = s BY <1>5, <1>6, MinimalSet
<1>8. s \in SUBSET S BY <1>7 DEF T
<1>9. PICK y \in s : h[s] # f[y] + h[s \ {y}] BY <1>7 DEF T
<1>10. PICK z : z = Pick(s) OBVIOUS
<1>11. z \in s BY <1>9, <1>10, Picked
<1>12. h[s] = f[z] + h[s \ {z}] BY <1>1, <1>8, <1>9, <1>10, SumsAt
<1>13. y # z BY <1>9, <1>12
<1>14. s \ {y} \in SUBSET S /\ s \ {z} \in SUBSET S /\ (s \ {y}) \ {z} \in SUBSET S
       /\ (s \ {z}) \ {y} = (s \ {y}) \ {z} /\ y \in s \ {z} /\ z \in s \ {y}
       /\ s \ {y} # s /\ s \ {z} # s
  BY <1>8, <1>11, <1>13
<1>15. h[s \ {z}] = f[y] + h[(s \ {y}) \ {z}]
  <2>1. s \ {z} \notin T BY <1>7, <1>14
  <2> QED BY <1>14, <2>1 DEF T
<1>16. h[s \ {y}] = f[z] + h[(s \ {y}) \ {z}]
  <2>1. s \ {y} \notin T BY <1>7, <1>14
  <2> QED BY <1>14, <2>1 DEF T
<1>17. f[y] \in Nat /\ f[z] \in Nat /\ h[(s \ {y}) \ {z}] \in Nat BY <1>3, <1>8, <1>11, <1>14
<1> QED BY <1>9, <1>12, <1>15, <1>16, <1>17

(* One more element.                                                       *)
LEMMA SumAdd ==
  ASSUME NEW f, NEW S, IsFiniteSet(S), NEW x, x \notin S, \A y \in S \cup {x} : f[y] \in Nat
  PROVE  SumFunctionOnSet(f, S \cup {x}) = f[x] + SumFunctionOnSet(f, S)
<1> PICK T : T = S \cup {x} OBVIOUS
<1>1. IsFiniteSet(T) BY FS_AddElement
<1>2. x \in T /\ T \ {x} = S OBVIOUS
<1> QED BY <1>1, <1>2, SumTakes

(* The sum over a part is not larger.                                      *)
LEMMA SumPart ==
  ASSUME NEW f, NEW S, IsFiniteSet(S), \A x \in S : f[x] \in Nat, NEW U \in SUBSET S
  PROVE  SumFunctionOnSet(f, U) <= SumFunctionOnSet(f, S)
<1> DEFINE T == {V \in SUBSET S : U \subseteq V /\ ~(SumFunctionOnSet(f, U) <= SumFunctionOnSet(f, V))}
<1> SUFFICES ASSUME T # {} PROVE FALSE OBVIOUS
<1>1. T \in SUBSET SUBSET S OBVIOUS
<1> HIDE DEF T
<1>2. PICK V \in T : \A W \in T : W \subseteq V => W = V BY <1>1, MinimalSet
<1>3. V \in SUBSET S /\ U \subseteq V /\ ~(SumFunctionOnSet(f, U) <= SumFunctionOnSet(f, V))
  BY <1>2 DEF T
<1>4. \A W \in SUBSET S : IsFiniteSet(W) /\ SumFunctionOnSet(f, W) \in Nat
  <2> SUFFICES ASSUME NEW W \in SUBSET S PROVE IsFiniteSet(W) /\ SumFunctionOnSet(f, W) \in Nat
    OBVIOUS
  <2>1. IsFiniteSet(W) /\ \A y \in W : f[y] \in Nat BY FS_Subset
  <2> QED BY <2>1, SumType
<1>5. U # V BY <1>3, <1>4
<1>6. PICK x \in V : x \notin U BY <1>3, <1>5
<1>7. V \ {x} \in SUBSET S /\ U \subseteq V \ {x} /\ V \ {x} # V BY <1>3, <1>6
<1>8. SumFunctionOnSet(f, U) <= SumFunctionOnSet(f, V \ {x}) BY <1>2, <1>7 DEF T
<1>9. SumFunctionOnSet(f, V) = f[x] + SumFunctionOnSet(f, V \ {x})
  <2>1. IsFiniteSet(V) /\ \A y \in V : f[y] \in Nat BY <1>3, <1>4
  <2> QED BY <2>1, SumTakes
<1>10. f[x] \in Nat BY <1>3
<1> QED BY <1>3, <1>4, <1>7, <1>8, <1>9, <1>10
==============================================================================
