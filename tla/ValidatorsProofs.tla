-------------------------- MODULE ValidatorsProofs --------------------------
(***************************************************************************)
(* Proofs about Validators: that validatorTree and the sets of Tendermint  *)
(* agree through rewards, leaks, stakes, releases and punishments, for any *)
(* set of keys, any powers and any leak.                                   *)
(***************************************************************************)
EXTENDS Validators, FiniteSetTheorems, TLAPS

-----------------------------------------------------------------------------
(***************************************************************************)
(* Sums over finite sets.  The library's fold takes the elements out in an  *)
(* order of its own; what is shown here is that the order does not matter.  *)
(***************************************************************************)
SumOver(f, S) == MapThenSumSet(LAMBDA k : f[k], S)

\* g is the sum of f over the subsets of S, an element at a time.
SumsUp(f, S, g) ==
    g = [s \in SUBSET S |->
           IF s = {} THEN 0
           ELSE f[CHOOSE x \in s : TRUE] + g[s \ {CHOOSE x \in s : TRUE}]]

\* Of finite sets, one has no more elements than the others.
LEMMA Smallest ==
    ASSUME NEW S, \A s \in S : IsFiniteSet(s), S # {}
    PROVE  \E s \in S : \A t \in S : Cardinality(s) <= Cardinality(t)
<1> DEFINE T == {Cardinality(s) : s \in S}
<1>1. T \subseteq Nat /\ T # {}
  BY FS_CardinalityType
<1>2. PICK n \in T : \A m \in T : <<m, n>> \notin OpToRel(<, Nat)
  BY <1>1, NatLessThanWellFounded, WFMin
<1>3. \A m \in T : ~(m < n)
  BY <1>1, <1>2 DEF OpToRel
<1>4. PICK s \in S : n = Cardinality(s)
  OBVIOUS
<1>5. \A t \in S : Cardinality(s) <= Cardinality(t)
  BY <1>1, <1>3, <1>4
<1> QED
  BY <1>5

\* The fold is such a sum, if there is one.
LEMMA SumDef ==
    ASSUME NEW f, NEW S, \E g : SumsUp(f, S, g)
    PROVE  \E g : SumsUp(f, S, g) /\ SumOver(f, S) = g[S]
<1> DEFINE h == CHOOSE g : SumsUp(f, S, g)
<1>1. SumsUp(f, S, h)
  OBVIOUS
<1>2. SumOver(f, S) = h[S]
  BY DEF SumOver, MapThenSumSet, MapThenFoldSet, SumsUp
<1> QED
  BY <1>1, <1>2

\* The subsets of S have one sum each: of what f is on them.
LEMMA SumsUnique ==
    ASSUME NEW f, NEW S, NEW g, SumsUp(f, S, g), NEW e, NEW T, NEW h, SumsUp(e, T, h),
           NEW s, IsFiniteSet(s), s \subseteq S, s \subseteq T, \A x \in s : f[x] = e[x]
    PROVE  g[s] = h[s]
<1> DEFINE Bad == {t \in SUBSET s : g[t] # h[t]}
<1>1. SUFFICES ASSUME Bad # {} PROVE FALSE
  OBVIOUS
<1>2. \A t \in Bad : IsFiniteSet(t)
  BY FS_Subset
<1>3. PICK t \in Bad : \A u \in Bad : Cardinality(t) <= Cardinality(u)
  BY <1>1, <1>2, Smallest
<1>4. t # {}
  <2>1. {} \in SUBSET S /\ {} \in SUBSET T
    OBVIOUS
  <2>2. g[{}] = 0 /\ h[{}] = 0
    BY <2>1 DEF SumsUp
  <2> QED
    BY <2>2
<1> DEFINE x == CHOOSE x \in t : TRUE
<1>5. x \in t /\ f[x] = e[x]
  BY <1>4
<1>6. g[t] = f[x] + g[t \ {x}] /\ h[t] = e[x] + h[t \ {x}]
  <2>1. t \in SUBSET S /\ t \in SUBSET T
    OBVIOUS
  <2> QED
    BY <1>4, <2>1 DEF SumsUp
<1>7. t \ {x} \notin Bad
  <2>1. IsFiniteSet(t) /\ Cardinality(t) \in Nat
    BY <1>2, FS_CardinalityType
  <2>2. Cardinality(t \ {x}) = Cardinality(t) - 1
    BY <1>5, <2>1, FS_RemoveElement
  <2> HIDE DEF Bad, x
  <2> QED
    BY <1>3, <2>1, <2>2
<1>8. g[t \ {x}] = h[t \ {x}]
  BY <1>5, <1>7
<1> QED
  BY <1>5, <1>6, <1>8

\* There is such a function for every finite set: by its greatest part of
\* subsets of at most n elements.
LEMMA SumsExist ==
    ASSUME NEW f, NEW S, IsFiniteSet(S), \A x \in S : f[x] \in Int
    PROVE  \E g \in [SUBSET S -> Int] : SumsUp(f, S, g)
<1> DEFINE N(n) == {s \in SUBSET S : Cardinality(s) <= n}
           pick(s) == CHOOSE x \in s : TRUE
           P(n) == \E g \in [N(n) -> Int] : \A s \in N(n) :
                     g[s] = IF s = {} THEN 0 ELSE f[pick(s)] + g[s \ {pick(s)}]
           Bad == {n \in Nat : ~P(n)}
<1>1. ASSUME NEW s \in SUBSET S
      PROVE  /\ Cardinality(s) \in Nat
             /\ s # {} => /\ Cardinality(s) # 0 /\ pick(s) \in s
                          /\ Cardinality(s \ {pick(s)}) = Cardinality(s) - 1
  <2>1. IsFiniteSet(s) /\ Cardinality(s) \in Nat
    BY FS_Subset, FS_CardinalityType
  <2>2. Cardinality(s) = 0 <=> s = {}
    BY <2>1, FS_EmptySet
  <2>3. ASSUME s # {} PROVE pick(s) \in s /\ Cardinality(s \ {pick(s)}) = Cardinality(s) - 1
    <3>1. pick(s) \in s
      BY <2>3
    <3> QED
      BY <2>1, <3>1, FS_RemoveElement
  <2> QED
    BY <2>1, <2>2, <2>3
<1> HIDE DEF pick
<1>2. P(0)
  <2> DEFINE g == [s \in N(0) |-> 0]
  <2>1. ASSUME NEW s \in N(0) PROVE s = {}
    <3>1. s \in SUBSET S /\ Cardinality(s) <= 0
      OBVIOUS
    <3>2. Cardinality(s) \in Nat /\ (s # {} => Cardinality(s) # 0)
      BY ONLY <1>1, <3>1
    <3> QED
      BY ONLY <3>1, <3>2
  <2>2. g \in [N(0) -> Int] /\ \A s \in N(0) : g[s] = 0
    OBVIOUS
  <2> QED
    BY <2>1, <2>2
<1>3. ASSUME NEW n \in Nat, P(n) PROVE P(n + 1)
  <2>1. PICK g \in [N(n) -> Int] : \A s \in N(n) :
            g[s] = IF s = {} THEN 0 ELSE f[pick(s)] + g[s \ {pick(s)}]
    BY <1>3
  <2> DEFINE h == [s \in N(n + 1) |-> IF s \in N(n) THEN g[s] ELSE f[pick(s)] + g[s \ {pick(s)}]]
  <2>2. \A s \in N(n + 1) : s \notin N(n) => (s # {} /\ s \ {pick(s)} \in N(n))
    <3> TAKE s \in N(n + 1)
    <3>1. s \in SUBSET S /\ s \ {pick(s)} \in SUBSET S /\ Cardinality(s) <= n + 1
      OBVIOUS
    <3>2. ASSUME s \notin N(n) PROVE s # {}
      <4>1. ~(Cardinality(s) <= n)
        BY <3>1, <3>2
      <4>2. Cardinality({}) = 0
        BY FS_EmptySet
      <4> QED
        BY <4>1, <4>2
    <3>3. ASSUME s # {} PROVE Cardinality(s \ {pick(s)}) <= n
      <4> HIDE DEF N
      <4> QED
        BY <1>1, <3>1, <3>3
    <3> QED
      BY <3>1, <3>2, <3>3
  <2>3. \A s \in N(n) : s # {} => s \ {pick(s)} \in N(n)
    <3> TAKE s \in N(n)
    <3>1. s \in SUBSET S /\ s \ {pick(s)} \in SUBSET S /\ Cardinality(s) <= n
      OBVIOUS
    <3>2. Cardinality(s) \in Nat /\ (s # {} => Cardinality(s \ {pick(s)}) = Cardinality(s) - 1)
      BY ONLY <1>1, <3>1
    <3>3. s # {} => Cardinality(s \ {pick(s)}) <= n
      BY ONLY <3>1, <3>2, n \in Nat
    <3> QED
      BY <3>1, <3>3
  <2>4. h \in [N(n + 1) -> Int]
    <3>1. \A s \in N(n + 1) : s # {} => f[pick(s)] \in Int
      BY <1>1
    <3> HIDE DEF N
    <3> QED
      BY <2>1, <2>2, <3>1
  <2>5. \A s \in N(n) : s \in N(n + 1) /\ h[s] = g[s]
    BY <1>1
  <2>6. ASSUME NEW s \in N(n + 1)
        PROVE  h[s] = IF s = {} THEN 0 ELSE f[pick(s)] + h[s \ {pick(s)}]
    <3> HIDE DEF N
    <3>1. h[s] = IF s \in N(n) THEN g[s] ELSE f[pick(s)] + g[s \ {pick(s)}]
      OBVIOUS
    <3> HIDE DEF h
    <3> QED
      BY <2>1, <2>2, <2>3, <2>5, <3>1
  <2> QED
    BY <2>4, <2>6
<1>4. Bad = {}
  <2>1. SUFFICES ASSUME Bad # {} PROVE FALSE
    OBVIOUS
  <2>2. PICK n \in Bad : \A m \in Bad : <<m, n>> \notin OpToRel(<, Nat)
    <3> HIDE DEF P
    <3> QED
      BY <2>1, NatLessThanWellFounded, WFMin
  <2> HIDE DEF P
  <2>3. n \in Nat /\ n # 0 /\ ~P(n)
    BY <1>2
  <2> HIDE DEF Bad
  <2>4. n - 1 \in Nat /\ ~P(n - 1)
    <3>1. n - 1 \in Nat
      BY <2>3
    <3>2. P(n - 1) => P(n - 1 + 1)
      BY <1>3, <3>1
    <3>3. n - 1 + 1 = n
      BY <2>3
    <3> QED
      BY <2>3, <3>1, <3>2, <3>3
  <2>5. n - 1 \in Bad
    BY <2>4 DEF Bad
  <2>6. <<n - 1, n>> \in OpToRel(<, Nat)
    BY <2>3, <2>4 DEF OpToRel
  <2> QED
    BY <2>2, <2>5, <2>6
<1>5. P(Cardinality(S))
  BY <1>1, <1>4
<1>6. N(Cardinality(S)) = SUBSET S
  BY FS_Subset
<1>7. PICK g \in [SUBSET S -> Int] : \A s \in SUBSET S :
            g[s] = IF s = {} THEN 0 ELSE f[pick(s)] + g[s \ {pick(s)}]
  BY <1>5, <1>6
<1>8. SumsUp(f, S, g)
  BY <1>7 DEF SumsUp, pick
<1> QED
  BY <1>8

\* Any element may be taken out first.
LEMMA SumsAnyOrder ==
    ASSUME NEW f, NEW S, IsFiniteSet(S), NEW g, SumsUp(f, S, g),
           \A s \in SUBSET S : g[s] \in Int, \A x \in S : f[x] \in Int
    PROVE  \A s \in SUBSET S : \A y \in s : g[s] = f[y] + g[s \ {y}]
<1> DEFINE Bad == {s \in SUBSET S : \E y \in s : g[s] # f[y] + g[s \ {y}]}
<1>1. SUFFICES ASSUME Bad # {} PROVE FALSE
  OBVIOUS
<1>2. \A t \in Bad : IsFiniteSet(t)
  BY FS_Subset
<1>3. PICK s \in Bad : \A u \in Bad : Cardinality(s) <= Cardinality(u)
  BY <1>1, <1>2, Smallest
<1>4. PICK y \in s : g[s] # f[y] + g[s \ {y}]
  OBVIOUS
<1> DEFINE x == CHOOSE x \in s : TRUE
<1>5. x \in s
  BY <1>4
<1>6. g[s] = f[x] + g[s \ {x}]
  BY <1>5 DEF SumsUp
<1> HIDE DEF x
<1>7. x # y
  BY <1>4, <1>6
<1>8. s \ {x} \notin Bad /\ s \ {y} \notin Bad
  <2>1. IsFiniteSet(s) /\ Cardinality(s) \in Nat
    BY <1>2, FS_CardinalityType
  <2>2. Cardinality(s \ {x}) = Cardinality(s) - 1 /\ Cardinality(s \ {y}) = Cardinality(s) - 1
    BY <1>4, <1>5, <2>1, FS_RemoveElement
  <2> HIDE DEF Bad
  <2> QED
    BY <1>3, <2>1, <2>2
<1>9. /\ g[s \ {x}] = f[y] + g[(s \ {x}) \ {y}]
      /\ g[s \ {y}] = f[x] + g[(s \ {y}) \ {x}]
  BY <1>4, <1>5, <1>7, <1>8
<1>10. (s \ {x}) \ {y} = (s \ {y}) \ {x}
  OBVIOUS
<1>11. f[x] \in Int /\ f[y] \in Int /\ g[(s \ {y}) \ {x}] \in Int
  BY <1>4, <1>5
<1> HIDE DEF Bad
<1>12. g[s] = f[x] + (f[y] + g[(s \ {y}) \ {x}])
  BY ONLY <1>6, <1>9, <1>10
<1>13. f[y] + g[s \ {y}] = f[y] + (f[x] + g[(s \ {y}) \ {x}])
  BY ONLY <1>9
<1> QED
  BY ONLY <1>4, <1>11, <1>12, <1>13

\* What a sum is, without its order.
LEMMA SumRemove ==
    ASSUME NEW S, IsFiniteSet(S), NEW f, \A x \in S : f[x] \in Int
    PROVE  /\ SumOver(f, S) \in Int
           /\ S = {} => SumOver(f, S) = 0
           /\ \A y \in S : SumOver(f, S) = f[y] + SumOver(f, S \ {y})
<1>1. PICK g \in [SUBSET S -> Int] : SumsUp(f, S, g)
  BY SumsExist
<1>2. ASSUME NEW T, T \subseteq S PROVE SumOver(f, T) = g[T]
  <2>1. IsFiniteSet(T) /\ \A x \in T : f[x] \in Int
    BY <1>2, FS_Subset
  <2>2. \E h : SumsUp(f, T, h)
    BY <2>1, SumsExist
  <2>3. PICK h : SumsUp(f, T, h) /\ SumOver(f, T) = h[T]
    BY <2>2, SumDef
  <2> QED
    BY <1>1, <1>2, <2>1, <2>3, SumsUnique
<1>3. \A y \in S : g[S] = f[y] + g[S \ {y}]
  <2>1. S \in SUBSET S
    OBVIOUS
  <2>2. \A s \in SUBSET S : g[s] \in Int
    BY <1>1
  <2> QED
    BY <1>1, <2>1, <2>2, SumsAnyOrder
<1>4. S = {} => g[S] = 0
  BY <1>1 DEF SumsUp
<1> QED
  BY <1>1, <1>2, <1>3, <1>4

\* An element more.
LEMMA SumAdd ==
    ASSUME NEW S, IsFiniteSet(S), NEW y, y \notin S, NEW f, \A x \in S \cup {y} : f[x] \in Int
    PROVE  SumOver(f, S \cup {y}) = f[y] + SumOver(f, S)
<1>1. IsFiniteSet(S \cup {y}) /\ (S \cup {y}) \ {y} = S /\ y \in S \cup {y}
  BY FS_AddElement
<1>2. PICK T : T = S \cup {y}
  OBVIOUS
<1>3. SumOver(f, T) = f[y] + SumOver(f, T \ {y})
  BY <1>1, <1>2, SumRemove
<1> QED
  BY <1>1, <1>2, <1>3

\* Greater summands, greater sum.
LEMMA SumMonotone ==
    ASSUME NEW S, IsFiniteSet(S), NEW f, NEW e,
           \A x \in S : f[x] \in Int /\ e[x] \in Int /\ f[x] <= e[x]
    PROVE  SumOver(f, S) <= SumOver(e, S)
<1> DEFINE Bad == {T \in SUBSET S : ~(SumOver(f, T) <= SumOver(e, T))}
<1>1. SUFFICES ASSUME Bad # {} PROVE FALSE
  OBVIOUS
<1>2. \A T \in Bad : IsFiniteSet(T)
  BY FS_Subset
<1>3. PICK T \in Bad : \A U \in Bad : Cardinality(T) <= Cardinality(U)
  BY <1>1, <1>2, Smallest
<1>4. IsFiniteSet(T) /\ T \subseteq S /\ \A x \in T : f[x] \in Int /\ e[x] \in Int
  BY <1>2
<1>5. T # {}
  <2>1. IsFiniteSet({})
    BY FS_EmptySet
  <2>2. SumOver(f, {}) = 0 /\ SumOver(e, {}) = 0
    BY <2>1, SumRemove
  <2> QED
    BY <2>2
<1>6. PICK y \in T : TRUE
  BY <1>5
<1>7. Cardinality(T \ {y}) = Cardinality(T) - 1 /\ Cardinality(T) \in Nat /\ IsFiniteSet(T \ {y})
  BY <1>4, FS_RemoveElement, FS_CardinalityType
<1>8. T \ {y} \notin Bad
  <2> HIDE DEF Bad
  <2> QED
    BY <1>3, <1>7
<1>9. SumOver(f, T \ {y}) <= SumOver(e, T \ {y})
  BY <1>8
<1>10. /\ SumOver(f, T) = f[y] + SumOver(f, T \ {y}) /\ SumOver(e, T) = e[y] + SumOver(e, T \ {y})
       /\ SumOver(f, T \ {y}) \in Int /\ SumOver(e, T \ {y}) \in Int
  BY <1>4, <1>7, SumRemove
<1>11. f[y] \in Int /\ e[y] \in Int /\ f[y] <= e[y]
  BY <1>4
<1>12. SumOver(f, T) <= SumOver(e, T)
  BY ONLY <1>9, <1>10, <1>11
<1> QED
  BY <1>12

\* One summand may be greater by m.
LEMMA SumOneMore ==
    ASSUME NEW S, IsFiniteSet(S), NEW f, NEW e, NEW y, NEW m \in Nat,
           \A x \in S : f[x] \in Int /\ e[x] \in Int /\ f[x] <= e[x] + m,
           \A x \in S \ {y} : f[x] <= e[x]
    PROVE  SumOver(f, S) <= SumOver(e, S) + m
<1>1. SumOver(f, S) \in Int /\ SumOver(e, S) \in Int
  BY SumRemove
<1>2. CASE y \notin S
  <2>1. SumOver(f, S) <= SumOver(e, S)
    BY <1>2, SumMonotone
  <2> QED
    BY <1>1, <2>1
<1>3. CASE y \in S
  <2>1. IsFiniteSet(S \ {y})
    BY FS_RemoveElement
  <2>2. SumOver(f, S \ {y}) <= SumOver(e, S \ {y})
    BY <2>1, SumMonotone
  <2>3. /\ SumOver(f, S) = f[y] + SumOver(f, S \ {y}) /\ SumOver(e, S) = e[y] + SumOver(e, S \ {y})
        /\ SumOver(f, S \ {y}) \in Int /\ SumOver(e, S \ {y}) \in Int
    BY <1>3, <2>1, SumRemove
  <2>4. f[y] \in Int /\ e[y] \in Int /\ f[y] <= e[y] + m
    BY <1>3
  <2> QED
    BY ONLY <2>2, <2>3, <2>4, m \in Nat
<1> QED
  BY <1>2, <1>3

\* One element counts differently.
LEMMA SumChange ==
    ASSUME NEW S, IsFiniteSet(S), NEW f, NEW e, NEW y \in S,
           \A x \in S : f[x] \in Int /\ e[x] \in Int /\ (x # y => f[x] = e[x])
    PROVE  SumOver(f, S) = SumOver(e, S) + f[y] - e[y]
<1>1. IsFiniteSet(S \ {y})
  BY FS_RemoveElement
<1>2. /\ SumOver(f, S) = f[y] + SumOver(f, S \ {y}) /\ SumOver(e, S) = e[y] + SumOver(e, S \ {y})
      /\ SumOver(f, S \ {y}) \in Int /\ SumOver(e, S \ {y}) \in Int
  BY <1>1, SumRemove
<1>3. SumOver(f, S \ {y}) <= SumOver(e, S \ {y}) /\ SumOver(e, S \ {y}) <= SumOver(f, S \ {y})
  BY <1>1, SumMonotone
<1>4. f[y] \in Int /\ e[y] \in Int
  OBVIOUS
<1> QED
  BY ONLY <1>2, <1>3, <1>4

\* Equal summands, equal sum.
LEMMA SumAlike ==
    ASSUME NEW S, IsFiniteSet(S), NEW f, NEW e,
           \A x \in S : f[x] \in Int /\ e[x] \in Int /\ f[x] = e[x]
    PROVE  SumOver(f, S) = SumOver(e, S)
<1>1. SumOver(f, S) <= SumOver(e, S) /\ SumOver(e, S) <= SumOver(f, S)
  BY SumMonotone
<1>2. SumOver(f, S) \in Int /\ SumOver(e, S) \in Int
  BY SumRemove
<1> QED
  BY <1>1, <1>2

\* A sum of natural numbers is not 0 as soon as one of them is not.
LEMMA SumPositive ==
    ASSUME NEW S, IsFiniteSet(S), NEW f, \A x \in S : f[x] \in Nat
    PROVE  SumOver(f, S) > 0 <=> \E x \in S : f[x] > 0
<1> DEFINE z == [x \in S |-> 0]
           Bad == {T \in SUBSET S : SumOver(z, T) # 0}
<1>1. Bad = {}
  <2>1. SUFFICES ASSUME Bad # {} PROVE FALSE
    OBVIOUS
  <2>2. \A T \in Bad : IsFiniteSet(T)
    BY FS_Subset
  <2>3. PICK T \in Bad : \A U \in Bad : Cardinality(T) <= Cardinality(U)
    BY <2>1, <2>2, Smallest
  <2>4. IsFiniteSet(T) /\ T \subseteq S /\ SumOver(z, T) # 0 /\ \A x \in T : z[x] = 0
    BY <2>2
  <2>5. PICK y \in T : TRUE
    BY <2>4, SumRemove
  <2>6. Cardinality(T \ {y}) = Cardinality(T) - 1 /\ Cardinality(T) \in Nat
    BY <2>4, FS_RemoveElement, FS_CardinalityType
  <2>7. T \ {y} \notin Bad
    <3> HIDE DEF Bad
    <3> QED
      BY <2>3, <2>6
  <2>8. SumOver(z, T \ {y}) = 0
    BY <2>4, <2>7
  <2>9. SumOver(z, T) = z[y] + SumOver(z, T \ {y})
    BY <2>4, SumRemove
  <2> QED
    BY <2>4, <2>8, <2>9
<1>2. SumOver(z, S) = 0
  BY <1>1
<1>3. ASSUME \A x \in S : ~(f[x] > 0) PROVE SumOver(f, S) = 0
  <2>1. \A x \in S : f[x] \in Int /\ z[x] \in Int /\ f[x] = z[x]
    BY <1>3
  <2> HIDE DEF z
  <2> QED
    BY <1>2, <2>1, SumAlike
<1>4. ASSUME NEW y \in S, f[y] > 0 PROVE SumOver(f, S) > 0
  <2>1. IsFiniteSet(S \ {y})
    BY FS_RemoveElement
  <2>2. /\ SumOver(f, S) = f[y] + SumOver(f, S \ {y}) /\ SumOver(z, S) = z[y] + SumOver(z, S \ {y})
        /\ SumOver(f, S \ {y}) \in Int /\ SumOver(z, S \ {y}) \in Int
    BY <2>1, SumRemove
  <2>3. SumOver(z, S \ {y}) <= SumOver(f, S \ {y})
    BY <2>1, SumMonotone
  <2>4. z[y] = 0 /\ f[y] \in Int
    OBVIOUS
  <2> HIDE DEF z
  <2> QED
    BY ONLY <1>2, <1>4, <2>2, <2>3, <2>4
<1> QED
  BY <1>3, <1>4

\* The sum over two sets without a common element.
LEMMA SumUnion ==
    ASSUME NEW S, IsFiniteSet(S), NEW T, IsFiniteSet(T), S \cap T = {},
           NEW f, \A x \in S \cup T : f[x] \in Int
    PROVE  SumOver(f, S \cup T) = SumOver(f, S) + SumOver(f, T)
<1> DEFINE Bad == {U \in SUBSET T : SumOver(f, S \cup U) # SumOver(f, S) + SumOver(f, U)}
<1>1. SUFFICES ASSUME Bad # {} PROVE FALSE
  OBVIOUS
<1>2. \A U \in Bad : IsFiniteSet(U)
  BY FS_Subset
<1>3. PICK U \in Bad : \A V \in Bad : Cardinality(U) <= Cardinality(V)
  BY <1>1, <1>2, Smallest
<1>4. IsFiniteSet(U) /\ U \subseteq T
  BY <1>2
<1>5. U # {}
  <2>1. SumOver(f, {}) = 0
    BY FS_EmptySet, SumRemove
  <2>2. SumOver(f, S) \in Int /\ S \cup {} = S
    BY SumRemove
  <2>3. SumOver(f, S \cup {}) = SumOver(f, S) + SumOver(f, {})
    BY <2>1, <2>2
  <2> QED
    BY <2>3
<1>6. PICK y \in U : TRUE
  BY <1>5
<1> DEFINE V == U \ {y}
<1>7. Cardinality(V) = Cardinality(U) - 1 /\ Cardinality(U) \in Nat /\ IsFiniteSet(V)
  BY <1>4, FS_RemoveElement, FS_CardinalityType
<1>8. V \notin Bad
  <2> HIDE DEF Bad, V
  <2> QED
    BY <1>3, <1>7
<1>9. SumOver(f, S \cup V) = SumOver(f, S) + SumOver(f, V)
  BY <1>4, <1>8
<1>10. /\ U = V \cup {y} /\ y \notin V
       /\ S \cup U = (S \cup V) \cup {y} /\ y \notin S \cup V /\ IsFiniteSet(S \cup V)
  BY <1>4, <1>6, <1>7, FS_Union
<1>11. f[y] \in Int /\ (\A x \in V \cup {y} : f[x] \in Int) /\ \A x \in (S \cup V) \cup {y} : f[x] \in Int
  BY <1>4, <1>10
<1> HIDE DEF V
<1>12. SumOver(f, V \cup {y}) = f[y] + SumOver(f, V)
  BY <1>7, <1>10, <1>11, SumAdd
<1>13. SumOver(f, (S \cup V) \cup {y}) = f[y] + SumOver(f, S \cup V)
  BY <1>10, <1>11, SumAdd
<1>14. SumOver(f, S) \in Int /\ SumOver(f, V) \in Int
  BY <1>7, <1>11, SumRemove
<1>15. f[y] \in Int /\ SumOver(f, U) = f[y] + SumOver(f, V)
  BY <1>10, <1>11, <1>12
<1>16. SumOver(f, S \cup U) = f[y] + (SumOver(f, S) + SumOver(f, V))
  BY <1>9, <1>10, <1>13
<1>17. SumOver(f, S \cup U) = SumOver(f, S) + SumOver(f, U)
  BY ONLY <1>14, <1>15, <1>16
<1> QED
  BY <1>17

-----------------------------------------------------------------------------
(***************************************************************************)
(* Sequences of updates, and the last update of a key.                     *)
(***************************************************************************)
\* i is the place of the last update of k.
LastOf(updates, k, i) ==
    /\ i \in DOMAIN updates
    /\ updates[i].PubKey = k
    /\ \A j \in DOMAIN updates : j > i => updates[j].PubKey # k

\* A set of positions with a bound has a greatest one.
LEMMA Greatest ==
    ASSUME NEW n \in Nat, NEW S \in SUBSET (1 .. n), S # {}
    PROVE  \E i \in S : \A j \in S : j <= i
<1> DEFINE T == {n - i : i \in S}
<1>1. T \subseteq Nat /\ T # {}
  <2>1. \A i \in S : n - i \in Nat
    OBVIOUS
  <2> QED
    BY ONLY <2>1, S # {}
<1>2. PICK x \in T : \A y \in T : <<y, x>> \notin OpToRel(<, Nat)
  BY <1>1, NatLessThanWellFounded, WFMin
<1>3. \A y \in T : ~(y < x)
  BY <1>1, <1>2 DEF OpToRel
<1>4. PICK i \in S : x = n - i
  OBVIOUS
<1>5. \A j \in S : j <= i
  BY <1>3, <1>4
<1> QED
  BY <1>5

\* Rightmost finds the last update of every key that has one.
LEMMA RightmostIsLast ==
    ASSUME NEW S, NEW updates \in Seq(S), NEW k \in UpdatedKeys(updates)
    PROVE  LastOf(updates, k, Rightmost(updates, k))
<1> DEFINE places == {i \in DOMAIN updates : updates[i].PubKey = k}
<1>1. Len(updates) \in Nat /\ DOMAIN updates = 1 .. Len(updates)
  OBVIOUS
<1>2. places \in SUBSET (1 .. Len(updates)) /\ places # {}
  BY <1>1 DEF UpdatedKeys
<1>3. PICK i \in places : \A j \in places : j <= i
  BY <1>1, <1>2, Greatest
<1>4. LastOf(updates, k, i)
  BY <1>1, <1>3 DEF LastOf
<1> QED
  BY <1>4 DEF LastOf, Rightmost

\* There is one last update of a key.
LEMMA LastIsUnique ==
    ASSUME NEW S, NEW updates \in Seq(S), NEW k, NEW i, LastOf(updates, k, i)
    PROVE  k \in UpdatedKeys(updates) /\ Rightmost(updates, k) = i
<1>1. k \in UpdatedKeys(updates)
  BY DEF LastOf, UpdatedKeys
<1>2. LastOf(updates, k, Rightmost(updates, k))
  BY <1>1, RightmostIsLast
<1>3. i \in Int /\ Rightmost(updates, k) \in Int
  BY <1>2 DEF LastOf
<1> QED
  BY <1>1, <1>2, <1>3 DEF LastOf

\* The power the last update of k gives it.
LastPower(updates, k) == updates[Rightmost(updates, k)].Power

\* An update that is appended is the last of its key, and of no other.
LEMMA AppendLast ==
    ASSUME NEW updates \in Seq(TypeOfUpdate), NEW k \in Keys, NEW p \in Nat
    PROVE  LET new == Append(updates, ValidatorUpdate(k, p)) IN
           /\ new \in Seq(TypeOfUpdate)
           /\ UpdatedKeys(new) = UpdatedKeys(updates) \cup {k}
           /\ LastPower(new, k) = p
           /\ \A j \in UpdatedKeys(updates) \ {k} : LastPower(new, j) = LastPower(updates, j)
<1> DEFINE u == ValidatorUpdate(k, p)
           new == Append(updates, u)
           n == Len(updates)
<1>1. u \in TypeOfUpdate /\ u.PubKey = k /\ u.Power = p
  BY DEF ValidatorUpdate, TypeOfUpdate
<1> HIDE DEF u
<1>2. n \in Nat /\ DOMAIN updates = 1 .. n
  OBVIOUS
<1>3. /\ new \in Seq(TypeOfUpdate)
      /\ DOMAIN new = 1 .. n + 1
      /\ new[n + 1] = u
      /\ \A i \in 1 .. n : new[i] = updates[i]
  BY <1>1
<1> HIDE DEF new, n
<1>4. UpdatedKeys(new) = UpdatedKeys(updates) \cup {k}
  BY <1>1, <1>2, <1>3 DEF UpdatedKeys
<1>5. LastPower(new, k) = p
  <2>1. LastOf(new, k, n + 1)
    BY <1>1, <1>2, <1>3 DEF LastOf
  <2> QED
    BY <1>1, <1>3, <2>1, LastIsUnique DEF LastPower
<1>6. ASSUME NEW j \in UpdatedKeys(updates) \ {k}
      PROVE  LastPower(new, j) = LastPower(updates, j)
  <2>1. LastOf(updates, j, Rightmost(updates, j))
    BY RightmostIsLast
  <2>2. LastOf(new, j, Rightmost(updates, j))
    BY <1>1, <1>2, <1>3, <2>1 DEF LastOf
  <2> QED
    BY <1>2, <1>3, <2>1, <2>2, LastIsUnique DEF LastPower, LastOf
<1> QED
  BY <1>3, <1>4, <1>5, <1>6 DEF new, u

\* SetToSeq lists the elements of a finite set, each of them once.
LEMMA SetToSeqLists ==
    ASSUME NEW T, NEW S \in SUBSET T, IsFiniteSet(S)
    PROVE  /\ SetToSeq(S) \in Seq(T)
           /\ \A x \in S : \E i \in DOMAIN SetToSeq(S) : SetToSeq(S)[i] = x
           /\ \A i \in DOMAIN SetToSeq(S) : SetToSeq(S)[i] \in S
           /\ \A i, j \in DOMAIN SetToSeq(S) : SetToSeq(S)[i] = SetToSeq(S)[j] => i = j
<1> DEFINE n == Cardinality(S)
           f == SetToSeq(S)
<1>1. n \in Nat /\ ExistsBijection(1 .. n, S)
  BY FS_CardinalityType
<1>2. \E g \in [1 .. n -> S] : IsInjective(g)
  BY <1>1 DEF ExistsBijection, Bijection, Injection
<1>3. f \in [1 .. n -> S] /\ IsInjective(f)
  BY <1>2 DEF SetToSeq
<1> HIDE DEF f, n
<1>4. f \in Injection(1 .. n, S)
  BY <1>3 DEF Injection
<1>5. Cardinality(1 .. n) = n /\ n = Cardinality(S)
  BY <1>1, FS_Interval DEF n
<1>6. f \in Surjection(1 .. n, S)
  BY <1>4, <1>5, FS_Injection
<1>7. f \in Seq(T)
  BY <1>1, <1>3
<1> QED
  BY <1>3, <1>6, <1>7 DEF f, Surjection, IsInjective

\* The updates of a set of keys, one for each, in whatever order.
LEMMA UpdatesOfSet ==
    ASSUME NEW S \in SUBSET Keys, NEW power \in [S -> Nat]
    PROVE  LET updates == SetToSeq({ValidatorUpdate(k, power[k]) : k \in S}) IN
           /\ updates \in Seq(TypeOfUpdate)
           /\ UpdatedKeys(updates) = S
           /\ \A i \in DOMAIN updates : updates[i].Power = power[updates[i].PubKey]
<1> DEFINE all == {ValidatorUpdate(k, power[k]) : k \in S}
           one == [k \in S |-> ValidatorUpdate(k, power[k])]
           updates == SetToSeq(all)
<1>1. \A k \in S : /\ ValidatorUpdate(k, power[k]) \in TypeOfUpdate
                    /\ ValidatorUpdate(k, power[k]).PubKey = k
                    /\ ValidatorUpdate(k, power[k]).Power = power[k]
  BY DEF ValidatorUpdate, TypeOfUpdate
<1>2. IsFiniteSet(S)
  BY GenesisPowersAssumption, FS_Subset
<1>3. one \in Surjection(S, all)
  BY DEF Surjection
<1>4. IsFiniteSet(all)
  BY <1>2, <1>3, FS_Surjection
<1>5. all \in SUBSET TypeOfUpdate
  BY <1>1
<1> HIDE DEF one
<1>6. \A u \in all : u.PubKey \in S /\ u.Power = power[u.PubKey]
  BY <1>1
<1>7. \A k \in S : \E u \in all : u.PubKey = k
  BY <1>1
<1> HIDE DEF all
<1>8. /\ updates \in Seq(TypeOfUpdate)
      /\ \A x \in all : \E i \in DOMAIN updates : updates[i] = x
      /\ \A i \in DOMAIN updates : updates[i] \in all
  BY <1>4, <1>5, SetToSeqLists
<1> HIDE DEF updates
<1>9. UpdatedKeys(updates) = S
  BY <1>6, <1>7, <1>8 DEF UpdatedKeys
<1> QED
  BY <1>6, <1>8, <1>9 DEF updates, all

\* The last update of a key in two sequences is that of the second, if it has one.
LEMMA ConcatLast ==
    ASSUME NEW s \in Seq(TypeOfUpdate), NEW t \in Seq(TypeOfUpdate)
    PROVE  /\ s \o t \in Seq(TypeOfUpdate)
           /\ UpdatedKeys(s \o t) = UpdatedKeys(s) \cup UpdatedKeys(t)
           /\ \A k \in UpdatedKeys(t) : LastPower(s \o t, k) = LastPower(t, k)
           /\ \A k \in UpdatedKeys(s) \ UpdatedKeys(t) : LastPower(s \o t, k) = LastPower(s, k)
<1> DEFINE m == Len(s)
           n == Len(t)
           st == s \o t
<1>1. m \in Nat /\ n \in Nat /\ DOMAIN s = 1 .. m /\ DOMAIN t = 1 .. n
  OBVIOUS
<1>2. /\ st \in Seq(TypeOfUpdate)
      /\ DOMAIN st = 1 .. m + n
      /\ \A i \in 1 .. m : st[i] = s[i]
      /\ \A i \in 1 .. n : st[m + i] = t[i]
  OBVIOUS
<1> HIDE DEF st, m, n
<1>3. \A i \in 1 .. m + n : i \in 1 .. m \/ (i - m \in 1 .. n /\ st[i] = t[i - m])
  <2> TAKE i \in 1 .. m + n
  <2>1. CASE i \in 1 .. m
    BY <2>1
  <2>2. CASE i \notin 1 .. m
    <3>1. i - m \in 1 .. n /\ m + (i - m) = i
      BY <1>1, <2>2
    <3> QED
      BY <1>2, <3>1
  <2> QED
    BY <2>1, <2>2
<1>4. UpdatedKeys(st) = UpdatedKeys(s) \cup UpdatedKeys(t)
  <2>1. \A i \in 1 .. n : m + i \in 1 .. m + n
    BY <1>1
  <2>2. 1 .. m \subseteq 1 .. m + n
    BY <1>1
  <2>3. UpdatedKeys(st) \subseteq UpdatedKeys(s) \cup UpdatedKeys(t)
    <3> SUFFICES ASSUME NEW i \in 1 .. m + n
                 PROVE  st[i].PubKey \in UpdatedKeys(s) \cup UpdatedKeys(t)
      BY <1>2 DEF UpdatedKeys
    <3> QED
      BY <1>1, <1>2, <1>3 DEF UpdatedKeys
  <2>4. UpdatedKeys(s) \subseteq UpdatedKeys(st)
    BY <1>1, <1>2, <2>2 DEF UpdatedKeys
  <2>5. UpdatedKeys(t) \subseteq UpdatedKeys(st)
    <3> SUFFICES ASSUME NEW i \in 1 .. n PROVE t[i].PubKey \in UpdatedKeys(st)
      BY <1>1 DEF UpdatedKeys
    <3> QED
      BY <1>2, <2>1 DEF UpdatedKeys
  <2> QED
    BY <2>3, <2>4, <2>5
<1>5. ASSUME NEW k \in UpdatedKeys(t) PROVE LastPower(st, k) = LastPower(t, k)
  <2> DEFINE i == Rightmost(t, k)
  <2>1. LastOf(t, k, i)
    BY RightmostIsLast
  <2> HIDE DEF i
  <2>2. i \in 1 .. n /\ m + i \in 1 .. m + n /\ st[m + i] = t[i]
    BY <1>1, <1>2, <2>1 DEF LastOf
  <2>3. ASSUME NEW j \in 1 .. m + n, j > m + i PROVE st[j].PubKey # k
    <3>1. j - m \in 1 .. n /\ j - m > i /\ st[j] = t[j - m]
      BY <1>1, <1>3, <2>2, <2>3
    <3> QED
      BY <1>1, <2>1, <3>1 DEF LastOf
  <2>4. LastOf(st, k, m + i)
    BY <1>1, <1>2, <2>1, <2>2, <2>3 DEF LastOf
  <2> QED
    BY <1>2, <2>2, <2>4, LastIsUnique DEF LastPower, i
<1>6. ASSUME NEW k \in UpdatedKeys(s) \ UpdatedKeys(t) PROVE LastPower(st, k) = LastPower(s, k)
  <2> DEFINE i == Rightmost(s, k)
  <2>1. LastOf(s, k, i)
    BY RightmostIsLast
  <2> HIDE DEF i
  <2>2. i \in 1 .. m /\ i \in 1 .. m + n /\ st[i] = s[i]
    BY <1>1, <1>2, <2>1 DEF LastOf
  <2>3. ASSUME NEW j \in 1 .. m + n, j > i PROVE st[j].PubKey # k
    <3>1. CASE j \in 1 .. m
      BY <1>1, <1>2, <2>1, <2>3, <3>1 DEF LastOf
    <3>2. CASE j - m \in 1 .. n /\ st[j] = t[j - m]
      BY <1>1, <3>2 DEF UpdatedKeys
    <3> QED
      BY <1>3, <3>1, <3>2
  <2>4. LastOf(st, k, i)
    BY <1>1, <1>2, <2>1, <2>2, <2>3 DEF LastOf
  <2> QED
    BY <1>2, <2>2, <2>4, LastIsUnique DEF LastPower, i
<1> QED
  BY <1>2, <1>4, <1>5, <1>6 DEF st

-----------------------------------------------------------------------------
(***************************************************************************)
(* The invariant.                                                          *)
(***************************************************************************)
\* Before the first block there is nothing but the genesis file.
AtGenesis ==
    phase = "genesis" =>
        /\ lastSet = EmptyMap
        /\ curSet = GenesisPowers
        /\ nextSet = GenesisPowers
        /\ everSet = DOMAIN GenesisPowers
        /\ validatorTree = EmptyMap
        /\ valUpdates = <<>>

ValidatorsInv ==
    /\ ValidatorsTypeOK
    /\ TreeMatchesTendermint
    /\ VotersHaveStakes
    /\ AtGenesis

\* The power of k in the newest set of Tendermint.
PowerIn(k) == IF k \in DOMAIN nextSet THEN nextSet[k] ELSE 0

\* PendingPower, case by case.
LEMMA Pending ==
    ASSUME NEW k
    PROVE  PendingPower(k) = IF phase = "block" /\ k \in UpdatedKeys(valUpdates)
                             THEN LastPower(valUpdates, k) ELSE PowerIn(k)
BY DEF PendingPower, LastPower, PowerIn

\* The same in the next state.
LEMMA PendingPrime ==
    ASSUME NEW k
    PROVE  PendingPower(k)' = IF phase' = "block" /\ k \in UpdatedKeys(valUpdates')
                              THEN LastPower(valUpdates', k) ELSE PowerIn(k)'
BY DEF PendingPower, LastPower, PowerIn, Rightmost, UpdatedKeys

\* The empty map is a map of any type, and there are no updates in <<>>.
LEMMA Empties ==
    /\ DOMAIN EmptyMap = {}
    /\ \A K, V : IsMap(EmptyMap, K, V)
    /\ UpdatedKeys(<<>>) = {}
BY DEF EmptyMap, IsMap, UpdatedKeys

\* Stakes are natural numbers.
LEMMA StakeType == ASSUME ValidatorsTypeOK, NEW k PROVE StakeOf(k) \in Nat
BY DEF ValidatorsTypeOK, IsMap, StakeOf

\* The initial state satisfies the invariant.
LEMMA InitValidators == ValidatorsInit => ValidatorsInv
<1> SUFFICES ASSUME ValidatorsInit PROVE ValidatorsInv
  OBVIOUS
<1>1. ValidatorsTypeOK
  BY GenesisPowersAssumption, WordAssumption, Empties
     DEF ValidatorsInit, TendermintInit, ValidatorsTypeOK, Phases, UInt32, IsMap
<1>2. TreeMatchesTendermint /\ VotersHaveStakes /\ AtGenesis
  BY DEF ValidatorsInit, TendermintInit, TreeMatchesTendermint, VotersHaveStakes, AtGenesis
<1> QED
  BY <1>1, <1>2 DEF ValidatorsInv

\* InitChain enters the powers of the genesis file.
LEMMA InitChainStep == ASSUME ValidatorsInv, InitChainValidators PROVE ValidatorsInv'
<1>1. /\ phase = "genesis" /\ phase' = "idle"
      /\ UNCHANGED <<lastSet, curSet, nextSet, everSet, valUpdates, totalFees>>
  BY DEF InitChainValidators, TmInitChain, validatorSets
<1>2. /\ lastSet = EmptyMap /\ curSet = GenesisPowers /\ nextSet = GenesisPowers
      /\ everSet = DOMAIN GenesisPowers /\ validatorTree = EmptyMap /\ valUpdates = <<>>
  BY <1>1 DEF ValidatorsInv, AtGenesis
<1>3. /\ DOMAIN validatorTree' = DOMAIN GenesisPowers
      /\ \A k \in DOMAIN GenesisPowers : validatorTree'[k] = GenesisPowers[k]
      /\ validatorTree' = [k \in DOMAIN GenesisPowers |-> validatorTree'[k]]
  BY <1>2, Empties DEF InitChainValidators
<1>4. IsMap(validatorTree', Keys, Nat)
  BY <1>3, GenesisPowersAssumption DEF IsMap
<1>5. ValidatorsTypeOK'
  BY <1>1, <1>4 DEF ValidatorsInv, ValidatorsTypeOK, Phases
<1>6. TreeMatchesTendermint'
  <2> SUFFICES ASSUME NEW k \in Keys PROVE PendingPower(k)' = StakeOf(k)'
    BY DEF TreeMatchesTendermint
  <2> QED
    BY <1>1, <1>2, <1>3, PendingPrime DEF PowerIn, StakeOf
<1>7. VotersHaveStakes'
  BY <1>1, <1>2, <1>3, Empties DEF VotersHaveStakes
<1>8. AtGenesis'
  BY <1>1 DEF AtGenesis
<1> QED
  BY <1>5, <1>6, <1>7, <1>8 DEF ValidatorsInv

-----------------------------------------------------------------------------
(***************************************************************************)
(* DeliverTx.                                                              *)
(***************************************************************************)
\* A fee keeps the sum of fees a number of 32 bits.
LEMMA FeeType == ASSUME NEW fee, CollectFee(fee), totalFees \in UInt32, fee \in UInt32
                 PROVE  totalFees' \in UInt32
BY WordAssumption DEF CollectFee, Plus, Wrap, UInt32

\* A step that changes neither powers nor updates keeps the invariant.
LEMMA QuietStep ==
    ASSUME ValidatorsInv, totalFees' \in UInt32,
           UNCHANGED <<lastSet, curSet, nextSet, everSet, validatorTree, valUpdates>>,
           phase' = phase \/ (phase = "ended" /\ phase' = "idle")
    PROVE  ValidatorsInv'
<1>1. ValidatorsTypeOK'
  BY DEF ValidatorsInv, ValidatorsTypeOK, Phases
<1>2. TreeMatchesTendermint'
  <2> SUFFICES ASSUME phase' \notin {"genesis", "halted"}, NEW k \in Keys
               PROVE  PendingPower(k)' = StakeOf(k)'
    BY DEF TreeMatchesTendermint
  <2>1. PendingPower(k) = StakeOf(k)
    BY DEF ValidatorsInv, TreeMatchesTendermint
  <2>2. StakeOf(k)' = StakeOf(k) /\ PowerIn(k)' = PowerIn(k)
    BY DEF StakeOf, PowerIn
  <2> QED
    BY <2>1, <2>2, Pending, PendingPrime
<1>3. VotersHaveStakes' /\ AtGenesis'
  BY DEF ValidatorsInv, VotersHaveStakes, AtGenesis
<1> QED
  BY <1>1, <1>2, <1>3 DEF ValidatorsInv

\* A transaction that gives k the power p and says so keeps the invariant.
LEMMA PowerStep ==
    ASSUME ValidatorsInv, NEW k \in Keys, NEW p \in Nat, TmDeliverTx,
           totalFees' \in UInt32,
           valUpdates' = Append(valUpdates, ValidatorUpdate(k, p)),
           validatorTree' = [j \in DOMAIN validatorTree \cup {k} |->
                               IF j = k THEN p ELSE validatorTree[j]]
    PROVE  ValidatorsInv'
<1>1. phase = "block" /\ UNCHANGED <<phase, lastSet, curSet, nextSet, everSet>>
  BY DEF TmDeliverTx, tendermintVars, validatorSets
<1>2. /\ valUpdates' \in Seq(TypeOfUpdate)
      /\ UpdatedKeys(valUpdates') = UpdatedKeys(valUpdates) \cup {k}
      /\ LastPower(valUpdates', k) = p
      /\ \A j \in UpdatedKeys(valUpdates) \ {k} :
            LastPower(valUpdates', j) = LastPower(valUpdates, j)
  BY AppendLast DEF ValidatorsInv, ValidatorsTypeOK
<1>3. IsMap(validatorTree', Keys, Nat)
  BY DEF ValidatorsInv, ValidatorsTypeOK, IsMap
<1>4. ValidatorsTypeOK'
  BY <1>1, <1>2, <1>3 DEF ValidatorsInv, ValidatorsTypeOK
<1>5. TreeMatchesTendermint'
  <2> SUFFICES ASSUME NEW j \in Keys PROVE PendingPower(j)' = StakeOf(j)'
    BY DEF TreeMatchesTendermint
  <2>1. CASE j = k
    BY <1>1, <1>2, <2>1, PendingPrime DEF StakeOf
  <2>2. CASE j # k
    <3>1. StakeOf(j)' = StakeOf(j) /\ PowerIn(j)' = PowerIn(j)
      BY <1>1, <2>2 DEF StakeOf, PowerIn
    <3>2. PendingPower(j) = StakeOf(j)
      BY <1>1 DEF ValidatorsInv, TreeMatchesTendermint
    <3> QED
      BY <1>1, <1>2, <2>2, <3>1, <3>2, Pending, PendingPrime
  <2> QED
    BY <2>1, <2>2
<1>6. VotersHaveStakes'
  BY <1>1, <1>2 DEF ValidatorsInv, VotersHaveStakes
<1>7. AtGenesis'
  BY <1>1 DEF AtGenesis
<1> QED
  BY <1>4, <1>5, <1>6, <1>7 DEF ValidatorsInv

\* A stake.
LEMMA StakeValidatorStep ==
    ASSUME ValidatorsInv, NEW k \in Keys, NEW amount \in UInt32, NEW fee \in UInt32,
           ExecStakeValidator(k, amount, fee)
    PROVE  ValidatorsInv'
<1>1. totalFees' \in UInt32
  BY FeeType
     DEF ExecStakeValidator, ValidatorsInv, ValidatorsTypeOK
<1>2. StakeOf(k) + amount \in Nat
  BY StakeType, WordAssumption DEF ValidatorsInv, UInt32
<1> QED
  BY <1>1, <1>2, PowerStep DEF ExecStakeValidator

\* A release, also one of a key without a stake.
LEMMA ReleaseValidatorStep ==
    ASSUME ValidatorsInv, NEW k \in Keys, NEW fee \in UInt32, ExecReleaseValidator(k, fee)
    PROVE  ValidatorsInv'
<1>1. CASE k \in DOMAIN validatorTree
  <2>1. totalFees' \in UInt32
    BY <1>1, FeeType
       DEF ExecReleaseValidator, ValidatorsInv, ValidatorsTypeOK
  <2>2. validatorTree' = [j \in DOMAIN validatorTree \cup {k} |->
                            IF j = k THEN 0 ELSE validatorTree[j]]
    BY <1>1 DEF ExecReleaseValidator
  <2> QED
    BY <1>1, <2>1, <2>2, PowerStep DEF ExecReleaseValidator
<1>2. CASE k \notin DOMAIN validatorTree
  BY <1>2, QuietStep DEF ExecReleaseValidator, TmDeliverTx, tendermintVars, validatorSets,
                         validatorsVars, ValidatorsInv, ValidatorsTypeOK
<1> QED
  BY <1>1, <1>2

\* A transaction of another kind.
LEMMA OtherValidatorsStep ==
    ASSUME ValidatorsInv, NEW fee \in UInt32, ExecOtherValidators(fee)
    PROVE  ValidatorsInv'
<1>1. totalFees' \in UInt32
  BY FeeType
     DEF ExecOtherValidators, ValidatorsInv, ValidatorsTypeOK
<1> QED
  BY <1>1, QuietStep DEF ExecOtherValidators, TmDeliverTx, tendermintVars, validatorSets

-----------------------------------------------------------------------------
(***************************************************************************)
(* EndBlock and Commit.                                                    *)
(***************************************************************************)
\* The powers EndBlock returns are the last updates of their keys, and they
\* are the powers of validatorTree.
LEMMA KeptUpdates ==
    ASSUME ValidatorsInv, phase = "block"
    PROVE  LET kept == removeDuplicateValidatorUpdates(valUpdates) IN
           /\ kept \in [UpdatedKeys(valUpdates) -> Nat]
           /\ \A k \in UpdatedKeys(valUpdates) : kept[k] = StakeOf(k)
<1>1. \A k \in UpdatedKeys(valUpdates) : LastPower(valUpdates, k) = StakeOf(k)
  <2> TAKE k \in UpdatedKeys(valUpdates)
  <2>1. k \in Keys
    BY DEF ValidatorsInv, ValidatorsTypeOK, VotersHaveStakes, IsMap
  <2> QED
    BY <2>1, Pending DEF ValidatorsInv, TreeMatchesTendermint
<1> QED
  BY <1>1, StakeType DEF removeDuplicateValidatorUpdates, LastPower, ValidatorsInv

\* EndBlock brings the newest set of Tendermint up to validatorTree, or stops
\* the chain.
LEMMA EndBlockValidatorsStep == ASSUME ValidatorsInv, EndBlockValidators PROVE ValidatorsInv'
<1> DEFINE kept == removeDuplicateValidatorUpdates(valUpdates)
           changed == UpdatedKeys(valUpdates)
<1>1. phase = "block" /\ TmEndBlock(kept)
  BY DEF EndBlockValidators, TmEndBlock
<1>2. kept \in [changed -> Nat] /\ \A k \in changed : kept[k] = StakeOf(k)
  BY <1>1, KeptUpdates
<1>3. changed \subseteq DOMAIN validatorTree /\ DOMAIN validatorTree \subseteq Keys
  BY <1>1 DEF ValidatorsInv, VotersHaveStakes, ValidatorsTypeOK, IsMap
<1>4. valUpdates' \in Seq(TypeOfUpdate) /\ UpdatedKeys(valUpdates') = changed
  <2>1. valUpdates' = SetToSeq({ValidatorUpdate(k, kept[k]) : k \in changed})
    BY <1>2 DEF EndBlockValidators
  <2> HIDE DEF kept, changed
  <2> QED
    BY <1>2, <1>3, <2>1, UpdatesOfSet
<1>5. UNCHANGED <<validatorTree, totalFees>>
  BY DEF EndBlockValidators
<1> HIDE DEF kept, changed
<1>6. CASE Accepted(kept)
  <2>1. /\ phase' = "ended" /\ lastSet' = curSet /\ curSet' = nextSet
        /\ nextSet' = WithUpdates(kept)
        /\ everSet' = everSet \cup DOMAIN nextSet'
    BY <1>1, <1>6 DEF TmEndBlock
  <2>2. /\ DOMAIN nextSet' \subseteq DOMAIN nextSet \cup changed
        /\ \A k \in DOMAIN nextSet \cup changed :
              k \in DOMAIN nextSet' <=> (k \in changed => kept[k] > 0)
        /\ \A k \in DOMAIN nextSet' :
              nextSet'[k] = IF k \in changed THEN kept[k] ELSE nextSet[k]
        /\ nextSet' = [k \in DOMAIN nextSet' |-> nextSet'[k]]
    BY <1>2, <2>1 DEF WithUpdates
  <2>3. IsMap(nextSet, Keys, Nat \ {0})
    BY DEF ValidatorsInv, ValidatorsTypeOK
  <2>4. IsMap(nextSet', Keys, Nat \ {0})
    <3>1. ASSUME NEW k \in DOMAIN nextSet' PROVE k \in Keys /\ nextSet'[k] \in Nat \ {0}
      BY <1>2, <1>3, <2>2, <2>3 DEF IsMap
    <3> QED
      BY <2>2, <3>1 DEF IsMap
  <2>5. ValidatorsTypeOK'
    <3>1. everSet' \subseteq Keys
      BY <2>1, <2>4 DEF ValidatorsInv, ValidatorsTypeOK, IsMap
    <3>2. IsMap(lastSet', Keys, Nat \ {0}) /\ IsMap(curSet', Keys, Nat \ {0})
      BY <2>1 DEF ValidatorsInv, ValidatorsTypeOK
    <3>3. IsMap(validatorTree', Keys, Nat) /\ totalFees' \in UInt32
      BY <1>5 DEF ValidatorsInv, ValidatorsTypeOK
    <3> QED
      BY <1>4, <2>1, <2>4, <3>1, <3>2, <3>3 DEF ValidatorsTypeOK, Phases
  <2>6. TreeMatchesTendermint'
    <3> SUFFICES ASSUME NEW k \in Keys PROVE PowerIn(k)' = StakeOf(k)'
      BY <2>1, PendingPrime DEF TreeMatchesTendermint
    <3>1. StakeOf(k)' = StakeOf(k)
      BY <1>5 DEF StakeOf
    <3>2. CASE k \in changed
      BY <1>2, <2>2, <3>1, <3>2 DEF PowerIn
    <3>3. CASE k \notin changed
      <4>1. PowerIn(k) = StakeOf(k)
        BY <1>1, <3>3, Pending DEF ValidatorsInv, TreeMatchesTendermint, changed
      <4> QED
        BY <2>2, <3>1, <3>3, <4>1 DEF PowerIn
    <3> QED
      BY <3>2, <3>3
  <2>7. VotersHaveStakes'
    <3>1. DOMAIN lastSet \cup DOMAIN curSet \cup DOMAIN nextSet \cup everSet
            \subseteq DOMAIN validatorTree
      BY <1>1 DEF ValidatorsInv, VotersHaveStakes
    <3> QED
      BY <1>3, <1>4, <1>5, <2>1, <2>2, <3>1 DEF VotersHaveStakes
  <2> QED
    BY <2>1, <2>5, <2>6, <2>7 DEF ValidatorsInv, AtGenesis
<1>7. CASE ~Accepted(kept)
  <2>1. phase' = "halted" /\ UNCHANGED <<lastSet, curSet, nextSet, everSet>>
    BY <1>1, <1>7 DEF TmEndBlock, validatorSets
  <2>2. ValidatorsTypeOK'
    BY <1>4, <1>5, <2>1 DEF ValidatorsInv, ValidatorsTypeOK, Phases
  <2>3. VotersHaveStakes'
    BY <1>1, <1>3, <1>4, <1>5, <2>1 DEF ValidatorsInv, VotersHaveStakes
  <2> QED
    BY <2>1, <2>2, <2>3 DEF ValidatorsInv, TreeMatchesTendermint, AtGenesis
<1> QED
  BY <1>6, <1>7

\* Commit leaves the validators alone.
LEMMA CommitValidatorsStep == ASSUME ValidatorsInv, CommitValidators PROVE ValidatorsInv'
BY QuietStep DEF CommitValidators, TmCommit, validatorSets, validatorsVars,
                 ValidatorsInv, ValidatorsTypeOK

-----------------------------------------------------------------------------
(***************************************************************************)
(* BeginBlock.                                                             *)
(***************************************************************************)
\* A quotient of natural numbers is one.
LEMMA Quotient == ASSUME NEW n \in Nat, NEW d \in Nat \ {0} PROVE n \div d \in Nat
BY SMTT(30)

\* A leak is a natural number.
LEMMA LeakType ==
    ASSUME ValidatorsInv, phase = "idle", NEW signed, NEW proposer,
           NEW k \in Revalued(signed, proposer)
    PROVE  /\ Rewarded(k, proposer) \in Nat
           /\ Leak(Rewarded(k, proposer), Cardinality(DOMAIN lastSet)) \in Nat
<1> DEFINE votes == Cardinality(DOMAIN lastSet)
           power == Rewarded(k, proposer)
<1>1. k \in DOMAIN lastSet
  BY DEF Revalued
<1>2. k \in DOMAIN validatorTree
  BY <1>1 DEF ValidatorsInv, VotersHaveStakes
<1>3. validatorTree[k] \in Nat /\ totalFees \in Nat /\ blockReward \in Nat
  BY <1>2, ValidatorsAssumption, WordAssumption
     DEF ValidatorsInv, ValidatorsTypeOK, IsMap, UInt32
<1>4. power \in Nat
  BY <1>3 DEF Rewarded
<1>5. IsFiniteSet(DOMAIN lastSet)
  BY GenesisPowersAssumption, FS_Subset DEF ValidatorsInv, ValidatorsTypeOK, IsMap
<1>6. votes \in Nat \ {0}
  BY <1>1, <1>5, FS_CardinalityType, FS_EmptySet
<1> HIDE DEF votes, power
<1>7. Leak(power, votes) \in Nat
  <2>1. emptyVoteLeak * power \in Nat /\ votes * LeakScale \in Nat \ {0}
    <3>1. emptyVoteLeak \in Nat /\ LeakScale \in Nat \ {0}
      BY ValidatorsAssumption
    <3> QED
      BY <1>4, <1>6, <3>1, SMTT(30)
  <2>2. (emptyVoteLeak * power) \div (votes * LeakScale) \in Nat
    BY <2>1, Quotient
  <2> QED
    BY <2>2 DEF Leak
<1> QED
  BY <1>4, <1>7 DEF power, votes

\* What is left of a power after the reward and the leak is a natural number.
LEMMA PowerAfterType ==
    ASSUME ValidatorsInv, phase = "idle", NEW signed, NEW proposer,
           NEW k \in Revalued(signed, proposer)
    PROVE  PowerAfter(k, proposer) \in Nat
BY LeakType DEF Revalued, PowerAfter

\* What BeginBlock does to the powers and which updates it leaves.
LEMMA BeginBlockEffect ==
    ASSUME ValidatorsInv, NEW signed, NEW proposer, NEW byzantine,
           BeginBlockValidators(signed, proposer, byzantine)
    PROVE  LET moved == Revalued(signed, proposer) IN
           /\ byzantine \subseteq DOMAIN validatorTree
           /\ moved \subseteq DOMAIN lastSet
           /\ DOMAIN lastSet \subseteq DOMAIN validatorTree
           /\ DOMAIN validatorTree \subseteq Keys
           /\ DOMAIN validatorTree' = DOMAIN validatorTree
           /\ \A k \in DOMAIN validatorTree :
                 validatorTree'[k] = IF k \in byzantine THEN 0
                                     ELSE IF k \in moved THEN PowerAfter(k, proposer)
                                     ELSE validatorTree[k]
           /\ \A k \in moved : PowerAfter(k, proposer) \in Nat
           /\ valUpdates' \in Seq(TypeOfUpdate)
           /\ UpdatedKeys(valUpdates') = moved \cup byzantine
           /\ \A k \in moved \cup byzantine : LastPower(valUpdates', k) = validatorTree'[k]
<1> DEFINE moved == Revalued(signed, proposer)
           power == [k \in moved |-> PowerAfter(k, proposer)]
           none == [k \in byzantine |-> 0]
           votes == SetToSeq({ValidatorUpdate(k, power[k]) : k \in moved})
           guilt == SetToSeq({ValidatorUpdate(k, none[k]) : k \in byzantine})
<1>1. /\ phase = "idle"
      /\ DOMAIN lastSet \cup byzantine \subseteq DOMAIN validatorTree
      /\ validatorTree' = [k \in DOMAIN validatorTree |->
            IF k \in byzantine THEN 0
            ELSE IF k \in moved THEN PowerAfter(k, proposer)
            ELSE validatorTree[k]]
      /\ valUpdates' = UpdatesAtBegin(moved, proposer, byzantine)
  BY DEF BeginBlockValidators, TmBeginBlock
<1>2. moved \subseteq DOMAIN lastSet
  BY DEF Revalued
<1>3. DOMAIN validatorTree \subseteq Keys
  BY DEF ValidatorsInv, ValidatorsTypeOK, IsMap
<1>4. \A k \in moved : PowerAfter(k, proposer) \in Nat
  BY <1>1, PowerAfterType
<1> HIDE DEF moved
<1>5. power \in [moved -> Nat] /\ none \in [byzantine -> Nat]
  BY <1>4
<1>6. moved \in SUBSET Keys /\ byzantine \in SUBSET Keys
  BY <1>1, <1>2, <1>3
<1>7. valUpdates' = votes \o guilt
  <2>1. \A k \in moved : power[k] = PowerAfter(k, proposer)
    OBVIOUS
  <2>2. \A k \in byzantine : none[k] = 0
    OBVIOUS
  <2>3. {ValidatorUpdate(k, PowerAfter(k, proposer)) : k \in moved}
          = {ValidatorUpdate(k, power[k]) : k \in moved}
    BY <2>1
  <2>4. {ValidatorUpdate(k, 0) : k \in byzantine} = {ValidatorUpdate(k, none[k]) : k \in byzantine}
    BY <2>2
  <2> HIDE DEF power, none
  <2> QED
    BY <1>1, <2>3, <2>4 DEF UpdatesAtBegin, VoteUpdates, Punishments
<1> HIDE DEF power, none
<1>8. /\ votes \in Seq(TypeOfUpdate) /\ UpdatedKeys(votes) = moved
      /\ \A i \in DOMAIN votes : votes[i].Power = power[votes[i].PubKey]
  BY <1>5, <1>6, UpdatesOfSet
<1>9. /\ guilt \in Seq(TypeOfUpdate) /\ UpdatedKeys(guilt) = byzantine
      /\ \A i \in DOMAIN guilt : guilt[i].Power = none[guilt[i].PubKey]
  BY <1>5, <1>6, UpdatesOfSet
<1> HIDE DEF votes, guilt
<1>10. \A k \in moved : LastPower(votes, k) = power[k]
  BY <1>8, RightmostIsLast DEF LastOf, LastPower
<1>11. \A k \in byzantine : LastPower(guilt, k) = none[k]
  BY <1>9, RightmostIsLast DEF LastOf, LastPower
<1>12. /\ valUpdates' \in Seq(TypeOfUpdate)
       /\ UpdatedKeys(valUpdates') = moved \cup byzantine
       /\ \A k \in byzantine : LastPower(valUpdates', k) = LastPower(guilt, k)
       /\ \A k \in moved \ byzantine : LastPower(valUpdates', k) = LastPower(votes, k)
  BY <1>7, <1>8, <1>9, ConcatLast
<1>13. \A k \in moved \cup byzantine : LastPower(valUpdates', k) = validatorTree'[k]
  <2> TAKE k \in moved \cup byzantine
  <2>1. k \in DOMAIN validatorTree
    BY <1>1, <1>2
  <2>2. CASE k \in byzantine
    BY <1>1, <1>11, <1>12, <2>1, <2>2 DEF none
  <2>3. CASE k \in moved \ byzantine
    BY <1>1, <1>10, <1>12, <2>1, <2>3 DEF power
  <2> QED
    BY <2>2, <2>3
<1> QED
  BY <1>1, <1>2, <1>3, <1>4, <1>12, <1>13 DEF moved

\* Rewards, leaks and punishments keep the invariant.
LEMMA BeginBlockStep ==
    ASSUME ValidatorsInv, NEW signed, NEW proposer, NEW byzantine,
           BeginBlockValidators(signed, proposer, byzantine)
    PROVE  ValidatorsInv'
<1> DEFINE moved == Revalued(signed, proposer)
<1>1. /\ phase = "idle" /\ phase' = "block" /\ totalFees' = 0
      /\ UNCHANGED <<lastSet, curSet, nextSet, everSet>>
      /\ validatorTree' = [k \in DOMAIN validatorTree |-> validatorTree'[k]]
  BY DEF BeginBlockValidators, TmBeginBlock, validatorSets
<1>2. /\ byzantine \subseteq DOMAIN validatorTree
      /\ moved \subseteq DOMAIN validatorTree
      /\ DOMAIN validatorTree \subseteq Keys
      /\ DOMAIN validatorTree' = DOMAIN validatorTree
      /\ \A k \in DOMAIN validatorTree :
            validatorTree'[k] = IF k \in byzantine THEN 0
                                ELSE IF k \in moved THEN PowerAfter(k, proposer)
                                ELSE validatorTree[k]
      /\ \A k \in moved : PowerAfter(k, proposer) \in Nat
      /\ valUpdates' \in Seq(TypeOfUpdate)
      /\ UpdatedKeys(valUpdates') = moved \cup byzantine
      /\ \A k \in moved \cup byzantine : LastPower(valUpdates', k) = validatorTree'[k]
  BY BeginBlockEffect
<1> HIDE DEF moved
<1>3. IsMap(validatorTree', Keys, Nat)
  <2>1. IsMap(validatorTree, Keys, Nat)
    BY DEF ValidatorsInv, ValidatorsTypeOK
  <2>2. \A k \in DOMAIN validatorTree' : validatorTree'[k] \in Nat
    BY <1>2, <2>1 DEF IsMap
  <2> QED
    BY <1>1, <1>2, <2>2 DEF IsMap
<1>4. ValidatorsTypeOK'
  <2>1. 0 \in UInt32
    BY WordAssumption DEF UInt32
  <2> QED
    BY <1>1, <1>2, <1>3, <2>1 DEF ValidatorsInv, ValidatorsTypeOK, Phases
<1>5. TreeMatchesTendermint'
  <2> SUFFICES ASSUME NEW k \in Keys PROVE PendingPower(k)' = StakeOf(k)'
    BY DEF TreeMatchesTendermint
  <2>1. CASE k \in moved \cup byzantine
    BY <1>1, <1>2, <2>1, PendingPrime DEF StakeOf
  <2>2. CASE k \notin moved \cup byzantine
    <3>1. StakeOf(k)' = StakeOf(k) /\ PowerIn(k)' = PowerIn(k)
      BY <1>1, <1>2, <2>2 DEF StakeOf, PowerIn
    <3>2. PowerIn(k) = StakeOf(k)
      BY <1>1, Pending DEF ValidatorsInv, TreeMatchesTendermint
    <3> QED
      BY <1>2, <2>2, <3>1, <3>2, PendingPrime
  <2> QED
    BY <2>1, <2>2
<1>6. VotersHaveStakes'
  BY <1>1, <1>2 DEF ValidatorsInv, VotersHaveStakes
<1> QED
  BY <1>1, <1>4, <1>5, <1>6 DEF ValidatorsInv, AtGenesis

-----------------------------------------------------------------------------
\* Every step of the chain keeps the invariant.
LEMMA NextValidators == ValidatorsInv /\ [ValidatorsNext]_chainVars => ValidatorsInv'
<1> SUFFICES ASSUME ValidatorsInv, [ValidatorsNext]_chainVars PROVE ValidatorsInv'
  OBVIOUS
<1>1. CASE InitChainValidators
  BY <1>1, InitChainStep
<1>2. ASSUME NEW signed \in SUBSET Keys, NEW proposer \in Keys, NEW byzantine \in SUBSET everSet,
             BeginBlockValidators(signed, proposer, byzantine)
      PROVE  ValidatorsInv'
  BY <1>2, BeginBlockStep
<1>3. ASSUME NEW k \in Keys, NEW fee \in StakeFees, NEW amount \in StakeAmounts,
             ExecStakeValidator(k, amount, fee)
      PROVE  ValidatorsInv'
  BY <1>3, StakeValidatorStep, ValidatorsAssumption
<1>4. ASSUME NEW k \in Keys, NEW fee \in StakeFees, ExecReleaseValidator(k, fee)
      PROVE  ValidatorsInv'
  BY <1>4, ReleaseValidatorStep, ValidatorsAssumption
<1>5. ASSUME NEW fee \in StakeFees, ExecOtherValidators(fee) PROVE ValidatorsInv'
  BY <1>5, OtherValidatorsStep, ValidatorsAssumption
<1>6. CASE EndBlockValidators
  BY <1>6, EndBlockValidatorsStep
<1>7. CASE CommitValidators
  BY <1>7, CommitValidatorsStep
<1>8. CASE UNCHANGED chainVars
  BY <1>8, QuietStep DEF chainVars, tendermintVars, validatorSets, validatorsVars,
                         ValidatorsInv, ValidatorsTypeOK
<1> QED
  BY <1>1, <1>2, <1>3, <1>4, <1>5, <1>6, <1>7, <1>8 DEF ValidatorsNext

\* The invariant behind the theorems below holds of every history.
THEOREM ValidatorsInvariance == ValidatorsSpec => []ValidatorsInv
BY InitValidators, NextValidators, PTL DEF ValidatorsSpec

\* Powers and updates have their types for any number of keys: a leak, for
\* one, never takes more than there is.
THEOREM ValidatorsTypes == ValidatorsSpec => []ValidatorsTypeOK
<1>1. ValidatorsInv => ValidatorsTypeOK
  BY DEF ValidatorsInv
<1> QED
  BY <1>1, ValidatorsInvariance, PTL

\* The powers the node computes with are those Tendermint has or will have,
\* for any votes, evidence, stakes and releases in any order.
THEOREM TreeAgreement == ValidatorsSpec => []TreeMatchesTendermint
<1>1. ValidatorsInv => TreeMatchesTendermint
  BY DEF ValidatorsInv
<1> QED
  BY <1>1, ValidatorsInvariance, PTL

\* BeginBlock finds every voter, every proposer and every accused validator in
\* validatorTree.
THEOREM VotersFound == ValidatorsSpec => []VotersHaveStakes
<1>1. ValidatorsInv => VotersHaveStakes
  BY DEF ValidatorsInv
<1> QED
  BY <1>1, ValidatorsInvariance, PTL

\* A block begins with BeginBlock and no other step.
LEMMA BeginningSteps ==
    ASSUME ValidatorsNext, BlockBegins
    PROVE  \E signed \in SUBSET Keys, proposer \in Keys, byzantine \in SUBSET everSet :
             BeginBlockValidators(signed, proposer, byzantine)
BY DEF ValidatorsNext, BlockBegins, InitChainValidators, TmInitChain, ExecStakeValidator,
       ExecReleaseValidator, ExecOtherValidators, TmDeliverTx, EndBlockValidators, TmEndBlock,
       CommitValidators, TmCommit

\* Who has no stake is not paid for a vote or a proposal out of the sets
\* Tendermint still has.
THEOREM NoUnearnedReward == ValidatorsSpec => NoRewardWithoutStake
<1> DEFINE Unpaid == BlockBegins =>
             \A k \in DOMAIN validatorTree : validatorTree[k] = 0 => validatorTree'[k] = 0
<1>1. ValidatorsInv /\ [ValidatorsNext]_chainVars => [Unpaid]_chainVars
  <2> SUFFICES ASSUME ValidatorsInv, ValidatorsNext, BlockBegins,
                      NEW k \in DOMAIN validatorTree, validatorTree[k] = 0
               PROVE  validatorTree'[k] = 0
    OBVIOUS
  <2>1. PICK signed \in SUBSET Keys, proposer \in Keys, byzantine \in SUBSET everSet :
               BeginBlockValidators(signed, proposer, byzantine)
    BY BeginningSteps
  <2>2. k \notin Revalued(signed, proposer)
    BY DEF Revalued
  <2> QED
    BY <2>1, <2>2, BeginBlockEffect
<1> QED
  BY <1>1, ValidatorsInvariance, PTL DEF ValidatorsSpec, NoRewardWithoutStake

\* The last word of BeginBlock about a punished validator is the punishment.
THEOREM Punished == ValidatorsSpec => PunishmentIsLast
<1> DEFINE Final == \A signed, byzantine \in SUBSET Keys, proposer \in Keys :
             BeginBlockValidators(signed, proposer, byzantine) =>
               \A k \in byzantine :
                 /\ validatorTree'[k] = 0
                 /\ valUpdates'[Rightmost(valUpdates', k)].Power = 0
<1>1. ValidatorsInv => Final
  <2> SUFFICES ASSUME ValidatorsInv, NEW signed \in SUBSET Keys, NEW byzantine \in SUBSET Keys,
                      NEW proposer \in Keys, BeginBlockValidators(signed, proposer, byzantine),
                      NEW k \in byzantine
               PROVE  validatorTree'[k] = 0 /\ LastPower(valUpdates', k) = 0
    BY DEF LastPower
  <2> QED
    BY BeginBlockEffect
<1> QED
  BY <1>1, ValidatorsInvariance, PTL DEF ValidatorsSpec, PunishmentIsLast

\* Without evidence BeginBlock (app.go) returns updates Tendermint can apply,
\* unless the leaks have left nobody with power; then it never can.
THEOREM LeaksAccepted == ValidatorsSpec => LeakUpdatesAccepted
<1> DEFINE updates == removeDuplicateValidatorUpdates(valUpdates')
           Applied == \A signed \in SUBSET Keys, proposer \in Keys :
             BeginBlockValidators(signed, proposer, {}) =>
               (Accepted(updates) <=> TotalPower(validatorTree') > 0)
<1>1. ValidatorsInv => Applied
  <2> SUFFICES ASSUME ValidatorsInv, NEW signed \in SUBSET Keys, NEW proposer \in Keys,
                      BeginBlockValidators(signed, proposer, {})
               PROVE  Accepted(updates) <=> TotalPower(validatorTree') > 0
    OBVIOUS
  <2> DEFINE moved == Revalued(signed, proposer)
             S == DOMAIN validatorTree
  <2>1. /\ moved \subseteq S /\ S \subseteq Keys /\ DOMAIN validatorTree' = S
        /\ UpdatedKeys(valUpdates') = moved
        /\ \A k \in moved : LastPower(valUpdates', k) = validatorTree'[k]
        /\ \A k \in S \ moved : validatorTree'[k] = validatorTree[k]
    <3>1. PICK none : none = {}
      OBVIOUS
    <3>2. BeginBlockValidators(signed, proposer, none)
      BY <3>1
    <3>3. /\ UpdatedKeys(valUpdates') = moved \cup none
          /\ \A k \in moved \cup none : LastPower(valUpdates', k) = validatorTree'[k]
          /\ \A k \in S : validatorTree'[k] = IF k \in none THEN 0
                                              ELSE IF k \in moved THEN PowerAfter(k, proposer)
                                              ELSE validatorTree[k]
          /\ moved \subseteq S /\ S \subseteq Keys /\ DOMAIN validatorTree' = S
      <4> HIDE DEF moved, S
      <4> QED
        BY <3>2, BeginBlockEffect DEF moved, S
    <3> HIDE DEF moved, S
    <3> QED
      BY <3>1, <3>3
  <2>2. DOMAIN updates = moved /\ \A k \in moved : updates[k] = validatorTree'[k]
    BY <2>1 DEF removeDuplicateValidatorUpdates, LastPower
  <2>3. \A k \in S : validatorTree[k] \in Nat /\ validatorTree'[k] \in Nat
    BY <2>1, BeginBlockStep DEF ValidatorsInv, ValidatorsTypeOK, IsMap
  <2>4. ASSUME NEW k \in S PROVE validatorTree[k] > 0 <=> k \in DOMAIN nextSet
    <3>1. PowerIn(k) = validatorTree[k]
      BY <2>1, <2>4, Pending DEF ValidatorsInv, TreeMatchesTendermint, StakeOf,
                                BeginBlockValidators, TmBeginBlock
    <3>2. k \in DOMAIN nextSet => nextSet[k] \in Nat \ {0}
      BY DEF ValidatorsInv, ValidatorsTypeOK, IsMap
    <3> QED
      BY <3>1, <3>2 DEF PowerIn
  <2>5. \A k \in moved : k \in DOMAIN nextSet
    BY <2>1, <2>3, <2>4 DEF Revalued
  <2>6. DOMAIN nextSet \subseteq S
    BY DEF ValidatorsInv, VotersHaveStakes, BeginBlockValidators, TmBeginBlock
  <2>7. Accepted(updates) <=> \E k \in S : validatorTree'[k] > 0
    <3> HIDE DEF updates, moved, S
    <3>1. Accepted(updates) <=> \/ \E k \in moved : validatorTree'[k] > 0
                               \/ \E k \in DOMAIN nextSet : k \notin moved
      BY <2>2, <2>5 DEF Accepted
    <3>2. \A k \in S \ moved : validatorTree'[k] > 0 <=> k \in DOMAIN nextSet
      BY <2>1, <2>4
    <3> QED
      BY <2>1, <2>6, <3>1, <3>2
  <2>8. TotalPower(validatorTree') > 0 <=> \E k \in S : validatorTree'[k] > 0
    <3>1. IsFiniteSet(S)
      BY <2>1, GenesisPowersAssumption, FS_Subset
    <3>2. PICK tree : tree = validatorTree'
      OBVIOUS
    <3>3. TotalPower(tree) = SumOver(tree, S) /\ \A k \in S : tree[k] \in Nat
      BY <2>1, <2>3, <3>2 DEF TotalPower, SumOver
    <3>4. SumOver(tree, S) > 0 <=> \E k \in S : tree[k] > 0
      BY <3>1, <3>3, SumPositive
    <3> QED
      BY <3>2, <3>3, <3>4
  <2> QED
    BY <2>7, <2>8
<1> QED
  BY <1>1, ValidatorsInvariance, PTL DEF ValidatorsSpec, LeakUpdatesAccepted

\* The reward and the fees go to the proposer; a leak and a punishment take.
LEMMA BeginMints ==
    ASSUME ValidatorsInv, NEW signed, NEW proposer, NEW byzantine,
           BeginBlockValidators(signed, proposer, byzantine)
    PROVE  TotalPower(validatorTree') <= TotalPower(validatorTree) + blockReward + totalFees
<1> DEFINE S == DOMAIN validatorTree
           m == blockReward + totalFees
<1>1. IsFiniteSet(S) /\ DOMAIN validatorTree' = S
  <2>1. S \subseteq Keys /\ DOMAIN validatorTree' = S
    BY BeginBlockEffect
  <2> QED
    BY <2>1, GenesisPowersAssumption, FS_Subset
<1>2. blockReward \in Nat /\ totalFees \in Nat /\ m \in Nat
  BY ValidatorsAssumption, WordAssumption DEF ValidatorsInv, ValidatorsTypeOK, UInt32
<1>3. ASSUME NEW k \in S
      PROVE  /\ validatorTree[k] \in Nat /\ validatorTree'[k] \in Int
             /\ validatorTree'[k] <= validatorTree[k] + m
             /\ k # proposer => validatorTree'[k] <= validatorTree[k]
  <2>1. validatorTree[k] \in Nat
    BY DEF ValidatorsInv, ValidatorsTypeOK, IsMap
  <2>2. validatorTree'[k] = IF k \in byzantine THEN 0
                            ELSE IF k \in Revalued(signed, proposer) THEN PowerAfter(k, proposer)
                            ELSE validatorTree[k]
    BY BeginBlockEffect
  <2>3. CASE k \in byzantine \/ k \notin Revalued(signed, proposer)
    BY <1>2, <2>1, <2>2, <2>3
  <2>4. CASE k \in Revalued(signed, proposer)
    <3> DEFINE leak == Leak(Rewarded(k, proposer), Cardinality(DOMAIN lastSet))
    <3>1. PowerAfter(k, proposer) = Rewarded(k, proposer) - leak
      BY DEF PowerAfter
    <3>2. leak \in Nat
      BY <2>4, LeakType DEF BeginBlockValidators, TmBeginBlock
    <3>3. Rewarded(k, proposer) = IF k = proposer THEN validatorTree[k] + m ELSE validatorTree[k]
      BY <1>2, <2>1 DEF Rewarded
    <3> HIDE DEF leak, m
    <3> QED
      BY <1>2, <2>1, <2>2, <3>1, <3>2, <3>3
  <2> QED
    BY <2>3, <2>4
<1>4. SumOver(validatorTree', S) <= SumOver(validatorTree, S) + m
  <2> HIDE DEF m
  <2>1. PICK tree : tree = validatorTree'
    OBVIOUS
  <2>2. \A k \in S : tree[k] \in Int /\ validatorTree[k] \in Int /\ tree[k] <= validatorTree[k] + m
    BY <1>3, <2>1
  <2>3. \A k \in S \ {proposer} : tree[k] <= validatorTree[k]
    BY <1>3, <2>1
  <2>4. SumOver(tree, S) <= SumOver(validatorTree, S) + m
    BY <1>1, <1>2, <2>2, <2>3, SumOneMore
  <2> QED
    BY <2>1, <2>4
<1>5. SumOver(validatorTree, S) \in Int
  BY <1>1, <1>3, SumRemove
<1>6. /\ TotalPower(validatorTree') = SumOver(validatorTree', S)
      /\ TotalPower(validatorTree) = SumOver(validatorTree, S)
  BY <1>1 DEF TotalPower, SumOver
<1> QED
  BY <1>2, <1>4, <1>5, <1>6

\* BeginBlock (app.go) mints at most the reward and the fees it hands out,
\* whoever is rewarded, leaks and is punished, for any number of validators.
THEOREM Minting == ValidatorsSpec => MintBounded
<1> DEFINE Bounded == BlockBegins =>
             TotalPower(validatorTree') <= TotalPower(validatorTree) + blockReward + totalFees
<1>1. ValidatorsInv /\ [ValidatorsNext]_chainVars => Bounded
  <2> SUFFICES ASSUME ValidatorsInv, [ValidatorsNext]_chainVars, BlockBegins
               PROVE  TotalPower(validatorTree') <= TotalPower(validatorTree) + blockReward + totalFees
    OBVIOUS
  <2>1. ValidatorsNext
    BY DEF BlockBegins, chainVars, tendermintVars
  <2>2. PICK signed \in SUBSET Keys, proposer \in Keys, byzantine \in SUBSET everSet :
               BeginBlockValidators(signed, proposer, byzantine)
    BY <2>1, BeginningSteps
  <2> QED
    BY <2>2, BeginMints
<1> QED
  BY <1>1, ValidatorsInvariance, PTL DEF ValidatorsSpec, MintBounded

=============================================================================
