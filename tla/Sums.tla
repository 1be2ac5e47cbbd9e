-------------------------------- MODULE Sums --------------------------------
(***************************************************************************)
(* Lemmas about the sum of a function over a finite set, in which several  *)
(* of the project's modules state that money, goods, fighters and warp     *)
(* power are neither made nor lost.                                        *)
(*                                                                         *)
(* The sum is a recursive function over the subsets of the set. Its facts  *)
(* are proved without an induction rule: of the subsets for which a fact   *)
(* fails one is smallest (Smallest), and for that one it holds.            *)
(***************************************************************************)
EXTENDS Integers, Sequences, FiniteSets, Functions, FiniteSetTheorems, TLAPS

\* The equation of the recursive function in MapThenFoldSet, for a sum.
Chosen(s) == CHOOSE x \in s : TRUE
Adds(g, f, S) ==
  g = [s \in SUBSET S |-> IF s = {} THEN 0 ELSE f[Chosen(s)] + g[s \ {Chosen(s)}]]

\* A family of subsets of a finite set has a smallest member.
LEMMA Smallest ==
  ASSUME NEW S, IsFiniteSet(S), NEW F, F \subseteq SUBSET S, F # {}
  PROVE  \E T \in F : \A U \in F : U \subseteq T => U = T
<1>1. IsWellFoundedOn(StrictSubsetOrdering(S), FiniteSubsetsOf(S))
  BY FS_StrictSubsetOrderingWellFounded
<1>2. FiniteSubsetsOf(S) = SUBSET S
  BY FS_FiniteSubsetsOfFinite
<1>3. IsWellFoundedOn(StrictSubsetOrdering(S), SUBSET S)
  BY <1>1, <1>2
<1>4. \E T \in F : \A U \in F : ~(<<U, T>> \in StrictSubsetOrdering(S))
  BY <1>3, WFMin
<1>. QED
  BY <1>4 DEF StrictSubsetOrdering

\* What the library's definition of a sum comes to.
LEMMA SumIsChosen ==
  ASSUME NEW f, NEW S
  PROVE  SumFunctionOnSet(f, S) = (CHOOSE g : Adds(g, f, S))[S]
BY DEF SumFunctionOnSet, FoldFunctionOnSet, MapThenFoldSet, Adds, Chosen

LEMMA ChosenIsIn ==
  ASSUME NEW S, S # {}
  PROVE  Chosen(S) \in S
BY DEF Chosen

\* Two functions that solve the equation agree where both are defined.
LEMMA OneSolution ==
  ASSUME NEW f, NEW S, NEW T, IsFiniteSet(T), T \subseteq S,
         NEW g, Adds(g, f, S), NEW h, Adds(h, f, T)
  PROVE  g[T] = h[T]
<1>. DEFINE F == {U \in SUBSET T : g[U] # h[U]}
<1>1. SUFFICES ASSUME F # {} PROVE FALSE
  OBVIOUS
<1>2. PICK U \in F : \A V \in F : V \subseteq U => V = U
  <2>. HIDE DEF F
  <2>1. F \subseteq SUBSET T
    BY DEF F
  <2>. QED
    BY <1>1, <2>1, Smallest
<1>. DEFINE V == U \ {Chosen(U)}
<1>3. U # {}
  BY DEF Adds
<1>4. g[V] = h[V]
  BY <1>2, <1>3, ChosenIsIn
<1>5. g[U] = f[Chosen(U)] + g[V] /\ h[U] = f[Chosen(U)] + h[V]
  BY <1>3 DEF Adds
<1>. QED
  BY <1>4, <1>5

\* The equation has a solution.
LEMMA SomeSolution ==
  ASSUME NEW f, NEW S, IsFiniteSet(S)
  PROVE  \E g : Adds(g, f, S)
<1>. DEFINE F == {U \in SUBSET S : ~\E g : Adds(g, f, U)}
<1>1. SUFFICES ASSUME F # {} PROVE FALSE
  OBVIOUS
<1>2. PICK T \in F : \A V \in F : V \subseteq T => V = T
  <2>. HIDE DEF F
  <2>1. F \subseteq SUBSET S
    BY DEF F
  <2>. QED
    BY <1>1, <2>1, Smallest
<1>. DEFINE Part(V) == CHOOSE g : Adds(g, f, V)
            G == [s \in SUBSET T |->
                    IF s = {} THEN 0
                    ELSE f[Chosen(s)] + Part(s \ {Chosen(s)})[s \ {Chosen(s)}]]
<1>3. ASSUME NEW V \in SUBSET T, V # T
      PROVE  Adds(Part(V), f, V)
  BY <1>2, <1>3
<1>. HIDE DEF Part
<1>4. ASSUME NEW V \in SUBSET T, V # T
      PROVE  G[V] = Part(V)[V]
  <2>1. Part(V) = [s \in SUBSET V |-> IF s = {} THEN 0
                     ELSE f[Chosen(s)] + Part(V)[s \ {Chosen(s)}]]
    BY <1>3, <1>4 DEF Adds
  <2>2. CASE V = {}
    BY <2>1, <2>2
  <2>3. CASE V # {}
    <3>. DEFINE W == V \ {Chosen(V)}
    <3>1. Chosen(V) \in V
      BY <2>3, ChosenIsIn
    <3>2. W \subseteq V /\ W \subseteq T /\ W # T
      BY <3>1
    <3>3. IsFiniteSet(W)
      BY <3>2, FS_Subset
    <3>4. Part(V)[W] = Part(W)[W]
      BY <1>3, <1>4, <3>2, <3>3, OneSolution
    <3>5. Part(V)[V] = f[Chosen(V)] + Part(V)[W]
      BY <2>1, <2>3
    <3>6. G[V] = f[Chosen(V)] + Part(W)[W]
      BY <2>3
    <3>. QED
      BY <3>4, <3>5, <3>6
  <2>. QED
    BY <2>2, <2>3
<1>5. ASSUME NEW s \in SUBSET T, s # {}
      PROVE  G[s] = f[Chosen(s)] + G[s \ {Chosen(s)}]
  <2>. DEFINE W == s \ {Chosen(s)}
  <2>1. W \subseteq T /\ W # T
    BY <1>5, ChosenIsIn
  <2>2. G[W] = Part(W)[W]
    <3>. HIDE DEF G, W
    <3>. QED
      BY <1>4, <2>1
  <2>3. G[s] = f[Chosen(s)] + Part(W)[W]
    BY <1>5
  <2>. HIDE DEF G
  <2>. QED
    BY <2>2, <2>3
<1>6. Adds(G, f, T)
  <2>1. G = [s \in SUBSET T |-> G[s]]
    OBVIOUS
  <2>2. G[{}] = 0
    OBVIOUS
  <2>. HIDE DEF G
  <2>. QED
    BY <1>5, <2>1, <2>2 DEF Adds
<1>. QED
  BY <1>2, <1>6

\* The sum over nothing.
LEMMA SumOfNone ==
  ASSUME NEW f
  PROVE  SumFunctionOnSet(f, {}) = 0
<1>1. \E g : Adds(g, f, {})
  BY FS_EmptySet, SomeSolution
<1>2. Adds(CHOOSE g : Adds(g, f, {}), f, {})
  BY <1>1
<1>. QED
  BY <1>2, SumIsChosen DEF Adds

\* The sum is one element's value and the sum of the rest.
LEMMA SumOfChosen ==
  ASSUME NEW f, NEW S, IsFiniteSet(S), S # {}
  PROVE  SumFunctionOnSet(f, S)
           = f[Chosen(S)] + SumFunctionOnSet(f, S \ {Chosen(S)})
<1>. DEFINE R == S \ {Chosen(S)}
            g == CHOOSE h : Adds(h, f, S)
            r == CHOOSE h : Adds(h, f, R)
<1>1. IsFiniteSet(R) /\ R \subseteq S
  BY FS_Subset
<1>2. Adds(g, f, S)
  BY SomeSolution
<1>3. Adds(r, f, R)
  BY <1>1, SomeSolution
<1>4. SumFunctionOnSet(f, S) = g[S] /\ SumFunctionOnSet(f, R) = r[R]
  BY SumIsChosen
<1>. HIDE DEF g, r
<1>5. g[R] = r[R]
  BY <1>1, <1>2, <1>3, OneSolution
<1>6. g[S] = f[Chosen(S)] + g[R]
  BY <1>2 DEF Adds
<1>. QED
  BY <1>4, <1>5, <1>6

-----------------------------------------------------------------------------
(* What the proofs of the components use.                                  *)

\* A sum of integers is an integer, and of naturals a natural.
LEMMA SumIsInt ==
  ASSUME NEW f, NEW S, IsFiniteSet(S), \A x \in S : f[x] \in Int
  PROVE  SumFunctionOnSet(f, S) \in Int
<1>. DEFINE F == {U \in SUBSET S : SumFunctionOnSet(f, U) \notin Int}
<1>1. SUFFICES ASSUME F # {} PROVE FALSE
  OBVIOUS
<1>2. PICK T \in F : \A V \in F : V \subseteq T => V = T
  <2>. HIDE DEF F
  <2>1. F \subseteq SUBSET S
    BY DEF F
  <2>. QED
    BY <1>1, <2>1, Smallest
<1>3. T # {}
  BY SumOfNone
<1>4. IsFiniteSet(T) /\ Chosen(T) \in T
  BY <1>3, FS_Subset, ChosenIsIn
<1>5. SumFunctionOnSet(f, T \ {Chosen(T)}) \in Int
  BY <1>2, <1>4
<1>. QED
  BY <1>3, <1>4, <1>5, SumOfChosen

LEMMA SumIsNat ==
  ASSUME NEW f, NEW S, IsFiniteSet(S), \A x \in S : f[x] \in Nat
  PROVE  SumFunctionOnSet(f, S) \in Nat
<1>. DEFINE F == {U \in SUBSET S : SumFunctionOnSet(f, U) \notin Nat}
<1>1. SUFFICES ASSUME F # {} PROVE FALSE
  OBVIOUS
<1>2. PICK T \in F : \A V \in F : V \subseteq T => V = T
  <2>. HIDE DEF F
  <2>1. F \subseteq SUBSET S
    BY DEF F
  <2>. QED
    BY <1>1, <2>1, Smallest
<1>3. T # {}
  BY SumOfNone
<1>4. IsFiniteSet(T) /\ Chosen(T) \in T
  BY <1>3, FS_Subset, ChosenIsIn
<1>5. SumFunctionOnSet(f, T \ {Chosen(T)}) \in Nat
  BY <1>2, <1>4
<1>. QED
  BY <1>3, <1>4, <1>5, SumOfChosen

\* Any element may be taken out, not the chosen one alone.
LEMMA SumTakesOut ==
  ASSUME NEW f, NEW S, IsFiniteSet(S), \A x \in S : f[x] \in Int, NEW a \in S
  PROVE  SumFunctionOnSet(f, S) = f[a] + SumFunctionOnSet(f, S \ {a})
<1>. DEFINE Out(U, x) == SumFunctionOnSet(f, U) = f[x] + SumFunctionOnSet(f, U \ {x})
            F == {U \in SUBSET S : ~\A x \in U : Out(U, x)}
<1>1. SUFFICES ASSUME F # {} PROVE FALSE
  OBVIOUS
<1>2. PICK T \in F : \A V \in F : V \subseteq T => V = T
  <2>. HIDE DEF F
  <2>1. F \subseteq SUBSET S
    BY DEF F
  <2>. QED
    BY <1>1, <2>1, Smallest
<1>3. PICK b \in T : ~Out(T, b)
  BY <1>2
<1>. DEFINE c == Chosen(T)
<1>4. IsFiniteSet(T) /\ T # {} /\ c \in T
  BY <1>3, FS_Subset, ChosenIsIn
<1>5. Out(T, c)
  BY <1>4, SumOfChosen
<1>. HIDE DEF c
<1>6. b # c
  BY <1>3, <1>5
<1>7. Out(T \ {c}, b) /\ Out(T \ {b}, c)
  <2>. HIDE DEF Out
  <2>1. \A V \in SUBSET S : V \subseteq T /\ V # T => \A x \in V : Out(V, x)
    BY <1>2
  <2>. QED
    BY <1>4, <1>6, <2>1
<1>8. (T \ {c}) \ {b} = (T \ {b}) \ {c}
  OBVIOUS
<1>9. SumFunctionOnSet(f, (T \ {b}) \ {c}) \in Int /\ f[b] \in Int /\ f[c] \in Int
  <2>1. IsFiniteSet((T \ {b}) \ {c})
    BY <1>4, FS_Subset
  <2>. QED
    BY <1>4, <2>1, SumIsInt
<1>. DEFINE rest == SumFunctionOnSet(f, (T \ {b}) \ {c})
<1>10. SumFunctionOnSet(f, T \ {c}) = f[b] + rest
  BY <1>7, <1>8
<1>11. SumFunctionOnSet(f, T \ {b}) = f[c] + rest
  BY <1>7
<1>12. SumFunctionOnSet(f, T) = f[c] + SumFunctionOnSet(f, T \ {c})
  BY <1>5
<1>13. SumFunctionOnSet(f, T) # f[b] + SumFunctionOnSet(f, T \ {b})
  BY <1>3
<1>. HIDE DEF rest
<1>14. rest \in Int
  BY <1>9 DEF rest
<1>. QED
  BY <1>9, <1>10, <1>11, <1>12, <1>13, <1>14

\* A sum over a set is the sums over two parts of it.
LEMMA SumSplits ==
  ASSUME NEW f, NEW S, IsFiniteSet(S), \A x \in S : f[x] \in Int, NEW T \in SUBSET S
  PROVE  SumFunctionOnSet(f, S) = SumFunctionOnSet(f, T) + SumFunctionOnSet(f, S \ T)
<1>. DEFINE F == {U \in SUBSET S : SumFunctionOnSet(f, S)
                                   # SumFunctionOnSet(f, U) + SumFunctionOnSet(f, S \ U)}
<1>1. SUFFICES ASSUME F # {} PROVE FALSE
  OBVIOUS
<1>2. PICK U \in F : \A V \in F : V \subseteq U => V = U
  <2>. HIDE DEF F
  <2>1. F \subseteq SUBSET S
    BY DEF F
  <2>. QED
    BY <1>1, <2>1, Smallest
<1>3. SumFunctionOnSet(f, S) \in Int
  BY SumIsInt
<1>4. U # {}
  <2>1. S \ {} = S
    OBVIOUS
  <2>. QED
    BY <1>3, <2>1, SumOfNone
<1>5. PICK a \in U : TRUE
  BY <1>4
<1>. DEFINE V == U \ {a}
            W == S \ U
<1>6. /\ IsFiniteSet(U) /\ IsFiniteSet(V) /\ IsFiniteSet(W) /\ IsFiniteSet(S \ V)
      /\ V \in SUBSET S /\ V # U /\ V \subseteq U /\ (S \ V) \ {a} = W /\ a \in S \ V
  BY <1>5, FS_Subset
<1>7. SumFunctionOnSet(f, S) = SumFunctionOnSet(f, V) + SumFunctionOnSet(f, S \ V)
  BY <1>2, <1>6
<1>8. SumFunctionOnSet(f, U) = f[a] + SumFunctionOnSet(f, V)
  BY <1>5, <1>6, SumTakesOut
<1>9. SumFunctionOnSet(f, S \ V) = f[a] + SumFunctionOnSet(f, W)
  <2>. HIDE DEF V, W
  <2>1. SumFunctionOnSet(f, S \ V) = f[a] + SumFunctionOnSet(f, (S \ V) \ {a})
    BY <1>6, SumTakesOut
  <2>. QED
    BY <1>6, <2>1
<1>10. /\ SumFunctionOnSet(f, V) \in Int /\ SumFunctionOnSet(f, W) \in Int /\ f[a] \in Int
  BY <1>5, <1>6, SumIsInt
<1>11. SumFunctionOnSet(f, S) # SumFunctionOnSet(f, U) + SumFunctionOnSet(f, W)
  BY <1>2
<1>. HIDE DEF V, W
<1>. QED
  BY <1>7, <1>8, <1>9, <1>10, <1>11

\* Only the values in the set matter.
LEMMA SumOfSame ==
  ASSUME NEW f, NEW g, NEW S, IsFiniteSet(S), \A x \in S : f[x] = g[x]
  PROVE  SumFunctionOnSet(f, S) = SumFunctionOnSet(g, S)
<1>. DEFINE F == {U \in SUBSET S : SumFunctionOnSet(f, U) # SumFunctionOnSet(g, U)}
<1>1. SUFFICES ASSUME F # {} PROVE FALSE
  OBVIOUS
<1>2. PICK T \in F : \A V \in F : V \subseteq T => V = T
  <2>. HIDE DEF F
  <2>1. F \subseteq SUBSET S
    BY DEF F
  <2>. QED
    BY <1>1, <2>1, Smallest
<1>3. T # {}
  BY SumOfNone
<1>4. IsFiniteSet(T) /\ Chosen(T) \in T
  BY <1>3, FS_Subset, ChosenIsIn
<1>5. SumFunctionOnSet(f, T \ {Chosen(T)}) = SumFunctionOnSet(g, T \ {Chosen(T)})
  BY <1>2, <1>4
<1>. QED
  <2>1. SumFunctionOnSet(f, T) # SumFunctionOnSet(g, T)
    BY <1>2
  <2>2. SumFunctionOnSet(f, T) = f[Chosen(T)] + SumFunctionOnSet(f, T \ {Chosen(T)})
    BY <1>3, <1>4, SumOfChosen
  <2>3. SumFunctionOnSet(g, T) = g[Chosen(T)] + SumFunctionOnSet(g, T \ {Chosen(T)})
    BY <1>3, <1>4, SumOfChosen
  <2>4. f[Chosen(T)] = g[Chosen(T)]
    BY <1>4
  <2>. QED
    BY <1>5, <2>1, <2>2, <2>3, <2>4

\* One value changes: the sum changes by as much.
LEMMA SumChanges ==
  ASSUME NEW f, NEW g, NEW S, IsFiniteSet(S), NEW a \in S,
         \A x \in S : f[x] \in Int /\ g[x] \in Int,
         \A x \in S \ {a} : g[x] = f[x]
  PROVE  SumFunctionOnSet(g, S) = SumFunctionOnSet(f, S) - f[a] + g[a]
<1>1. IsFiniteSet(S \ {a})
  BY FS_Subset
<1>2. SumFunctionOnSet(g, S \ {a}) = SumFunctionOnSet(f, S \ {a})
  BY <1>1, SumOfSame
<1>3. SumFunctionOnSet(f, S) = f[a] + SumFunctionOnSet(f, S \ {a})
  BY SumTakesOut
<1>4. SumFunctionOnSet(g, S) = g[a] + SumFunctionOnSet(g, S \ {a})
  BY SumTakesOut
<1>5. SumFunctionOnSet(f, S \ {a}) \in Int /\ f[a] \in Int /\ g[a] \in Int
  BY <1>1, SumIsInt
<1>. QED
  BY <1>2, <1>3, <1>4, <1>5

\* A constant, as often as there are elements.
LEMMA SumOfConstant ==
  ASSUME NEW f, NEW S, IsFiniteSet(S), NEW k \in Int, \A x \in S : f[x] = k
  PROVE  SumFunctionOnSet(f, S) = Cardinality(S) * k
<1>. DEFINE F == {U \in SUBSET S : SumFunctionOnSet(f, U) # Cardinality(U) * k}
<1>1. SUFFICES ASSUME F # {} PROVE FALSE
  OBVIOUS
<1>2. PICK T \in F : \A V \in F : V \subseteq T => V = T
  <2>. HIDE DEF F
  <2>1. F \subseteq SUBSET S
    BY DEF F
  <2>. QED
    BY <1>1, <2>1, Smallest
<1>3. T # {}
  BY SumOfNone, FS_EmptySet
<1>4. IsFiniteSet(T) /\ Chosen(T) \in T
  BY <1>3, FS_Subset, ChosenIsIn
<1>. DEFINE n == Cardinality(T \ {Chosen(T)})
<1>5. n \in Nat /\ Cardinality(T) = n + 1
  <2>1. IsFiniteSet(T \ {Chosen(T)})
    BY <1>4, FS_Subset
  <2>2. Cardinality(T \ {Chosen(T)}) = Cardinality(T) - 1
    BY <1>4, FS_RemoveElement
  <2>. QED
    BY <1>4, <2>1, <2>2, FS_CardinalityType
<1>6. SumFunctionOnSet(f, T \ {Chosen(T)}) = n * k
  BY <1>2, <1>4
<1>. HIDE DEF n
<1>7. SumFunctionOnSet(f, T) = k + n * k
  BY <1>3, <1>4, <1>6, SumOfChosen
<1>8. k + n * k = (n + 1) * k
  BY <1>5
<1>. QED
  BY <1>2, <1>5, <1>7, <1>8

\* A sum of what is nowhere more is not more.
LEMMA SumAtMost ==
  ASSUME NEW f, NEW g, NEW S, IsFiniteSet(S),
         \A x \in S : f[x] \in Int /\ g[x] \in Int /\ f[x] <= g[x]
  PROVE  SumFunctionOnSet(f, S) <= SumFunctionOnSet(g, S)
<1>. DEFINE F == {U \in SUBSET S : ~(SumFunctionOnSet(f, U) <= SumFunctionOnSet(g, U))}
<1>1. SUFFICES ASSUME F # {} PROVE FALSE
  OBVIOUS
<1>2. PICK T \in F : \A V \in F : V \subseteq T => V = T
  <2>. HIDE DEF F
  <2>1. F \subseteq SUBSET S
    BY DEF F
  <2>. QED
    BY <1>1, <2>1, Smallest
<1>3. T # {}
  BY SumOfNone
<1>4. PICK a \in T : TRUE
  BY <1>3
<1>5. IsFiniteSet(T) /\ IsFiniteSet(T \ {a}) /\ T \ {a} # T
  BY <1>4, FS_Subset
<1>6. SumFunctionOnSet(f, T \ {a}) <= SumFunctionOnSet(g, T \ {a})
  BY <1>2, <1>5
<1>7. /\ SumFunctionOnSet(f, T) = f[a] + SumFunctionOnSet(f, T \ {a})
      /\ SumFunctionOnSet(g, T) = g[a] + SumFunctionOnSet(g, T \ {a})
  BY <1>4, <1>5, SumTakesOut
<1>8. SumFunctionOnSet(f, T \ {a}) \in Int /\ SumFunctionOnSet(g, T \ {a}) \in Int
  BY <1>5, SumIsInt
<1>9. f[a] \in Int /\ g[a] \in Int /\ f[a] <= g[a]
  BY <1>4
<1>10. SumFunctionOnSet(f, T) <= SumFunctionOnSet(g, T)
  BY <1>6, <1>7, <1>8, <1>9
<1>. QED
  BY <1>2, <1>10
-----------------------------------------------------------------------------
(* Lists of the elements of a finite set, by a rank.                       *)

\* Of a finite set of ranked elements one has the greatest rank.
LEMMA Greatest ==
  ASSUME NEW T, IsFiniteSet(T), T # {}, NEW f, \A x \in T : f[x] \in Int
  PROVE  \E m \in T : \A k \in T : f[k] <= f[m]
<1>. DEFINE High(n) == {k \in T : f[n] <= f[k]}
            F == {High(n) : n \in T}
<1>1. PICK U \in F : \A V \in F : V \subseteq U => V = U
  <2>. HIDE DEF F
  <2>1. F # {} /\ F \subseteq SUBSET T
    BY DEF F
  <2>. QED
    BY <2>1, Smallest
<1>2. PICK n \in T : U = High(n)
  BY <1>1
<1>3. ASSUME NEW k \in T, f[n] < f[k] PROVE FALSE
  <2>1. High(k) \subseteq U /\ n \in U /\ n \notin High(k)
    BY <1>2, <1>3
  <2>2. High(k) \in F
    OBVIOUS
  <2>. HIDE DEF F, High
  <2>. QED
    BY <1>1, <2>1, <2>2
<1>. QED
  BY <1>3

Rises(q, f) == \A m, n \in DOMAIN q : m < n => f[q[m]] < f[q[n]]

\* When no two elements have one rank, they can be listed by it.
LEMMA Ranked ==
  ASSUME NEW S, IsFiniteSet(S), NEW f, \A x \in S : f[x] \in Int,
         \A x, y \in S : f[x] = f[y] => x = y
  PROVE  \E q \in [1..Cardinality(S) -> S] : Rises(q, f)
<1>. DEFINE F == {T \in SUBSET S : ~\E q \in [1..Cardinality(T) -> T] : Rises(q, f)}
<1>1. SUFFICES ASSUME F # {} PROVE FALSE
  OBVIOUS
<1>2. PICK T \in F : \A V \in F : V \subseteq T => V = T
  <2>. HIDE DEF F
  <2>1. F \subseteq SUBSET S
    BY DEF F
  <2>. QED
    BY <1>1, <2>1, Smallest
<1>3. T \subseteq S /\ IsFiniteSet(T) /\ \A x \in T : f[x] \in Int
  BY FS_Subset
<1>4. T # {}
  <2>1. SUFFICES ASSUME T = {} PROVE FALSE
    OBVIOUS
  <2>2. Cardinality(T) = 0
    BY <2>1, FS_EmptySet
  <2>. DEFINE s == [x \in 1..0 |-> 0]
  <2>3. s \in [1..Cardinality(T) -> T] /\ Rises(s, f)
    BY <2>2 DEF Rises
  <2>. QED
    BY <1>2, <2>3
<1>5. PICK m \in T : \A k \in T : f[k] <= f[m]
  BY <1>3, <1>4, Greatest
<1>. DEFINE R == T \ {m}
            c == Cardinality(R)
<1>6. c \in Nat /\ Cardinality(T) = c + 1
  <2>1. IsFiniteSet(R) /\ Cardinality(R) = Cardinality(T) - 1
    BY <1>3, <1>5, FS_RemoveElement
  <2>. QED
    BY <1>3, <2>1, FS_CardinalityType
<1>7. PICK r \in [1..c -> R] : Rises(r, f)
  <2>1. R \in SUBSET S /\ R \subseteq T /\ R # T
    BY <1>5
  <2>2. R \notin F
    <3>. HIDE DEF F
    <3>. QED
      BY <1>2, <2>1
  <2>. QED
    BY <2>1, <2>2
<1>. DEFINE s == [n \in 1..(c + 1) |-> IF n = c + 1 THEN m ELSE r[n]]
<1>. HIDE DEF c
<1>8. s \in [1..(c + 1) -> T]
  BY <1>6, <1>7
<1>9. Rises(s, f)
  <2>1. SUFFICES ASSUME NEW i \in 1..(c + 1), NEW j \in 1..(c + 1), i < j
                 PROVE  f[s[i]] < f[s[j]]
    BY <1>8 DEF Rises
  <2>2. i \in 1..c /\ s[i] = r[i] /\ r[i] \in R
    BY <1>6, <1>7, <2>1
  <2>3. CASE j = c + 1
    <3>1. s[j] = m /\ r[i] \in T /\ r[i] # m /\ f[r[i]] # f[m] /\ f[r[i]] <= f[m]
      BY <1>3, <1>5, <2>2, <2>3
    <3>. QED
      BY <1>3, <1>5, <2>2, <3>1
  <2>4. CASE j # c + 1
    <3>1. j \in 1..c /\ s[j] = r[j]
      BY <1>6, <2>4
    <3>. QED
      BY <1>7, <2>1, <2>2, <3>1 DEF Rises
  <2>. QED
    BY <2>3, <2>4
<1>. QED
  BY <1>2, <1>6, <1>8, <1>9

\* A list as long as the set, with nothing twice, has all of it.
LEMMA ListsAll ==
  ASSUME NEW S, IsFiniteSet(S), NEW q \in [1..Cardinality(S) -> S],
         \A m, n \in DOMAIN q : q[m] = q[n] => m = n
  PROVE  q \in Seq(S) /\ {q[n] : n \in DOMAIN q} = S
<1>1. Cardinality(S) \in Nat
  BY FS_CardinalityType
<1>2. q \in Injection(1..Cardinality(S), S)
  BY DEF Injection, IsInjective
<1>3. Cardinality(1..Cardinality(S)) = Cardinality(S)
  BY <1>1, FS_Interval
<1>4. q \in Surjection(1..Cardinality(S), S)
  BY <1>2, <1>3, FS_Injection
<1>. QED
  BY <1>1, <1>4 DEF Surjection

=============================================================================
