-------------------------------- MODULE Sums --------------------------------
(***************************************************************************)
(* Lemmas about the sum of a function over a finite set, as the models use *)
(* it for units on hold, money on a ledger and products of a file: what it *)
(* is when the set is empty or one element is taken out, when it grows and *)
(* when it stays.  Induction over the set is by a smallest counterexample. *)
(***************************************************************************)
EXTENDS Integers, FiniteSets, Functions, FiniteSetTheorems, WellFoundedInduction, TLAPS

\* The element a sum over a set takes first.
Chosen(s) == CHOOSE x \in s : TRUE

\* Table g has the sum of f over every subset of S: the equation that
\* SumFunctionOnSet chooses its function by.
IsSum(g, S, f) ==
  g = [s \in SUBSET S |-> IF s = {} THEN 0 ELSE f[Chosen(s)] + g[s \ {Chosen(s)}]]

\* A family of subsets of a finite set has a smallest member.
LEMMA Smallest ==
  ASSUME NEW S, IsFiniteSet(S), NEW B, B \subseteq SUBSET S, B # {}
  PROVE  \E T \in B : \A U \in B : U \subseteq T => U = T
<1>1. IsWellFoundedOn(StrictSubsetOrdering(S), FiniteSubsetsOf(S))
  BY FS_StrictSubsetOrderingWellFounded
<1>2. B \subseteq FiniteSubsetsOf(S)
  BY FS_Subset DEF FiniteSubsetsOf
<1>3. \E T \in B : \A U \in B : ~(<<U, T>> \in StrictSubsetOrdering(S))
  BY <1>1, <1>2, WFMin
<1> QED BY <1>3 DEF StrictSubsetOrdering

\* A family that has the empty set, and with a set the set and one element more,
\* has every finite set.
LEMMA SetInduction ==
  ASSUME NEW S, IsFiniteSet(S), NEW G, {} \in G,
         \A T \in SUBSET S, x \in S : T \in G /\ x \notin T => T \union {x} \in G
  PROVE  S \in G
<1> DEFINE B == {T \in SUBSET S : T \notin G}
<1>1. SUFFICES ASSUME S \notin G PROVE FALSE
  OBVIOUS
<1>2. B \subseteq SUBSET S /\ B # {}
  BY <1>1
<1> HIDE DEF B
<1>3. PICK T \in B : \A U \in B : U \subseteq T => U = T
  BY <1>2, Smallest
<1>4. T \subseteq S /\ T \notin G /\ T # {}
  BY <1>3 DEF B
<1>5. PICK x \in T : TRUE
  BY <1>4
<1>6. T \ {x} \in G
  BY <1>3, <1>4, <1>5 DEF B
<1>7. (T \ {x}) \union {x} = T
  BY <1>5
<1> QED BY <1>4, <1>5, <1>6, <1>7

\* What is chosen from a set is in it.
LEMMA ChosenIn == ASSUME NEW s, s # {} PROVE Chosen(s) \in s
BY DEF Chosen

\* One line of such a table.
LEMMA SumTable ==
  ASSUME NEW S, NEW f, NEW g, IsSum(g, S, f), NEW s \in SUBSET S
  PROVE  /\ s = {} => g[s] = 0
         /\ s # {} => g[s] = f[Chosen(s)] + g[s \ {Chosen(s)}]
BY DEF IsSum

\* Two tables agree wherever their functions do.
LEMMA SumsAgree ==
  ASSUME NEW S, NEW T, IsFiniteSet(S), NEW f, NEW e, NEW g, NEW h,
         IsSum(g, S, f), IsSum(h, T, e), S \subseteq T, \A x \in S : f[x] = e[x]
  PROVE  g[S] = h[S]
<1> DEFINE B == {U \in SUBSET S : g[U] # h[U]}
<1>1. SUFFICES ASSUME g[S] # h[S] PROVE FALSE
  OBVIOUS
<1>2. B \subseteq SUBSET S /\ B # {}
  BY <1>1
<1> HIDE DEF B
<1>3. PICK U \in B : \A V \in B : V \subseteq U => V = U
  BY <1>2, Smallest
<1>4. U \in SUBSET S /\ U \in SUBSET T /\ g[U] # h[U]
  BY <1>3 DEF B
<1>5. /\ U = {} => g[U] = 0
      /\ U # {} => g[U] = f[Chosen(U)] + g[U \ {Chosen(U)}]
  BY <1>4, SumTable
<1>6. /\ U = {} => h[U] = 0
      /\ U # {} => h[U] = e[Chosen(U)] + h[U \ {Chosen(U)}]
  BY <1>4, SumTable
<1>7. CASE U = {}
  BY <1>4, <1>5, <1>6, <1>7
<1>8. CASE U # {}
  <2>1. Chosen(U) \in U
    BY <1>8, ChosenIn
  <2>2. g[U \ {Chosen(U)}] = h[U \ {Chosen(U)}]
    BY <2>1, <1>3, <1>4 DEF B
  <2>3. f[Chosen(U)] = e[Chosen(U)]
    BY <2>1, <1>4
  <2> QED BY <1>4, <1>5, <1>6, <1>8, <2>2, <2>3
<1> QED BY <1>7, <1>8

\* A finite set has a table.
LEMMA SumTableExists ==
  ASSUME NEW S, IsFiniteSet(S), NEW f
  PROVE  \E g : IsSum(g, S, f)
<1> DEFINE B == {T \in SUBSET S : ~ \E g : IsSum(g, T, f)}
<1>1. SUFFICES ASSUME ~ \E g : IsSum(g, S, f) PROVE FALSE
  OBVIOUS
<1>2. B \subseteq SUBSET S /\ B # {}
  BY <1>1
<1> HIDE DEF B
<1>3. PICK T \in B : \A V \in B : V \subseteq T => V = T
  BY <1>2, Smallest
<1>4. T \subseteq S /\ ~ \E g : IsSum(g, T, f)
  BY <1>3 DEF B
<1> DEFINE tab(s) == CHOOSE g : IsSum(g, s, f)
<1> HIDE DEF tab
<1>5. ASSUME NEW s \in SUBSET T, s # T PROVE IsSum(tab(s), s, f)
  <2>1. \E g : IsSum(g, s, f)
    BY <1>3, <1>4, <1>5 DEF B
  <2> QED BY <2>1 DEF tab
<1> DEFINE part(s) == IF s = {} THEN 0 ELSE f[Chosen(s)] + tab(s \ {Chosen(s)})[s \ {Chosen(s)}]
           g == [s \in SUBSET T |-> part(s)]
<1>6. ASSUME NEW s \in SUBSET T, s # {}
      PROVE  g[s \ {Chosen(s)}] = tab(s \ {Chosen(s)})[s \ {Chosen(s)}]
  <2> DEFINE u == s \ {Chosen(s)}
  <2>0. SUFFICES g[u] = tab(u)[u]
    OBVIOUS
  <2>1. u \in SUBSET T /\ u # T
    BY <1>6, ChosenIn
  <2>2. IsSum(tab(u), u, f)
    BY <2>1, <1>5
  <2>4. g[u] = part(u)
    BY <2>1
  <2> HIDE DEF g, u
  <2>3. /\ u = {} => tab(u)[u] = 0
        /\ u # {} => tab(u)[u] = f[Chosen(u)] + tab(u)[u \ {Chosen(u)}]
    BY <2>2, SumTable
  <2>5. CASE u = {}
    BY <2>3, <2>4, <2>5 DEF u
  <2>6. CASE u # {}
    <3> DEFINE w == u \ {Chosen(u)}
    <3>1. Chosen(u) \in u
      BY <2>6, ChosenIn
    <3>2. w \in SUBSET T /\ w # T /\ w \subseteq u
      BY <2>1, <3>1
    <3>3. IsSum(tab(w), w, f)
      BY <3>2, <1>5
    <3>4. IsFiniteSet(w)
      BY <3>2, <1>4, FS_Subset
    <3> HIDE DEF w
    <3>5. tab(w)[w] = tab(u)[w]
      BY <3>2, <3>3, <3>4, <2>2, SumsAgree
    <3> QED BY <2>3, <2>4, <2>6, <3>5 DEF w
  <2> QED BY <2>5, <2>6
<1>7. IsSum(g, T, f)
  <2>1. ASSUME NEW s \in SUBSET T
        PROVE  g[s] = IF s = {} THEN 0 ELSE f[Chosen(s)] + g[s \ {Chosen(s)}]
    BY <1>6
  <2>2. g = [s \in SUBSET T |-> g[s]]
    OBVIOUS
  <2> HIDE DEF g
  <2> QED BY <2>1, <2>2 DEF IsSum
<1> HIDE DEF g
<1> QED BY <1>4, <1>7

\* SumFunctionOnSet reads its value from one.
LEMMA SumIsTable ==
  ASSUME NEW S, IsFiniteSet(S), NEW f
  PROVE  \E g : IsSum(g, S, f) /\ SumFunctionOnSet(f, S) = g[S]
<1> DEFINE g == CHOOSE g : IsSum(g, S, f)
<1>1. IsSum(g, S, f)
  BY SumTableExists
<1>2. SumFunctionOnSet(f, S) = g[S]
  BY Zenon DEF SumFunctionOnSet, FoldFunctionOnSet, MapThenFoldSet, IsSum, Chosen
<1> QED BY <1>1, <1>2

\* The sum of nothing, and of one element more or less.
LEMMA SumEmpty == ASSUME NEW f PROVE SumFunctionOnSet(f, {}) = 0
<1>1. IsFiniteSet({})
  BY FS_EmptySet
<1>2. PICK g : IsSum(g, {}, f) /\ SumFunctionOnSet(f, {}) = g[{}]
  BY <1>1, SumIsTable
<1> QED BY <1>2, SumTable

\* The sum depends on the values in the set alone.
LEMMA SumSame ==
  ASSUME NEW S, IsFiniteSet(S), NEW f, NEW e, \A x \in S : f[x] = e[x]
  PROVE  SumFunctionOnSet(f, S) = SumFunctionOnSet(e, S)
<1>1. PICK g : IsSum(g, S, f) /\ SumFunctionOnSet(f, S) = g[S]
  BY SumIsTable
<1>2. PICK h : IsSum(h, S, e) /\ SumFunctionOnSet(e, S) = h[S]
  BY SumIsTable
<1>3. g[S] = h[S]
  BY <1>1, <1>2, SumsAgree
<1> QED BY <1>1, <1>2, <1>3

\* The sum, one element at a time.
LEMMA SumFirst ==
  ASSUME NEW S, IsFiniteSet(S), S # {}, NEW f
  PROVE  SumFunctionOnSet(f, S) = f[Chosen(S)] + SumFunctionOnSet(f, S \ {Chosen(S)})
<1> DEFINE T == S \ {Chosen(S)}
<1>1. PICK g : IsSum(g, S, f) /\ SumFunctionOnSet(f, S) = g[S]
  BY SumIsTable
<1>2. IsFiniteSet(T) /\ T \subseteq S
  BY FS_Subset
<1> HIDE DEF T
<1>3. PICK h : IsSum(h, T, f) /\ SumFunctionOnSet(f, T) = h[T]
  BY <1>2, SumIsTable
<1>4. h[T] = g[T]
  BY <1>1, <1>2, <1>3, SumsAgree
<1>5. g[S] = f[Chosen(S)] + g[T]
  BY <1>1, SumTable DEF T
<1> QED BY <1>1, <1>3, <1>4, <1>5 DEF T

\* Integers add up to an integer.
LEMMA SumInt ==
  ASSUME NEW S, IsFiniteSet(S), NEW f, \A x \in S : f[x] \in Int
  PROVE  SumFunctionOnSet(f, S) \in Int
<1> DEFINE B == {T \in SUBSET S : SumFunctionOnSet(f, T) \notin Int}
<1>1. SUFFICES ASSUME B # {} PROVE FALSE
  OBVIOUS
<1>2. B \subseteq SUBSET S
  OBVIOUS
<1> HIDE DEF B
<1>3. PICK T \in B : \A U \in B : U \subseteq T => U = T
  BY <1>1, <1>2, Smallest
<1>4. T \subseteq S /\ IsFiniteSet(T) /\ SumFunctionOnSet(f, T) \notin Int
  BY <1>3, FS_Subset DEF B
<1>5. T # {}
  BY <1>4, SumEmpty
<1>6. Chosen(T) \in T
  BY <1>5, ChosenIn
<1>7. SumFunctionOnSet(f, T \ {Chosen(T)}) \in Int
  BY <1>3, <1>4, <1>6 DEF B
<1>8. SumFunctionOnSet(f, T) = f[Chosen(T)] + SumFunctionOnSet(f, T \ {Chosen(T)})
  BY <1>4, <1>5, SumFirst
<1> QED BY <1>4, <1>6, <1>7, <1>8

\* The same for naturals.
LEMMA SumNat ==
  ASSUME NEW S, IsFiniteSet(S), NEW f, \A x \in S : f[x] \in Nat
  PROVE  SumFunctionOnSet(f, S) \in Nat
<1> DEFINE B == {T \in SUBSET S : SumFunctionOnSet(f, T) \notin Nat}
<1>1. SUFFICES ASSUME B # {} PROVE FALSE
  OBVIOUS
<1>2. B \subseteq SUBSET S
  OBVIOUS
<1> HIDE DEF B
<1>3. PICK T \in B : \A U \in B : U \subseteq T => U = T
  BY <1>1, <1>2, Smallest
<1>4. T \subseteq S /\ IsFiniteSet(T) /\ SumFunctionOnSet(f, T) \notin Nat
  BY <1>3, FS_Subset DEF B
<1>5. T # {}
  BY <1>4, SumEmpty
<1>6. Chosen(T) \in T
  BY <1>5, ChosenIn
<1>7. SumFunctionOnSet(f, T \ {Chosen(T)}) \in Nat
  BY <1>3, <1>4, <1>6 DEF B
<1>8. SumFunctionOnSet(f, T) = f[Chosen(T)] + SumFunctionOnSet(f, T \ {Chosen(T)})
  BY <1>4, <1>5, SumFirst
<1> QED BY <1>4, <1>6, <1>7, <1>8

\* Whatever element is taken out, the sum is that element and the sum of the rest.
LEMMA SumWithout ==
  ASSUME NEW S, IsFiniteSet(S), NEW f, \A x \in S : f[x] \in Int, NEW y \in S
  PROVE  SumFunctionOnSet(f, S) = f[y] + SumFunctionOnSet(f, S \ {y})
<1> DEFINE Sum(T) == SumFunctionOnSet(f, T)
           B == {T \in SUBSET S : \E x \in T : Sum(T) # f[x] + Sum(T \ {x})}
<1>1. SUFFICES ASSUME B # {} PROVE FALSE
  OBVIOUS
<1>2. B \subseteq SUBSET S
  OBVIOUS
<1>a. \A T \in SUBSET S : IsFiniteSet(T) /\ Sum(T) \in Int
  BY FS_Subset, SumInt
<1> HIDE DEF B
<1>3. PICK T \in B : \A U \in B : U \subseteq T => U = T
  BY <1>1, <1>2, Smallest
<1>4. T \subseteq S
  BY <1>3 DEF B
<1>5. PICK x \in T : Sum(T) # f[x] + Sum(T \ {x})
  BY <1>3 DEF B
<1> DEFINE z == Chosen(T)
<1>6. z \in T
  BY <1>5, ChosenIn
<1>7. Sum(T) = f[z] + Sum(T \ {z})
  BY <1>4, <1>5, <1>a, SumFirst
<1>8. x # z
  BY <1>5, <1>7
<1> HIDE DEF z
<1>9. \A U \in SUBSET T : U # T => \A v \in U : Sum(U) = f[v] + Sum(U \ {v})
  BY <1>3, <1>4 DEF B
<1>10. Sum(T \ {z}) = f[x] + Sum((T \ {z}) \ {x})
  BY <1>6, <1>8, <1>9
<1>11. Sum(T \ {x}) = f[z] + Sum((T \ {x}) \ {z})
  BY <1>6, <1>8, <1>9
<1>12. (T \ {x}) \ {z} = (T \ {z}) \ {x}
  OBVIOUS
<1>13. f[x] \in Int /\ f[z] \in Int /\ Sum((T \ {z}) \ {x}) \in Int
  BY <1>4, <1>6, <1>a
<1> HIDE DEF Sum
<1>14. Sum(T) = f[z] + (f[x] + Sum((T \ {z}) \ {x}))
  BY <1>7, <1>10
<1>15. f[x] + Sum(T \ {x}) = f[x] + (f[z] + Sum((T \ {z}) \ {x}))
  BY <1>11, <1>12
<1>16. f[z] + (f[x] + Sum((T \ {z}) \ {x})) = f[x] + (f[z] + Sum((T \ {z}) \ {x}))
  BY <1>13
<1> QED BY <1>5, <1>14, <1>15, <1>16

\* A sum whose elements are each at most another's is at most the other's.
LEMMA SumAtMost ==
  ASSUME NEW S, IsFiniteSet(S), NEW f, NEW e,
         \A x \in S : f[x] \in Int /\ e[x] \in Int /\ f[x] <= e[x]
  PROVE  SumFunctionOnSet(f, S) <= SumFunctionOnSet(e, S)
<1> DEFINE B == {T \in SUBSET S : ~(SumFunctionOnSet(f, T) <= SumFunctionOnSet(e, T))}
<1>1. SUFFICES ASSUME B # {} PROVE FALSE
  OBVIOUS
<1>2. B \subseteq SUBSET S
  OBVIOUS
<1> HIDE DEF B
<1>3. PICK T \in B : \A U \in B : U \subseteq T => U = T
  BY <1>1, <1>2, Smallest
<1>4. T \subseteq S /\ IsFiniteSet(T) /\ ~(SumFunctionOnSet(f, T) <= SumFunctionOnSet(e, T))
  BY <1>3, FS_Subset DEF B
<1>5. T # {}
  BY <1>4, SumEmpty
<1> DEFINE z == Chosen(T)  U == T \ {z}
<1>6. z \in T
  BY <1>5, ChosenIn
<1>7. /\ SumFunctionOnSet(f, T) = f[z] + SumFunctionOnSet(f, U)
      /\ SumFunctionOnSet(e, T) = e[z] + SumFunctionOnSet(e, U)
  BY <1>4, <1>5, SumFirst
<1>8. U \subseteq S /\ U \subseteq T /\ U # T /\ IsFiniteSet(U)
  BY <1>4, <1>6, FS_Subset
<1> HIDE DEF z, U
<1>9. SumFunctionOnSet(f, U) <= SumFunctionOnSet(e, U)
  BY <1>3, <1>8 DEF B
<1>10. SumFunctionOnSet(f, U) \in Int /\ SumFunctionOnSet(e, U) \in Int
  BY <1>8, SumInt
<1>11. f[z] \in Int /\ e[z] \in Int /\ f[z] <= e[z]
  BY <1>4, <1>6
<1> QED BY <1>4, <1>7, <1>9, <1>10, <1>11

\* Elements that add nothing may be left out.
LEMMA SumSupport ==
  ASSUME NEW S, IsFiniteSet(S), NEW f, \A x \in S : f[x] \in Int,
         NEW T, T \subseteq S, \A x \in S \ T : f[x] = 0
  PROVE  SumFunctionOnSet(f, S) = SumFunctionOnSet(f, T)
<1> DEFINE Sum(U) == SumFunctionOnSet(f, U)
           G == {U \in SUBSET (S \ T) : Sum(T \union U) = Sum(T)}
<1>1. IsFiniteSet(S \ T)
  BY FS_Difference
<1>2. {} \in G
  OBVIOUS
<1>3. ASSUME NEW U \in SUBSET (S \ T), NEW x \in S \ T, U \in G, x \notin U
      PROVE  U \union {x} \in G
  <2> DEFINE V == T \union (U \union {x})
  <2>1. V \subseteq S /\ IsFiniteSet(V) /\ x \in V /\ V \ {x} = T \union U
    BY <1>3, FS_Subset
  <2> HIDE DEF V
  <2>2. Sum(V) = f[x] + Sum(V \ {x})
    BY <2>1, SumWithout
  <2>3. f[x] = 0 /\ Sum(T \union U) = Sum(T)
    BY <1>3
  <2>4. Sum(T) \in Int
    BY SumInt, FS_Subset
  <2>5. Sum(V) = Sum(T)
    <3>1. Sum(V \ {x}) = Sum(T)
      BY <2>1, <2>3
    <3>2. Sum(V) = 0 + Sum(T)
      BY <2>2, <2>3, <3>1
    <3> QED BY <2>4, <3>2
  <2> QED BY <2>5, <1>3 DEF V
<1> HIDE DEF G
<1>4. S \ T \in G
  BY <1>1, <1>2, <1>3, SetInduction
<1>5. T \union (S \ T) = S
  OBVIOUS
<1> QED BY <1>4, <1>5 DEF G

\* Part of a sum of naturals is at most the whole.
LEMMA SumPart ==
  ASSUME NEW S, IsFiniteSet(S), NEW f, \A x \in S : f[x] \in Nat, NEW T, T \subseteq S
  PROVE  SumFunctionOnSet(f, T) <= SumFunctionOnSet(f, S)
<1> DEFINE e == [x \in S |-> IF x \in T THEN f[x] ELSE 0]
<1>1. IsFiniteSet(T)
  BY FS_Subset
<1>2. SumFunctionOnSet(f, T) = SumFunctionOnSet(e, T)
  BY <1>1, SumSame
<1>3. SumFunctionOnSet(e, S) = SumFunctionOnSet(e, T)
  BY SumSupport
<1>4. SumFunctionOnSet(e, S) <= SumFunctionOnSet(f, S)
  BY SumAtMost
<1> QED BY <1>2, <1>3, <1>4

\* One element changes.
LEMMA SumChange ==
  ASSUME NEW S, IsFiniteSet(S), NEW f, \A x \in S : f[x] \in Int, NEW y \in S,
         NEW e, e[y] \in Int, \A x \in S \ {y} : e[x] = f[x]
  PROVE  SumFunctionOnSet(e, S) = SumFunctionOnSet(f, S) - f[y] + e[y]
<1> DEFINE R == S \ {y}
<1>1. IsFiniteSet(R)
  BY FS_Subset
<1>2. SumFunctionOnSet(e, R) = SumFunctionOnSet(f, R) /\ SumFunctionOnSet(f, R) \in Int
  BY <1>1, SumSame, SumInt
<1>3. SumFunctionOnSet(f, S) = f[y] + SumFunctionOnSet(f, R)
  BY SumWithout
<1>4. SumFunctionOnSet(e, S) = e[y] + SumFunctionOnSet(e, R)
  <2>1. \A x \in S : e[x] \in Int
    OBVIOUS
  <2> QED BY <2>1, SumWithout
<1> HIDE DEF R
<1>5. f[y] \in Int
  OBVIOUS
<1> QED BY <1>2, <1>3, <1>4, <1>5

\* Zeros add up to zero.
LEMMA SumAllZero ==
  ASSUME NEW S, IsFiniteSet(S), NEW f, \A x \in S : f[x] = 0
  PROVE  SumFunctionOnSet(f, S) = 0
<1>1. SumFunctionOnSet(f, S) = SumFunctionOnSet(f, {})
  BY SumSupport
<1> QED BY <1>1, SumEmpty

\* Two sets with nothing in common.
LEMMA SumDisjoint ==
  ASSUME NEW S, IsFiniteSet(S), NEW T, IsFiniteSet(T), S \cap T = {},
         NEW f, \A x \in S \union T : f[x] \in Int
  PROVE  SumFunctionOnSet(f, S \union T) = SumFunctionOnSet(f, S) + SumFunctionOnSet(f, T)
<1> DEFINE Sum(U) == SumFunctionOnSet(f, U)
           G == {U \in SUBSET T : Sum(S \union U) = Sum(S) + Sum(U)}
<1>1. Sum(S) \in Int
  BY SumInt
<1>2. {} \in G
  <2>1. S \union {} = S
    OBVIOUS
  <2>2. Sum({}) = 0
    BY SumEmpty
  <2> QED BY <1>1, <2>1, <2>2
<1>3. ASSUME NEW U \in SUBSET T, NEW x \in T, U \in G, x \notin U
      PROVE  U \union {x} \in G
  <2> DEFINE V == U \union {x}
             W == S \union V
  <2>1. /\ IsFiniteSet(V) /\ IsFiniteSet(U) /\ V \ {x} = U /\ x \in V
        /\ \A y \in V : f[y] \in Int
    BY <1>3, FS_Subset
  <2>2. /\ IsFiniteSet(W) /\ W \ {x} = S \union U /\ x \in W
        /\ \A y \in W : f[y] \in Int
    BY <1>3, <2>1, FS_Union
  <2> HIDE DEF V, W
  <2>3. Sum(V) = f[x] + Sum(U)
    BY <2>1, SumWithout
  <2>4. Sum(W) = f[x] + Sum(S \union U)
    BY <2>2, SumWithout
  <2>5. Sum(S \union U) = Sum(S) + Sum(U)
    BY <1>3
  <2>6. Sum(U) \in Int
    <3>1. \A y \in U : f[y] \in Int
      BY <1>3
    <3> QED BY <2>1, <3>1, SumInt
  <2>7. f[x] \in Int
    OBVIOUS
  <2> HIDE DEF Sum
  <2>8. Sum(W) = Sum(S) + Sum(V)
    BY <1>1, <2>3, <2>4, <2>5, <2>6, <2>7
  <2> QED BY <1>3, <2>8 DEF V, W
<1> HIDE DEF G
<1>4. T \in G
  BY <1>2, <1>3, SetInduction
<1> QED BY <1>4 DEF G
=============================================================================
