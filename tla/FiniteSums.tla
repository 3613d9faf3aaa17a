----------------------------- MODULE FiniteSums -----------------------------
(***************************************************************************)
(* Sums over finite sets, as SumFunctionOnSet of the community modules     *)
(* forms them: the order of the summands does not matter, groups add up to *)
(* the whole, and renaming the elements changes nothing.  Induction over a *)
(* finite set is stated with a set of subsets in place of a predicate.     *)
(***************************************************************************)
EXTENDS Integers, FiniteSets, Functions, FiniteSetTheorems, WellFoundedInduction, TLAPS

\* Induction over a finite set: what holds of a subset once it holds of every
\* smaller one holds of the set.
LEMMA SubsetInduction ==
  ASSUME NEW S, IsFiniteSet(S), NEW C,
         \A T \in SUBSET S : (\A U \in SUBSET T : U # T => U \in C) => T \in C
  PROVE  S \in C
<1> DEFINE R == StrictSubsetOrdering(S)
           F == FiniteSubsetsOf(S)
           B == {T \in F : T \notin C}
<1> SUFFICES ASSUME S \notin C PROVE FALSE
  OBVIOUS
<1>1. IsWellFoundedOn(R, F)
  BY FS_StrictSubsetOrderingWellFounded
<1>2. B \subseteq F /\ S \in B
  BY DEF FiniteSubsetsOf
<1>3. PICK T \in B : \A U \in B : ~ (<<U, T>> \in R)
  <2> HIDE DEF R, F, B
  <2> QED BY <1>1, <1>2, WFMin
<1>4. T \in SUBSET S /\ IsFiniteSet(T) /\ T \notin C
  BY <1>3 DEF FiniteSubsetsOf
<1>5. ASSUME NEW U \in SUBSET T, U # T PROVE U \in C
  <2>1. IsFiniteSet(U)
    BY <1>4, FS_Subset
  <2>2. <<U, T>> \in R
    BY <1>4, <1>5 DEF StrictSubsetOrdering
  <2> QED BY <1>3, <1>4, <2>1, <2>2 DEF FiniteSubsetsOf
<1> QED BY <1>4, <1>5

\* The induction that adds one element at a time.
LEMMA AddInduction ==
  ASSUME NEW S, IsFiniteSet(S), NEW C, {} \in C,
         \A T \in SUBSET S : \A x \in S \ T : T \in C => T \cup {x} \in C
  PROVE  S \in C
<1>1. ASSUME NEW T \in SUBSET S, \A U \in SUBSET T : U # T => U \in C PROVE T \in C
  <2>1. CASE T = {}
    BY <2>1
  <2>2. ASSUME NEW x \in T PROVE T \in C
    <3>1. T \ {x} \in C /\ T \ {x} \in SUBSET S /\ x \in S \ (T \ {x})
      BY <1>1
    <3>2. (T \ {x}) \cup {x} = T
      OBVIOUS
    <3>3. (T \ {x}) \cup {x} \in C
      BY <3>1
    <3> QED BY <3>2, <3>3
  <2> QED BY <2>1, <2>2
<1> QED BY <1>1, SubsetInduction

\* A set that is written down with up to five elements is finite.
LEMMA FiveElements == ASSUME NEW a, NEW b, NEW c, NEW d, NEW e PROVE IsFiniteSet({a, b, c, d, e})
<1>1. IsFiniteSet({a})
  BY FS_Singleton
<1>2. IsFiniteSet({a} \cup {b})
  BY <1>1, FS_AddElement
<1>3. IsFiniteSet(({a} \cup {b}) \cup {c})
  BY <1>2, FS_AddElement
<1>4. IsFiniteSet((({a} \cup {b}) \cup {c}) \cup {d})
  BY <1>3, FS_AddElement
<1>5. IsFiniteSet(((({a} \cup {b}) \cup {c}) \cup {d}) \cup {e})
  BY <1>4, FS_AddElement
<1>6. ((({a} \cup {b}) \cup {c}) \cup {d}) \cup {e} = {a, b, c, d, e}
  OBVIOUS
<1> QED BY <1>5, <1>6

(***************************************************************************)
(* Sums.                                                                   *)
(***************************************************************************)
Any(s) == CHOOSE x \in s : TRUE

\* How the library's sum adds up the subsets of S, one element after the other.
Adds(iter, f, S) ==
  iter = [s \in SUBSET S |-> IF s = {} THEN 0 ELSE f[Any(s)] + iter[s \ {Any(s)}]]

Adder(f, S) == CHOOSE iter : Adds(iter, f, S)

LEMMA SumIs ==
  ASSUME NEW f, NEW S
  PROVE  SumFunctionOnSet(f, S) = Adder(f, S)[S]
BY DEF SumFunctionOnSet, FoldFunctionOnSet, MapThenFoldSet, Any, Adds, Adder

LEMMA AddsAt ==
  ASSUME NEW f, NEW S, NEW iter, Adds(iter, f, S), NEW T \in SUBSET S
  PROVE  /\ T = {} => iter[T] = 0
         /\ T # {} => iter[T] = f[Any(T)] + iter[T \ {Any(T)}]
BY DEF Adds

\* Two such functions agree wherever both are defined.
LEMMA AddsUnique ==
  ASSUME NEW f, NEW S, IsFiniteSet(S), NEW P, NEW Q, S \in SUBSET P, S \in SUBSET Q,
         NEW g, NEW h, Adds(g, f, P), Adds(h, f, Q)
  PROVE  g[S] = h[S]
<1> DEFINE C == {T \in SUBSET S : g[T] = h[T]}
<1>1. ASSUME NEW T \in SUBSET S, \A U \in SUBSET T : U # T => U \in C PROVE T \in C
  <2>1. CASE T = {}
    BY <2>1, AddsAt
  <2>2. CASE T # {}
    <3>1. Any(T) \in T
      BY <2>2 DEF Any
    <3>2. T \ {Any(T)} \in C
      BY <1>1, <3>1
    <3>3. g[T] = f[Any(T)] + g[T \ {Any(T)}] /\ h[T] = f[Any(T)] + h[T \ {Any(T)}]
      BY <2>2, AddsAt
    <3> QED BY <3>2, <3>3
  <2> QED BY <2>1, <2>2
<1> HIDE DEF C
<1>2. S \in C
  BY <1>1, SubsetInduction
<1> QED BY <1>2 DEF C

\* The sum of nothing, and of a set with an element that is added first.
Chosen(f, S) ==
  /\ S = {} => SumFunctionOnSet(f, S) = 0
  /\ S # {} => SumFunctionOnSet(f, S) = f[Any(S)] + SumFunctionOnSet(f, S \ {Any(S)})

\* It is so once the functions exist.
LEMMA ChosenIf ==
  ASSUME NEW f, NEW S, IsFiniteSet(S), \A T \in SUBSET S : Adds(Adder(f, T), f, T)
  PROVE  Chosen(f, S)
<1>1. CASE S = {}
  <2>1. Adds(Adder(f, S), f, S)
    OBVIOUS
  <2>2. Adder(f, S)[S] = 0
    BY <1>1, <2>1, AddsAt
  <2> QED BY <1>1, <2>2, SumIs DEF Chosen
<1>2. CASE S # {}
  <2> DEFINE T == S \ {Any(S)}
  <2>1. T \in SUBSET S /\ IsFiniteSet(T)
    BY FS_Subset
  <2>2. Adds(Adder(f, S), f, S) /\ Adds(Adder(f, T), f, T)
    BY <2>1
  <2>3. Adder(f, S)[S] = f[Any(S)] + Adder(f, S)[T]
    BY <1>2, <2>2, AddsAt
  <2>4. Adder(f, S)[T] = Adder(f, T)[T]
    <3> HIDE DEF T
    <3> QED BY <2>1, <2>2, AddsUnique
  <2> QED BY <1>2, <2>3, <2>4, SumIs DEF Chosen
<1> QED BY <1>1, <1>2

LEMMA SumChosen ==
  ASSUME NEW f, NEW S, IsFiniteSet(S)
  PROVE  Chosen(f, S)
<1> DEFINE C == {T \in SUBSET S : \A U \in SUBSET T : Adds(Adder(f, U), f, U)}
<1>1. ASSUME NEW T \in SUBSET S, \A U \in SUBSET T : U # T => U \in C PROVE T \in C
  <2> DEFINE new == [s \in SUBSET T |->
                       IF s = {} THEN 0 ELSE f[Any(s)] + SumFunctionOnSet(f, s \ {Any(s)})]
  <2>1. ASSUME NEW s \in SUBSET T, s # T PROVE SumFunctionOnSet(f, s) = new[s]
    <3>1. IsFiniteSet(s) /\ \A U \in SUBSET s : Adds(Adder(f, U), f, U)
      BY <1>1, <2>1, FS_Subset
    <3>2. Chosen(f, s)
      BY <3>1, ChosenIf
    <3> QED BY <3>2 DEF Chosen
  <2>2. ASSUME NEW s \in SUBSET T, s # {} PROVE SumFunctionOnSet(f, s \ {Any(s)}) = new[s \ {Any(s)}]
    <3>1. Any(s) \in s
      BY <2>2 DEF Any
    <3>2. s \ {Any(s)} \in SUBSET T /\ s \ {Any(s)} # T
      BY <3>1
    <3> HIDE DEF new
    <3> QED BY <2>1, <3>2
  <2>3. Adds(new, f, T)
    BY <2>2 DEF Adds
  <2>4. Adds(Adder(f, T), f, T)
    <3> HIDE DEF new
    <3> QED BY <2>3 DEF Adder
  <2> HIDE DEF new
  <2>5. ASSUME NEW U \in SUBSET T PROVE Adds(Adder(f, U), f, U)
    BY <1>1, <2>4
  <2> QED BY <2>5
<1> HIDE DEF C
<1>2. S \in C
  BY <1>1, SubsetInduction
<1> QED BY <1>2, ChosenIf DEF C

\* The order does not matter: any element may be the first.
LEMMA SumWithout ==
  ASSUME NEW f, NEW S, IsFiniteSet(S), \A x \in S : f[x] \in Int
  PROVE  /\ SumFunctionOnSet(f, {}) = 0
         /\ SumFunctionOnSet(f, S) \in Int
         /\ \A x \in S : SumFunctionOnSet(f, S) = f[x] + SumFunctionOnSet(f, S \ {x})
<1> DEFINE Sum(T) == SumFunctionOnSet(f, T)
           C == {T \in SUBSET S : Sum(T) \in Int /\ \A x \in T : Sum(T) = f[x] + Sum(T \ {x})}
<1>0. Sum({}) = 0
  BY SumChosen, FS_EmptySet DEF Chosen
<1>1. ASSUME NEW T \in SUBSET S, \A U \in SUBSET T : U # T => U \in C PROVE T \in C
  <2>1. CASE T = {}
    BY <1>0, <2>1
  <2>2. CASE T # {}
    <3> DEFINE a == Any(T)
    <3>1. a \in T /\ T \ {a} \in C
      BY <1>1, <2>2 DEF Any
    <3>2. Sum(T) = f[a] + Sum(T \ {a})
      BY <2>2, SumChosen, FS_Subset DEF Chosen
    <3> HIDE DEF a
    <3>3. Sum(T) \in Int
      BY <3>1, <3>2
    <3>4. ASSUME NEW x \in T, x # a PROVE Sum(T) = f[x] + Sum(T \ {x})
      <4>1. T \ {x} \in C /\ a \in T \ {x} /\ x \in T \ {a}
        BY <1>1, <3>1, <3>4
      <4>2. Sum(T \ {a}) = f[x] + Sum((T \ {a}) \ {x}) /\ Sum(T \ {x}) = f[a] + Sum((T \ {x}) \ {a})
        BY <3>1, <4>1
      <4>3. (T \ {a}) \ {x} = (T \ {x}) \ {a}
        OBVIOUS
      <4>4. (T \ {a}) \ {x} \in C
        BY <1>1, <4>1
      <4>5. f[a] \in Int /\ f[x] \in Int /\ Sum((T \ {a}) \ {x}) \in Int
        BY <3>1, <4>4
      <4>6. \A u, v, r \in Int : u + (v + r) = v + (u + r)
        OBVIOUS
      <4>7. Sum(T) = f[a] + (f[x] + Sum((T \ {a}) \ {x}))
        BY <3>2, <4>2
      <4>8. f[x] + Sum(T \ {x}) = f[x] + (f[a] + Sum((T \ {a}) \ {x}))
        BY <4>2, <4>3
      <4> QED BY <4>5, <4>6, <4>7, <4>8
    <3> QED BY <3>2, <3>3, <3>4
  <2> QED BY <2>1, <2>2
<1> HIDE DEF C
<1>2. S \in C
  BY <1>1, SubsetInduction
<1> QED BY <1>0, <1>2 DEF C
\* The sum of a set with one more element.
LEMMA SumAdd ==
  ASSUME NEW f, NEW S, IsFiniteSet(S), NEW x, x \notin S, \A y \in S \cup {x} : f[y] \in Int
  PROVE  SumFunctionOnSet(f, S \cup {x}) = f[x] + SumFunctionOnSet(f, S)
<1>1. IsFiniteSet(S \cup {x}) /\ (S \cup {x}) \ {x} = S
  BY FS_AddElement
<1>2. SumFunctionOnSet(f, S \cup {x}) = f[x] + SumFunctionOnSet(f, (S \cup {x}) \ {x})
  BY <1>1, SumWithout
<1> QED BY <1>1, <1>2

\* Only the values at the elements count.
LEMMA SumEqual ==
  ASSUME NEW f, NEW g, NEW S, IsFiniteSet(S), \A x \in S : f[x] \in Int /\ f[x] = g[x]
  PROVE  SumFunctionOnSet(f, S) = SumFunctionOnSet(g, S)
<1> DEFINE C == {T \in SUBSET S : SumFunctionOnSet(f, T) = SumFunctionOnSet(g, T)}
<1>1. {} \in C
  BY SumWithout, FS_EmptySet
<1>2. ASSUME NEW T \in SUBSET S, NEW x \in S \ T, T \in C PROVE T \cup {x} \in C
  <2>1. IsFiniteSet(T) /\ f[x] = g[x] /\ \A y \in T \cup {x} : f[y] \in Int /\ g[y] \in Int
    BY FS_Subset
  <2>2. /\ SumFunctionOnSet(f, T \cup {x}) = f[x] + SumFunctionOnSet(f, T)
        /\ SumFunctionOnSet(g, T \cup {x}) = g[x] + SumFunctionOnSet(g, T)
    BY <2>1, SumAdd
  <2> QED BY <1>2, <2>1, <2>2
<1> HIDE DEF C
<1>3. S \in C
  BY <1>1, <1>2, AddInduction
<1> QED BY <1>3 DEF C

\* Zeros add nothing.
LEMMA SumOfZeros ==
  ASSUME NEW f, NEW S, IsFiniteSet(S), \A x \in S : f[x] = 0
  PROVE  SumFunctionOnSet(f, S) = 0
<1> DEFINE C == {T \in SUBSET S : SumFunctionOnSet(f, T) = 0}
<1>1. {} \in C
  BY SumWithout, FS_EmptySet
<1>2. ASSUME NEW T \in SUBSET S, NEW x \in S \ T, T \in C PROVE T \cup {x} \in C
  <2>1. IsFiniteSet(T) /\ f[x] = 0 /\ \A y \in T \cup {x} : f[y] \in Int
    BY FS_Subset
  <2>2. SumFunctionOnSet(f, T \cup {x}) = f[x] + SumFunctionOnSet(f, T)
    BY <2>1, SumAdd
  <2> QED BY <1>2, <2>1, <2>2
<1> HIDE DEF C
<1>3. S \in C
  BY <1>1, <1>2, AddInduction
<1> QED BY <1>3 DEF C

\* A set has as many elements as ones add up to.
LEMMA SumOfOnes ==
  ASSUME NEW f, NEW S, IsFiniteSet(S), \A x \in S : f[x] = 1
  PROVE  SumFunctionOnSet(f, S) = Cardinality(S)
<1> DEFINE C == {T \in SUBSET S : SumFunctionOnSet(f, T) = Cardinality(T)}
<1>1. {} \in C
  BY SumWithout, FS_EmptySet
<1>2. ASSUME NEW T \in SUBSET S, NEW x \in S \ T, T \in C PROVE T \cup {x} \in C
  <2>1. IsFiniteSet(T) /\ f[x] = 1 /\ \A y \in T \cup {x} : f[y] \in Int
    BY FS_Subset
  <2>2. SumFunctionOnSet(f, T \cup {x}) = 1 + SumFunctionOnSet(f, T)
    BY <2>1, SumAdd
  <2>3. Cardinality(T \cup {x}) = Cardinality(T) + 1 /\ Cardinality(T) \in Nat
    BY <2>1, FS_AddElement, FS_CardinalityType
  <2> QED BY <1>2, <2>2, <2>3
<1> HIDE DEF C
<1>3. S \in C
  BY <1>1, <1>2, AddInduction
<1> QED BY <1>3 DEF C

\* Two disjoint sets.
LEMMA SumUnion ==
  ASSUME NEW f, NEW A, NEW B, IsFiniteSet(A), IsFiniteSet(B), A \cap B = {},
         \A x \in A \cup B : f[x] \in Int
  PROVE  SumFunctionOnSet(f, A \cup B) = SumFunctionOnSet(f, A) + SumFunctionOnSet(f, B)
<1> DEFINE Sum(T) == SumFunctionOnSet(f, T)
           C == {T \in SUBSET B : Sum(A \cup T) = Sum(A) + Sum(T)}
<1>0. Sum(A) \in Int
  BY SumWithout
<1>1. {} \in C
  <2>1. A \cup {} = A /\ Sum({}) = 0
    BY SumWithout
  <2> QED BY <1>0, <2>1
<1>2. ASSUME NEW T \in SUBSET B, NEW x \in B \ T, T \in C PROVE T \cup {x} \in C
  <2>1. IsFiniteSet(T) /\ IsFiniteSet(A \cup T)
    BY FS_Subset, FS_Union
  <2>2. f[x] \in Int /\ x \notin A \cup T /\ x \notin T
    OBVIOUS
  <2>3. Sum((A \cup T) \cup {x}) = f[x] + Sum(A \cup T)
    BY <2>1, <2>2, SumAdd
  <2>4. Sum(T \cup {x}) = f[x] + Sum(T)
    BY <2>1, <2>2, SumAdd
  <2>5. Sum(T) \in Int
    BY <2>1, SumWithout
  <2>6. A \cup (T \cup {x}) = (A \cup T) \cup {x}
    OBVIOUS
  <2>7. Sum(A \cup T) = Sum(A) + Sum(T)
    BY <1>2
  <2>8. Sum(A \cup (T \cup {x})) = Sum(A) + Sum(T \cup {x})
    <3>1. \A u, v, r \in Int : u + (v + r) = v + (u + r)
      OBVIOUS
    <3>2. Sum(A \cup (T \cup {x})) = f[x] + (Sum(A) + Sum(T))
      BY <2>3, <2>6, <2>7
    <3>3. Sum(A) + Sum(T \cup {x}) = Sum(A) + (f[x] + Sum(T))
      BY <2>4
    <3> QED BY <1>0, <2>2, <2>5, <3>1, <3>2, <3>3
  <2> QED BY <2>8
<1> HIDE DEF C
<1>3. B \in C
  BY <1>1, <1>2, AddInduction
<1> QED BY <1>3 DEF C

\* The elements that k puts into one group.
Group(S, k, c) == {x \in S : k[x] = c}

\* Adding up by groups is adding up.
LEMMA SumByGroup ==
  ASSUME NEW f, NEW S, IsFiniteSet(S), \A x \in S : f[x] \in Int,
         NEW K, IsFiniteSet(K), NEW k, \A x \in S : k[x] \in K,
         NEW g, \A c \in K : g[c] = SumFunctionOnSet(f, Group(S, k, c))
  PROVE  SumFunctionOnSet(g, K) = SumFunctionOnSet(f, S)
<1> DEFINE In(L) == {x \in S : k[x] \in L}
           C == {L \in SUBSET K : SumFunctionOnSet(g, L) = SumFunctionOnSet(f, In(L))}
<1>1. {} \in C
  <2>1. In({}) = {}
    OBVIOUS
  <2> QED BY <2>1, SumWithout, FS_EmptySet
<1>2. ASSUME NEW L \in SUBSET K, NEW c \in K \ L, L \in C PROVE L \cup {c} \in C
  <2> DEFINE G == Group(S, k, c)
  <2>1. In(L \cup {c}) = G \cup In(L) /\ G \cap In(L) = {}
    BY <1>2 DEF Group
  <2>2. IsFiniteSet(G) /\ IsFiniteSet(In(L)) /\ IsFiniteSet(L)
    BY FS_Subset DEF Group
  <2>3. \A x \in G \cup In(L) : f[x] \in Int
    BY DEF Group
  <2>4. SumFunctionOnSet(f, G \cup In(L)) = SumFunctionOnSet(f, G) + SumFunctionOnSet(f, In(L))
    <3> HIDE DEF G, In
    <3> QED BY <2>1, <2>2, <2>3, SumUnion
  <2>5. \A b \in L \cup {c} : g[b] \in Int
    <3> SUFFICES ASSUME NEW b \in L \cup {c} PROVE g[b] \in Int
      OBVIOUS
    <3> DEFINE B == Group(S, k, b)
    <3>1. IsFiniteSet(B) /\ \A x \in B : f[x] \in Int
      BY FS_Subset DEF Group
    <3>2. SumFunctionOnSet(f, B) \in Int
      <4> HIDE DEF B
      <4> QED BY <3>1, SumWithout
    <3> QED BY <3>2
  <2>6. SumFunctionOnSet(g, L \cup {c}) = g[c] + SumFunctionOnSet(g, L)
    BY <2>2, <2>5, SumAdd
  <2>7. g[c] = SumFunctionOnSet(f, G)
    OBVIOUS
  <2>8. SumFunctionOnSet(g, L) = SumFunctionOnSet(f, In(L))
    BY <1>2
  <2>9. L \cup {c} \in SUBSET K
    OBVIOUS
  <2> HIDE DEF G, In
  <2>10. SumFunctionOnSet(g, L \cup {c}) = SumFunctionOnSet(f, In(L \cup {c}))
    BY <2>1, <2>4, <2>6, <2>7, <2>8
  <2> QED BY <2>9, <2>10
<1>3. K \in C
  <2> HIDE DEF C
  <2> QED BY <1>1, <1>2, AddInduction
<1>4. In(K) = S
  OBVIOUS
<1> QED BY <1>3, <1>4

\* So is counting by groups.
LEMMA CountByGroup ==
  ASSUME NEW S, IsFiniteSet(S), NEW K, IsFiniteSet(K), NEW k, \A x \in S : k[x] \in K,
         NEW g, \A c \in K : g[c] = Cardinality(Group(S, k, c))
  PROVE  SumFunctionOnSet(g, K) = Cardinality(S)
<1> DEFINE ones == [x \in S |-> 1]
<1>1. \A x \in S : ones[x] = 1 /\ ones[x] \in Int
  OBVIOUS
<1> HIDE DEF ones
<1>2. ASSUME NEW c \in K PROVE g[c] = SumFunctionOnSet(ones, Group(S, k, c))
  <2>1. IsFiniteSet(Group(S, k, c)) /\ \A x \in Group(S, k, c) : ones[x] = 1
    BY <1>1, FS_Subset DEF Group
  <2> QED BY <2>1, SumOfOnes
<1>3. SumFunctionOnSet(g, K) = SumFunctionOnSet(ones, S)
  BY <1>1, <1>2, SumByGroup
<1> QED BY <1>1, <1>3, SumOfOnes

\* Renaming the elements, one to one, leaves the sum as it is.
LEMMA SumRenamed ==
  ASSUME NEW f, NEW S, IsFiniteSet(S), \A x \in S : f[x] \in Int,
         NEW b, NEW T, T = {b[x] : x \in S}, \A x, y \in S : b[x] = b[y] => x = y,
         NEW g, \A x \in S : g[b[x]] = f[x]
  PROVE  SumFunctionOnSet(g, T) = SumFunctionOnSet(f, S)
<1>1. IsFiniteSet(T)
  <2> DEFINE h == [x \in S |-> b[x]]
  <2>1. h \in Surjection(S, T)
    BY DEF Surjection
  <2> QED BY <2>1, FS_Surjection
<1>2. ASSUME NEW c \in T PROVE g[c] = SumFunctionOnSet(f, Group(S, b, c))
  <2>1. PICK x \in S : c = b[x]
    OBVIOUS
  <2>2. Group(S, b, c) = {x}
    BY <2>1 DEF Group
  <2>3. {x} \ {x} = {} /\ IsFiniteSet({x})
    BY FS_Singleton
  <2>4. SumFunctionOnSet(f, {x}) = f[x] + 0
    <3>1. \A y \in {x} : f[y] \in Int
      OBVIOUS
    <3>2. SumFunctionOnSet(f, {x}) = f[x] + SumFunctionOnSet(f, {x} \ {x})
      BY <2>3, <3>1, SumWithout
    <3>3. SumFunctionOnSet(f, {}) = 0
      BY SumWithout
    <3> QED BY <2>3, <3>2, <3>3
  <2>5. f[x] + 0 = f[x] /\ g[c] = f[x]
    BY <2>1
  <2>6. g[c] = SumFunctionOnSet(f, Group(S, b, c))
    BY <2>2, <2>4, <2>5
  <2> QED BY <2>6
<1>3. \A x \in S : b[x] \in T
  OBVIOUS
<1>4. \A c \in T : g[c] = SumFunctionOnSet(f, Group(S, b, c))
  BY <1>2
<1> QED BY <1>1, <1>3, <1>4, SumByGroup
=============================================================================
