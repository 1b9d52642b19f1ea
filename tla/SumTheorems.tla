---------------------------- MODULE SumTheorems -----------------------------
(***************************************************************************)
(* Laws of SumFunctionOnSet, the sum of a function over a finite set, for  *)
(* the proofs that compare wallets, balances and schedules with the rows   *)
(* they stand for.                                                         *)
(*                                                                         *)
(* The sum is a fold, defined by recursion over subsets, so its laws need  *)
(* induction.  Induction is stated over sets, as a formula about a set of  *)
(* numbers: a property is given as the set of numbers that have it.        *)
(***************************************************************************)
EXTENDS Integers, FiniteSets, Functions, FiniteSetTheorems, WellFoundedInduction, TLAPS

-----------------------------------------------------------------------------
(* Induction. *)

LEMMA LeastNumber ==
  ASSUME NEW T, T \subseteq Nat, T # {}
  PROVE  \E n \in T : \A m \in T : n <= m
<1> DEFINE R == OpToRel(<, Nat)
<1>1. IsWellFoundedOn(R, Nat)
  BY NatLessThanWellFounded
<1>2. PICK n \in T : \A m \in T : <<m, n>> \notin R
  <2> HIDE DEF R
  <2> QED BY <1>1, WFMin
<1>3. \A m \in T : ~(m < n)
  BY <1>2 DEF OpToRel
<1> HIDE DEF R
<1> QED BY <1>2, <1>3

LEMMA Induction ==
  ASSUME NEW S, 0 \in S, \A n \in Nat : n \in S => n + 1 \in S
  PROVE  Nat \subseteq S
<1> SUFFICES ASSUME Nat \ S # {} PROVE FALSE
  OBVIOUS
<1>1. PICK n \in Nat \ S : \A m \in Nat \ S : n <= m
  BY LeastNumber
<1>2. n - 1 \in Nat /\ n - 1 \in S
  BY <1>1
<1> QED BY <1>1, <1>2

\* The elements of a finite set, one after the other.
LEMMA SetInduction ==
  ASSUME NEW S, IsFiniteSet(S), NEW Q, {} \in Q,
         \A T \in SUBSET S : \A x \in S \ T : T \in Q => T \cup {x} \in Q
  PROVE  S \in Q
<1> DEFINE N == {n \in Nat : \A T \in SUBSET S : Cardinality(T) = n => T \in Q}
<1>1. \A T \in SUBSET S : IsFiniteSet(T) /\ Cardinality(T) \in Nat
  BY FS_Subset, FS_CardinalityType
<1>2. 0 \in N
  BY <1>1, FS_EmptySet
<1>3. ASSUME NEW n \in Nat, n \in N
      PROVE  n + 1 \in N
  <2>1. SUFFICES ASSUME NEW T \in SUBSET S, Cardinality(T) = n + 1
                 PROVE  T \in Q
    OBVIOUS
  <2>2. T # {}
    <3>1. Cardinality({}) = 0 /\ n + 1 # 0
      BY FS_EmptySet
    <3> QED BY <2>1, <3>1
  <2>3. PICK x \in T : TRUE
    BY <2>2
  <2>4. Cardinality(T \ {x}) = n
    <3>1. IsFiniteSet(T) /\ Cardinality(T) \in Nat
      BY <1>1
    <3>2. Cardinality(T \ {x}) = Cardinality(T) - 1
      BY <3>1, FS_RemoveElement
    <3> QED BY <2>1, <3>1, <3>2
  <2>5. T \ {x} \in SUBSET S /\ x \in S \ (T \ {x}) /\ (T \ {x}) \cup {x} = T
    OBVIOUS
  <2>6. T \ {x} \in Q
    BY <1>3, <2>4, <2>5
  <2> QED BY <2>5, <2>6
<1> HIDE DEF N
<1>4. Nat \subseteq N
  BY <1>2, <1>3, Induction
<1>5. Cardinality(S) \in N
  BY <1>1, <1>4
<1> QED BY <1>5 DEF N

-----------------------------------------------------------------------------
(* The recursion of the fold. *)

Pick(s) == CHOOSE x \in s : TRUE

Body(h, g, s) == IF s = {} THEN 0 ELSE h[Pick(s)] + g[s \ {Pick(s)}]

IsFold(g, h, S) == g = [s \in SUBSET S |-> Body(h, g, s)]

LEMMA PickIn == \A s : s # {} => Pick(s) \in s
  BY Zenon DEF Pick

LEMMA SumIsFold ==
  ASSUME NEW h, NEW S
  PROVE  SumFunctionOnSet(h, S) = (CHOOSE g : g = [s \in SUBSET S |-> Body(h, g, s)])[S]
  BY Zenon DEF SumFunctionOnSet, FoldFunctionOnSet, MapThenFoldSet, Pick, Body

\* What a sum picks is among the elements, and there is one less then.
LEMMA PickRemoves ==
  ASSUME NEW S, IsFiniteSet(S), S # {}
  PROVE  /\ Pick(S) \in S /\ IsFiniteSet(S \ {Pick(S)})
         /\ Cardinality(S) \in Nat \ {0} /\ Cardinality(S \ {Pick(S)}) = Cardinality(S) - 1
  BY PickIn, FS_CardinalityType, FS_RemoveElement, FS_EmptySet

LEMMA FoldExists ==
  ASSUME NEW h, NEW S, IsFiniteSet(S)
  PROVE  \E g : IsFold(g, h, S)
<1> DEFINE D(n) == {s \in SUBSET S : Cardinality(s) <= n}
           N == {n \in Nat : \E g : g = [s \in D(n) |-> Body(h, g, s)]}
<1>1. \A s \in SUBSET S : IsFiniteSet(s) /\ Cardinality(s) \in Nat /\ Cardinality(s) <= Cardinality(S)
  BY FS_Subset, FS_CardinalityType
<1>2. 0 \in N
  <2>1. \A s \in D(0) : s = {}
    BY <1>1, FS_EmptySet
  <2>2. \A g : \A s \in D(0) : Body(h, g, s) = 0
    BY <2>1 DEF Body
  <2> HIDE DEF D
  <2>3. [s \in D(0) |-> 0] = [s \in D(0) |-> Body(h, [s2 \in D(0) |-> 0], s)]
    BY <2>2
  <2> QED BY <2>3
<1>3. ASSUME NEW n \in Nat, n \in N
      PROVE  n + 1 \in N
  <2>1. PICK g : g = [s \in D(n) |-> Body(h, g, s)]
    BY <1>3
  <2> DEFINE k == [s \in D(n + 1) |-> Body(h, g, s)]
  <2>2. ASSUME NEW s \in D(n + 1)
        PROVE  Body(h, g, s) = Body(h, k, s)
    <3>1. CASE s = {}
      BY <3>1 DEF Body
    <3>2. CASE s # {}
      <4> DEFINE r == s \ {Pick(s)}
      <4>1. r \in D(n) /\ r \in D(n + 1)
        BY <1>1, <3>2, PickRemoves
      <4>2. g[r] = Body(h, g, r) /\ k[r] = Body(h, g, r)
        <5> HIDE DEF D, r
        <5> QED BY <2>1, <4>1
      <4> QED BY <3>2, <4>2 DEF Body
    <3> QED BY <3>1, <3>2
  <2>3. k = [s \in D(n + 1) |-> Body(h, k, s)]
    <3> HIDE DEF D
    <3> QED BY <2>2
  <2> HIDE DEF D, k
  <2> QED BY <2>3
<1>4. Nat \subseteq N
  <2> HIDE DEF N
  <2> QED BY <1>2, <1>3, Induction
<1>5. PICK g : g = [s \in D(Cardinality(S)) |-> Body(h, g, s)]
  BY <1>1, <1>4
<1>6. D(Cardinality(S)) = SUBSET S
  BY <1>1
<1> HIDE DEF D
<1> QED BY <1>5, <1>6 DEF IsFold

LEMMA FoldStep ==
  ASSUME NEW h, NEW S, NEW g, IsFold(g, h, S), NEW s \in SUBSET S
  PROVE  g[s] = Body(h, g, s)
<1> DEFINE f == [t \in SUBSET S |-> Body(h, g, t)]
<1>1. f[s] = Body(h, g, s)
  OBVIOUS
<1>2. g = f
  BY DEF IsFold
<1> HIDE DEF f
<1> QED BY <1>1, <1>2

\* Recursions over a set and a subset agree on the subset, if the functions do.
LEMMA FoldUnique ==
  ASSUME NEW h, NEW S, IsFiniteSet(S), NEW g, IsFold(g, h, S),
         NEW k, NEW T \in SUBSET S, NEW f, IsFold(f, k, T),
         \A x \in T : h[x] = k[x]
  PROVE  g[T] = f[T]
<1> DEFINE N == {n \in Nat : \A s \in SUBSET T : Cardinality(s) <= n => g[s] = f[s]}
<1>1. \A s \in SUBSET T : IsFiniteSet(s) /\ Cardinality(s) \in Nat
  BY FS_Subset, FS_CardinalityType
<1>2. ASSUME NEW s \in SUBSET T
      PROVE  g[s] = Body(h, g, s) /\ f[s] = Body(k, f, s)
  BY FoldStep
<1>3. 0 \in N
  <2>1. \A s \in SUBSET T : Cardinality(s) <= 0 => s = {}
    BY <1>1, FS_EmptySet
  <2> QED BY <1>2, <2>1 DEF Body
<1>4. ASSUME NEW n \in Nat, n \in N
      PROVE  n + 1 \in N
  <2>1. SUFFICES ASSUME NEW s \in SUBSET T, Cardinality(s) <= n + 1
                 PROVE  g[s] = f[s]
    OBVIOUS
  <2>2. CASE s = {}
    BY <1>2, <2>2 DEF Body
  <2>3. CASE s # {}
    <3>1. Pick(s) \in T /\ s \ {Pick(s)} \in SUBSET T /\ Cardinality(s \ {Pick(s)}) <= n
      BY <1>1, <2>1, <2>3, PickRemoves
    <3>2. g[s \ {Pick(s)}] = f[s \ {Pick(s)}]
      BY <1>4, <3>1
    <3> QED BY <1>2, <2>3, <3>1, <3>2 DEF Body
  <2> QED BY <2>2, <2>3
<1>5. Nat \subseteq N
  <2> HIDE DEF N
  <2> QED BY <1>3, <1>4, Induction
<1>6. T \in SUBSET T /\ Cardinality(T) \in N /\ Cardinality(T) <= Cardinality(T)
  BY <1>1, <1>5
<1> QED BY <1>6

-----------------------------------------------------------------------------
(* The laws. *)

LEMMA SumFold ==
  ASSUME NEW h, NEW S, IsFiniteSet(S)
  PROVE  \E g : IsFold(g, h, S) /\ SumFunctionOnSet(h, S) = g[S]
<1> DEFINE g == CHOOSE g : IsFold(g, h, S)
<1>1. IsFold(g, h, S)
  BY FoldExists, Zenon
<1>2. SumFunctionOnSet(h, S) = g[S]
  BY SumIsFold DEF IsFold
<1> HIDE DEF g
<1> QED BY <1>1, <1>2

\* A sum over nothing is zero.
LEMMA SumEmpty ==
  ASSUME NEW h
  PROVE  SumFunctionOnSet(h, {}) = 0
<1>1. PICK g : IsFold(g, h, {}) /\ SumFunctionOnSet(h, {}) = g[{}]
  BY SumFold, FS_EmptySet
<1>2. {} \in SUBSET {}
  OBVIOUS
<1>3. g[{}] = Body(h, g, {})
  BY <1>1, <1>2, FoldStep
<1> QED BY <1>1, <1>3 DEF Body

\* A sum depends on the values at the elements only.
LEMMA SumSame ==
  ASSUME NEW h, NEW k, NEW S, IsFiniteSet(S), \A x \in S : h[x] = k[x]
  PROVE  SumFunctionOnSet(h, S) = SumFunctionOnSet(k, S)
<1>1. PICK g : IsFold(g, h, S) /\ SumFunctionOnSet(h, S) = g[S]
  BY SumFold
<1>2. PICK f : IsFold(f, k, S) /\ SumFunctionOnSet(k, S) = f[S]
  BY SumFold
<1>3. S \in SUBSET S
  OBVIOUS
<1>4. g[S] = f[S]
  BY <1>1, <1>2, <1>3, FoldUnique
<1> QED BY <1>1, <1>2, <1>4

LEMMA SumPick ==
  ASSUME NEW h, NEW S, IsFiniteSet(S), S # {}
  PROVE  SumFunctionOnSet(h, S) = h[Pick(S)] + SumFunctionOnSet(h, S \ {Pick(S)})
<1> DEFINE T == S \ {Pick(S)}
<1>1. PICK g : IsFold(g, h, S) /\ SumFunctionOnSet(h, S) = g[S]
  BY SumFold
<1>2. IsFiniteSet(T) /\ T \in SUBSET S
  BY FS_RemoveElement
<1>3. PICK f : IsFold(f, h, T) /\ SumFunctionOnSet(h, T) = f[T]
  BY <1>2, SumFold
<1>4. g[T] = f[T]
  <2> HIDE DEF T
  <2> QED BY <1>1, <1>2, <1>3, FoldUnique
<1>5. S \in SUBSET S
  OBVIOUS
<1>6. g[S] = Body(h, g, S)
  BY <1>1, <1>5, FoldStep
<1> QED BY <1>1, <1>3, <1>4, <1>6 DEF Body

\* A sum of integers is an integer, of naturals a natural.
LEMMA SumInt ==
  ASSUME NEW h, NEW S, IsFiniteSet(S), \A x \in S : h[x] \in Int
  PROVE  SumFunctionOnSet(h, S) \in Int
<1> DEFINE N == {n \in Nat : \A T \in SUBSET S : Cardinality(T) <= n => SumFunctionOnSet(h, T) \in Int}
<1>1. \A T \in SUBSET S : IsFiniteSet(T) /\ Cardinality(T) \in Nat
  BY FS_Subset, FS_CardinalityType
<1>2. 0 \in N
  BY <1>1, FS_EmptySet, SumEmpty
<1>3. ASSUME NEW n \in Nat, n \in N
      PROVE  n + 1 \in N
  <2>1. SUFFICES ASSUME NEW T \in SUBSET S, Cardinality(T) <= n + 1
                 PROVE  SumFunctionOnSet(h, T) \in Int
    OBVIOUS
  <2>2. CASE T = {}
    BY <2>2, SumEmpty
  <2>3. CASE T # {}
    <3>1. Pick(T) \in S /\ T \ {Pick(T)} \in SUBSET S /\ Cardinality(T \ {Pick(T)}) <= n
      BY <1>1, <2>1, <2>3, PickRemoves
    <3>2. h[Pick(T)] \in Int /\ SumFunctionOnSet(h, T \ {Pick(T)}) \in Int
      BY <1>3, <3>1
    <3> QED BY <1>1, <2>3, <3>2, SumPick
  <2> QED BY <2>2, <2>3
<1>4. Nat \subseteq N
  <2> HIDE DEF N
  <2> QED BY <1>2, <1>3, Induction
<1> QED BY <1>1, <1>4

\* Any element may be taken out of a sum first.
LEMMA SumRemove ==
  ASSUME NEW h, NEW S, IsFiniteSet(S), \A x \in S : h[x] \in Int, NEW x \in S
  PROVE  SumFunctionOnSet(h, S) = h[x] + SumFunctionOnSet(h, S \ {x})
<1> DEFINE N == {n \in Nat : \A T \in SUBSET S : \A y \in T :
                   Cardinality(T) <= n => SumFunctionOnSet(h, T) = h[y] + SumFunctionOnSet(h, T \ {y})}
<1>1. \A T \in SUBSET S : IsFiniteSet(T) /\ Cardinality(T) \in Nat /\ SumFunctionOnSet(h, T) \in Int
  BY FS_Subset, FS_CardinalityType, SumInt
<1>2. 0 \in N
  BY <1>1, FS_EmptySet
<1>3. ASSUME NEW n \in Nat, n \in N
      PROVE  n + 1 \in N
  <2>1. SUFFICES ASSUME NEW T \in SUBSET S, NEW y \in T, Cardinality(T) <= n + 1
                 PROVE  SumFunctionOnSet(h, T) = h[y] + SumFunctionOnSet(h, T \ {y})
    OBVIOUS
  <2> DEFINE p == Pick(T)
             U == (T \ {p}) \ {y}
  <2>2. p \in T /\ Cardinality(T \ {p}) <= n /\ T \ {p} \in SUBSET S
    BY <1>1, <2>1, PickRemoves
  <2>3. SumFunctionOnSet(h, T) = h[p] + SumFunctionOnSet(h, T \ {p})
    BY <1>1, <2>1, SumPick
  <2>4. CASE p = y
    BY <2>3, <2>4
  <2>5. CASE p # y
    <3>1. T \ {y} \in SUBSET S /\ Cardinality(T \ {y}) <= n /\ (T \ {y}) \ {p} = U
      BY <1>1, <2>1, FS_RemoveElement
    <3>2. SumFunctionOnSet(h, T \ {p}) = h[y] + SumFunctionOnSet(h, U)
      BY <1>3, <2>2, <2>5
    <3>3. SumFunctionOnSet(h, T \ {y}) = h[p] + SumFunctionOnSet(h, U)
      BY <1>3, <2>2, <2>5, <3>1
    <3>4. h[p] \in Int /\ h[y] \in Int /\ SumFunctionOnSet(h, U) \in Int
      BY <1>1, <2>2
    <3> HIDE DEF p, U
    <3> QED BY <2>3, <3>2, <3>3, <3>4
  <2> QED BY <2>4, <2>5
<1>4. Nat \subseteq N
  <2> HIDE DEF N
  <2> QED BY <1>2, <1>3, Induction
<1> QED BY <1>1, <1>4

\* One element more.
LEMMA SumAdd ==
  ASSUME NEW h, NEW S, IsFiniteSet(S), \A x \in S : h[x] \in Int, NEW y, y \notin S, h[y] \in Int
  PROVE  SumFunctionOnSet(h, S \cup {y}) = SumFunctionOnSet(h, S) + h[y]
<1> DEFINE U == S \cup {y}
<1>1. IsFiniteSet(U) /\ U \ {y} = S /\ y \in U /\ \A x \in U : h[x] \in Int
  BY FS_AddElement
<1>2. SumFunctionOnSet(h, S) \in Int
  BY SumInt
<1> HIDE DEF U
<1>3. SumFunctionOnSet(h, U) = h[y] + SumFunctionOnSet(h, U \ {y})
  BY <1>1, SumRemove
<1>4. SumFunctionOnSet(h, U) = SumFunctionOnSet(h, S) + h[y]
  <2>1. SumFunctionOnSet(h, U) = h[y] + SumFunctionOnSet(h, S)
    BY <1>1, <1>3, Zenon
  <2> QED BY <1>2, <2>1
<1> QED BY <1>4 DEF U

\* The value of one element changed.
LEMMA SumChange ==
  ASSUME NEW h, NEW k, NEW S, IsFiniteSet(S), \A x \in S : h[x] \in Int /\ k[x] \in Int,
         NEW y \in S, \A x \in S \ {y} : h[x] = k[x]
  PROVE  SumFunctionOnSet(k, S) = (SumFunctionOnSet(h, S) - h[y]) + k[y]
<1>1. IsFiniteSet(S \ {y})
  BY FS_RemoveElement
<1>2. SumFunctionOnSet(h, S \ {y}) = SumFunctionOnSet(k, S \ {y})
  BY <1>1, SumSame
<1>3. SumFunctionOnSet(h, S \ {y}) \in Int
  BY <1>1, SumInt
<1>4. /\ SumFunctionOnSet(h, S) = h[y] + SumFunctionOnSet(h, S \ {y})
      /\ SumFunctionOnSet(k, S) = k[y] + SumFunctionOnSet(k, S \ {y})
  <2>1. SumFunctionOnSet(h, S) = h[y] + SumFunctionOnSet(h, S \ {y})
    BY SumRemove
  <2>2. SumFunctionOnSet(k, S) = k[y] + SumFunctionOnSet(k, S \ {y})
    BY SumRemove
  <2> QED BY <2>1, <2>2
<1>5. h[y] \in Int /\ k[y] \in Int
  OBVIOUS
<1> QED BY ONLY <1>2, <1>3, <1>4, <1>5

\* Smaller values have a smaller sum.
LEMMA SumLeq ==
  ASSUME NEW h, NEW k, NEW S, IsFiniteSet(S),
         \A x \in S : h[x] \in Int /\ k[x] \in Int /\ h[x] <= k[x]
  PROVE  SumFunctionOnSet(h, S) <= SumFunctionOnSet(k, S)
<1> DEFINE Q == {T \in SUBSET S : SumFunctionOnSet(h, T) <= SumFunctionOnSet(k, T)}
<1>1. {} \in Q
  BY SumEmpty
<1>2. ASSUME NEW T \in SUBSET S, NEW x \in S \ T, T \in Q
      PROVE  T \cup {x} \in Q
  <2>1. IsFiniteSet(T)
    BY FS_Subset
  <2>2. SumFunctionOnSet(h, T) \in Int /\ SumFunctionOnSet(k, T) \in Int
    BY <2>1, SumInt
  <2>3. /\ SumFunctionOnSet(h, T \cup {x}) = SumFunctionOnSet(h, T) + h[x]
        /\ SumFunctionOnSet(k, T \cup {x}) = SumFunctionOnSet(k, T) + k[x]
    BY <2>1, SumAdd
  <2> QED BY <1>2, <2>2, <2>3
<1>3. S \in Q
  <2> HIDE DEF Q
  <2> QED BY <1>1, <1>2, SetInduction
<1> QED BY <1>3

\* The values of two functions together.
LEMMA SumPlus ==
  ASSUME NEW h, NEW k, NEW f, NEW S, IsFiniteSet(S),
         \A x \in S : h[x] \in Int /\ k[x] \in Int /\ f[x] = h[x] + k[x]
  PROVE  SumFunctionOnSet(f, S) = SumFunctionOnSet(h, S) + SumFunctionOnSet(k, S)
<1> DEFINE Q == {T \in SUBSET S :
                   SumFunctionOnSet(f, T) = SumFunctionOnSet(h, T) + SumFunctionOnSet(k, T)}
<1>1. {} \in Q
  BY SumEmpty
<1>2. ASSUME NEW T \in SUBSET S, NEW x \in S \ T, T \in Q
      PROVE  T \cup {x} \in Q
  <2>1. IsFiniteSet(T)
    BY FS_Subset
  <2>2. SumFunctionOnSet(h, T) \in Int /\ SumFunctionOnSet(k, T) \in Int
    BY <2>1, SumInt
  <2>3. /\ SumFunctionOnSet(h, T \cup {x}) = SumFunctionOnSet(h, T) + h[x]
        /\ SumFunctionOnSet(k, T \cup {x}) = SumFunctionOnSet(k, T) + k[x]
        /\ SumFunctionOnSet(f, T \cup {x}) = SumFunctionOnSet(f, T) + f[x]
    BY <2>1, SumAdd
  <2> QED BY <1>2, <2>2, <2>3
<1>3. S \in Q
  <2> HIDE DEF Q
  <2> QED BY <1>1, <1>2, SetInduction
<1> QED BY <1>3

\* A sum of natural numbers is one, and no smaller than the sum over a subset.
LEMMA SumNat ==
  ASSUME NEW h, NEW S, IsFiniteSet(S), \A x \in S : h[x] \in Nat
  PROVE  SumFunctionOnSet(h, S) \in Nat
<1> DEFINE Q == {T \in SUBSET S : SumFunctionOnSet(h, T) \in Nat}
<1>1. {} \in Q
  BY SumEmpty
<1>2. ASSUME NEW T \in SUBSET S, NEW x \in S \ T, T \in Q
      PROVE  T \cup {x} \in Q
  <2>1. IsFiniteSet(T)
    BY FS_Subset
  <2>2. SumFunctionOnSet(h, T \cup {x}) = SumFunctionOnSet(h, T) + h[x]
    BY <2>1, SumAdd
  <2> QED BY <1>2, <2>2
<1>3. S \in Q
  <2> HIDE DEF Q
  <2> QED BY <1>1, <1>2, SetInduction
<1> QED BY <1>3

\* A sum over two parts.
LEMMA SumUnion ==
  ASSUME NEW h, NEW S, IsFiniteSet(S), \A x \in S : h[x] \in Int, NEW U \in SUBSET S
  PROVE  SumFunctionOnSet(h, S) = SumFunctionOnSet(h, U) + SumFunctionOnSet(h, S \ U)
<1> DEFINE Q == {T \in SUBSET S :
                   SumFunctionOnSet(h, T) = SumFunctionOnSet(h, T \cap U) + SumFunctionOnSet(h, T \ U)}
<1>1. {} \in Q
  <2>1. {} \cap U = {} /\ {} \ U = {}
    OBVIOUS
  <2> QED BY <2>1, SumEmpty
<1>2. ASSUME NEW T \in SUBSET S, NEW x \in S \ T, T \in Q
      PROVE  T \cup {x} \in Q
  <2>1. IsFiniteSet(T) /\ IsFiniteSet(T \cap U) /\ IsFiniteSet(T \ U)
    BY FS_Subset
  <2>2. /\ SumFunctionOnSet(h, T) \in Int /\ SumFunctionOnSet(h, T \cap U) \in Int
        /\ SumFunctionOnSet(h, T \ U) \in Int
    BY <2>1, SumInt
  <2>3. SumFunctionOnSet(h, T \cup {x}) = SumFunctionOnSet(h, T) + h[x]
    BY <2>1, SumAdd
  <2>4. CASE x \in U
    <3>1. (T \cup {x}) \cap U = (T \cap U) \cup {x} /\ (T \cup {x}) \ U = T \ U
      BY <2>4
    <3>2. SumFunctionOnSet(h, (T \cap U) \cup {x}) = SumFunctionOnSet(h, T \cap U) + h[x]
      <4>1. x \notin T \cap U /\ x \notin T \ U
        OBVIOUS
      <4> QED BY <2>1, <4>1, SumAdd
    <3>3. h[x] \in Int /\ SumFunctionOnSet(h, T) =
            SumFunctionOnSet(h, T \cap U) + SumFunctionOnSet(h, T \ U)
      BY <1>2
    <3>4. SumFunctionOnSet(h, T \cup {x}) =
            SumFunctionOnSet(h, (T \cap U) \cup {x}) + SumFunctionOnSet(h, T \ U)
      BY <2>2, <2>3, <3>2, <3>3
    <3> QED BY <3>1, <3>4
  <2>5. CASE x \notin U
    <3>1. (T \cup {x}) \cap U = T \cap U /\ (T \cup {x}) \ U = (T \ U) \cup {x}
      BY <2>5
    <3>2. SumFunctionOnSet(h, (T \ U) \cup {x}) = SumFunctionOnSet(h, T \ U) + h[x]
      <4>1. x \notin T \cap U /\ x \notin T \ U
        OBVIOUS
      <4> QED BY <2>1, <4>1, SumAdd
    <3>3. h[x] \in Int /\ SumFunctionOnSet(h, T) =
            SumFunctionOnSet(h, T \cap U) + SumFunctionOnSet(h, T \ U)
      BY <1>2
    <3>4. SumFunctionOnSet(h, T \cup {x}) =
            SumFunctionOnSet(h, T \cap U) + SumFunctionOnSet(h, (T \ U) \cup {x})
      BY <2>2, <2>3, <3>2, <3>3
    <3> QED BY <3>1, <3>4
  <2> QED BY <2>4, <2>5
<1>3. S \in Q
  <2> HIDE DEF Q
  <2> QED BY <1>1, <1>2, SetInduction
<1>4. S \cap U = U
  OBVIOUS
<1> QED BY <1>3, <1>4

LEMMA SumSubset ==
  ASSUME NEW h, NEW S, IsFiniteSet(S), \A x \in S : h[x] \in Nat, NEW U \in SUBSET S
  PROVE  SumFunctionOnSet(h, U) <= SumFunctionOnSet(h, S)
<1>1. IsFiniteSet(U) /\ IsFiniteSet(S \ U)
  BY FS_Subset
<1>2. SumFunctionOnSet(h, U) \in Nat /\ SumFunctionOnSet(h, S \ U) \in Nat
  BY <1>1, SumNat
<1>3. SumFunctionOnSet(h, S) = SumFunctionOnSet(h, U) + SumFunctionOnSet(h, S \ U)
  BY SumUnion
<1> QED BY <1>2, <1>3

\* A sum of naturals is zero only if they all are.
LEMMA SumZero ==
  ASSUME NEW h, NEW S, IsFiniteSet(S), \A x \in S : h[x] \in Nat
  PROVE  SumFunctionOnSet(h, S) = 0 <=> \A x \in S : h[x] = 0
<1>1. ASSUME NEW x \in S
      PROVE  h[x] <= SumFunctionOnSet(h, S)
  <2>1. SumFunctionOnSet(h, S) = h[x] + SumFunctionOnSet(h, S \ {x})
    BY SumRemove
  <2>2. SumFunctionOnSet(h, S \ {x}) \in Nat
    BY SumNat, FS_RemoveElement
  <2> QED BY <2>1, <2>2
<1>2. SumFunctionOnSet(h, S) = 0 => \A x \in S : h[x] = 0
  BY <1>1
<1>3. ASSUME \A x \in S : h[x] = 0
      PROVE  SumFunctionOnSet(h, S) = 0
  <2> DEFINE Q == {T \in SUBSET S : SumFunctionOnSet(h, T) = 0}
  <2>1. {} \in Q
    BY SumEmpty
  <2>2. ASSUME NEW T \in SUBSET S, NEW x \in S \ T, T \in Q
        PROVE  T \cup {x} \in Q
    <3>1. IsFiniteSet(T)
      BY FS_Subset
    <3>2. SumFunctionOnSet(h, T \cup {x}) = SumFunctionOnSet(h, T) + h[x]
      BY <3>1, SumAdd
    <3> QED BY <1>3, <2>2, <3>2
  <2>3. S \in Q
    <3> HIDE DEF Q
    <3> QED BY <2>1, <2>2, SetInduction
  <2> QED BY <2>3
<1> QED BY <1>2, <1>3

=============================================================================
