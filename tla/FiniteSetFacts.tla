--------------------------- MODULE FiniteSetFacts ---------------------------
(***************************************************************************)
(* What the proofs about this system need of finite sets and of the sums   *)
(* over them.  The induction rules take a set where the library's take a   *)
(* predicate.                                                              *)
(***************************************************************************)
EXTENDS Integers, Sequences, FiniteSetsExt, FiniteSetTheorems, WellFoundedInduction, TLAPS

-----------------------------------------------------------------------------
(* Induction.                                                              *)

(* A set of numbers that is not empty has a least one.                     *)
LEMMA LeastOf ==
  ASSUME NEW N, N \subseteq Nat, N # {}
  PROVE  \E n \in N : \A m \in N : n <= m
<1>1. \E n \in N : \A m \in N : <<m, n>> \notin OpToRel(<, Nat)
  BY WFMin, NatLessThanWellFounded, Zenon
<1>2. PICK n \in N : \A m \in N : ~(m < n)
  BY <1>1 DEF OpToRel
<1> QED
  BY <1>2

(* A set with 0 in it, and the successor of each number in it, has all.    *)
LEMMA NumberInduction ==
  ASSUME NEW N, 0 \in N, \A n \in Nat : n \in N => n + 1 \in N
  PROVE  Nat \subseteq N
<1> SUFFICES ASSUME Nat \ N # {} PROVE FALSE
  OBVIOUS
<1>1. PICK n \in Nat \ N : \A m \in Nat \ N : n <= m
  BY LeastOf
<1>2. n # 0 /\ n - 1 \in Nat /\ n - 1 < n
  BY <1>1
<1>3. n - 1 \in N
  BY <1>1, <1>2
<1>4. (n - 1) + 1 \in N
  BY <1>2, <1>3
<1> QED
  BY <1>1, <1>4

LEMMA TakeOne ==
  ASSUME NEW S, IsFiniteSet(S), NEW x \in S, NEW n \in Nat, Cardinality(S) = n + 1
  PROVE  IsFiniteSet(S \ {x}) /\ Cardinality(S \ {x}) = n
BY FS_RemoveElement

(* A family of subsets of S with {} in it, and T \cup {x} for each T in    *)
(* it, has S itself.                                                       *)
LEMMA SubsetInduction ==
  ASSUME NEW S, IsFiniteSet(S), NEW F, {} \in F,
         \A T \in SUBSET S : \A x \in S \ T : T \in F => T \cup {x} \in F
  PROVE  S \in F
<1> DEFINE N == {n \in Nat : \A T \in SUBSET S : Cardinality(T) = n => T \in F}
<1>1. 0 \in N
  BY FS_EmptySet, FS_Subset
<1>2. ASSUME NEW n \in Nat, n \in N PROVE n + 1 \in N
  <2> SUFFICES ASSUME NEW T \in SUBSET S, Cardinality(T) = n + 1 PROVE T \in F
    OBVIOUS
  <2>1. IsFiniteSet(T) /\ T # {}
    BY FS_Subset, FS_EmptySet
  <2>2. PICK x \in T : TRUE
    BY <2>1
  <2>3. Cardinality(T \ {x}) = n
    BY <2>1, TakeOne
  <2>4. T \ {x} \in F
    BY <1>2, <2>3
  <2>5. (T \ {x}) \cup {x} = T
    BY <2>2
  <2> QED
    BY <2>4, <2>5
<1> HIDE DEF N
<1>3. Nat \subseteq N
  BY <1>1, <1>2, NumberInduction
<1>4. Cardinality(S) \in N
  BY <1>3, FS_CardinalityType
<1> QED
  BY <1>4 DEF N

(* The element with the fewest elements above it has none above it.        *)
LEMMA GreatestOf ==
  ASSUME NEW S, S \subseteq Nat, IsFiniteSet(S), S # {}
  PROVE  \E x \in S : \A y \in S : y <= x
<1> DEFINE above(x) == {z \in S : z > x}
           sizes == {Cardinality(above(x)) : x \in S}
<1>1. \A x \in S : IsFiniteSet(above(x)) /\ Cardinality(above(x)) \in Nat
  BY FS_Subset, FS_CardinalityType
<1>2. sizes \subseteq Nat /\ sizes # {}
  BY <1>1
<1> HIDE DEF sizes
<1>3. \E n \in sizes : \A m \in sizes : <<m, n>> \notin OpToRel(<, Nat)
  BY <1>2, WFMin, NatLessThanWellFounded, Zenon
<1>4. PICK n \in sizes : \A m \in sizes : ~(m < n)
  BY <1>2, <1>3 DEF OpToRel
<1>5. PICK x \in S : n = Cardinality(above(x))
  BY DEF sizes
<1>6. ASSUME NEW y \in S, y > x PROVE FALSE
  <2>1. above(y) \subseteq above(x) /\ y \in above(x) /\ y \notin above(y)
    <3>1. x \in Nat /\ y \in Nat /\ ~(y > y)
      OBVIOUS
    <3>2. ASSUME NEW z \in S, z > y PROVE z > x
      BY <1>6, <3>1, <3>2
    <3> QED BY <1>6, <3>1, <3>2
  <2>2. Cardinality(above(y)) < Cardinality(above(x))
    <3>1. above(y) # above(x)
      BY <2>1
    <3> HIDE DEF above
    <3> QED BY <1>1, <2>1, <3>1, FS_Subset
  <2>3. Cardinality(above(y)) \in sizes
    BY DEF sizes
  <2> QED BY <1>4, <1>5, <2>2, <2>3
<1> QED BY <1>6

-----------------------------------------------------------------------------
(* Ranks: what ORDER BY numbers, and what CHOOSE picks by its number.      *)

StrictOrder(R, S) ==
  /\ \A x \in S : <<x, x>> \notin R
  /\ \A x, y, z \in S : <<x, y>> \in R /\ <<y, z>> \in R => <<x, z>> \in R
  /\ \A x, y \in S : x = y \/ <<x, y>> \in R \/ <<y, x>> \in R

Rank(R, S, x) == Cardinality({y \in S : <<y, x>> \in R})

(* The ranks in a finite set go from 0 to its size less 1, each once, and  *)
(* along the order.                                                        *)
LEMMA RanksNumber ==
  ASSUME NEW S, IsFiniteSet(S), NEW R, StrictOrder(R, S)
  PROVE  /\ \A x \in S : Rank(R, S, x) \in 0 .. Cardinality(S) - 1
         /\ \A x, y \in S : <<x, y>> \in R <=> Rank(R, S, x) < Rank(R, S, y)
         /\ \A k \in 0 .. Cardinality(S) - 1 : \E x \in S : Rank(R, S, x) = k
<1> DEFINE below(x) == {y \in S : <<y, x>> \in R}
           n == Cardinality(S)
<1>1. \A x \in S : IsFiniteSet(below(x))
  BY FS_Subset
<1>2. n \in Nat /\ \A x \in S : Rank(R, S, x) \in Nat
  BY <1>1, FS_CardinalityType DEF Rank
<1>3. ASSUME NEW x \in S PROVE Rank(R, S, x) \in 0 .. n - 1
  <2>1. below(x) # S
    BY DEF StrictOrder
  <2>2. below(x) \in SUBSET S
    OBVIOUS
  <2> HIDE DEF below
  <2>3. Cardinality(below(x)) <= n /\ Cardinality(below(x)) # n
    BY <2>1, <2>2, FS_Subset
  <2>4. Rank(R, S, x) = Cardinality(below(x))
    BY DEF Rank, below
  <2> HIDE DEF n
  <2> QED
    BY <1>2, <2>3, <2>4
<1>4. ASSUME NEW x \in S, NEW y \in S, <<x, y>> \in R
      PROVE  Rank(R, S, x) < Rank(R, S, y)
  <2>1. below(x) \in SUBSET below(y) /\ below(x) # below(y)
    BY <1>4 DEF StrictOrder
  <2>2. IsFiniteSet(below(y))
    BY <1>1
  <2> HIDE DEF below
  <2>3. Cardinality(below(x)) <= Cardinality(below(y))
        /\ Cardinality(below(x)) # Cardinality(below(y))
    BY <2>1, <2>2, FS_Subset
  <2>4. Rank(R, S, x) = Cardinality(below(x)) /\ Rank(R, S, y) = Cardinality(below(y))
    BY DEF Rank, below
  <2> QED
    BY <1>2, <2>3, <2>4
<1> HIDE DEF below
<1>5. ASSUME NEW x \in S, NEW y \in S, ~(<<x, y>> \in R)
      PROVE  ~(Rank(R, S, x) < Rank(R, S, y)) /\ (x # y => Rank(R, S, x) # Rank(R, S, y))
  <2>1. Rank(R, S, x) \in Nat /\ Rank(R, S, y) \in Nat
    BY <1>2
  <2>2. x = y \/ <<y, x>> \in R
    BY <1>5 DEF StrictOrder
  <2>3. x = y \/ Rank(R, S, y) < Rank(R, S, x)
    BY <1>4, <2>2
  <2> QED
    BY <2>1, <2>3
<1>6. ASSUME NEW k \in 0 .. n - 1 PROVE \E x \in S : Rank(R, S, x) = k
  <2> DEFINE f == [x \in S |-> Rank(R, S, x)]
             T == 0 .. n - 1
  <2>1. f \in [S -> T]
    BY <1>3
  <2>2. ASSUME NEW x \in S, NEW y \in S, f[x] = f[y] PROVE x = y
    <3>1. Rank(R, S, x) = Rank(R, S, y) /\ Rank(R, S, x) \in Nat
      BY <1>2, <2>2
    <3>2. ~(<<x, y>> \in R)
      BY <1>4, <3>1
    <3> QED
      BY <1>5, <3>1, <3>2
  <2>3. IsFiniteSet(T) /\ Cardinality(T) = n
    BY <1>2, FS_Interval
  <2> HIDE DEF f, T, n
  <2>4. f \in Injection(S, T)
    BY <2>1, <2>2 DEF Injection, IsInjective
  <2>5. f \in Surjection(S, T)
    BY <2>3, <2>4, FS_Injection DEF n
  <2>6. \E x \in S : f[x] = k
    BY <2>5 DEF Surjection, T, n
  <2> QED
    BY <2>6 DEF f
<1> QED
  BY <1>3, <1>4, <1>5, <1>6

(* The order has a first and a last element.                               *)
LEMMA FirstAndLast ==
  ASSUME NEW S, IsFiniteSet(S), S # {}, NEW R, StrictOrder(R, S)
  PROVE  /\ \E x \in S : \A y \in S : <<y, x>> \notin R
         /\ \E x \in S : \A y \in S : <<x, y>> \notin R
<1> DEFINE n == Cardinality(S)
<1>1. n \in Nat /\ n # 0
  BY FS_CardinalityType, FS_EmptySet
<1>2. 0 \in 0 .. n - 1 /\ n - 1 \in 0 .. n - 1
  BY <1>1
<1>3. \A x \in S : Rank(R, S, x) \in 0 .. n - 1
  BY RanksNumber
<1>4. \A x, y \in S : <<x, y>> \in R => Rank(R, S, x) < Rank(R, S, y)
  BY RanksNumber
<1>5. \A k \in 0 .. n - 1 : \E x \in S : Rank(R, S, x) = k
  BY RanksNumber
<1> HIDE DEF n
<1>6. PICK x \in S : Rank(R, S, x) = 0
  BY <1>2, <1>5
<1>7. PICK z \in S : Rank(R, S, z) = n - 1
  BY <1>2, <1>5
<1>8. \A y \in S : ~(Rank(R, S, y) < 0) /\ ~(n - 1 < Rank(R, S, y))
  BY <1>1, <1>3
<1> QED
  BY <1>4, <1>6, <1>7, <1>8

-----------------------------------------------------------------------------
(* Sums: MapThenSumSet takes the elements of a set in some order.          *)

SumOver(g, S) == MapThenSumSet(LAMBDA x : g[x], S)

Some(s) == CHOOSE x \in s : TRUE

(* iter is the recursive function that MapThenSumSet goes by.              *)
SumsUp(g, S, iter) ==
  iter = [s \in SUBSET S |->
            IF s = {} THEN 0 ELSE g[Some(s)] + iter[s \ {Some(s)}]]

LEMMA SumUnfolded ==
  ASSUME NEW g, NEW S
  PROVE  SumOver(g, S) = (CHOOSE iter : SumsUp(g, S, iter))[S]
BY Zenon DEF SumOver, MapThenSumSet, MapThenFoldSet, SumsUp, Some

(* Such a function there is: it grows with the size of its arguments.      *)
LEMMA SumsUpExists ==
  ASSUME NEW S, IsFiniteSet(S), NEW g
  PROVE  \E iter : SumsUp(g, S, iter)
<1> DEFINE Upto(n) == {s \in SUBSET S : Cardinality(s) <= n}
           Value(h, s) == IF s = {} THEN 0 ELSE g[Some(s)] + h[s \ {Some(s)}]
           N == {n \in Nat : \E h : h = [s \in Upto(n) |-> Value(h, s)]}
<1>1. ASSUME NEW s \in SUBSET S, s # {}
      PROVE  /\ Some(s) \in s /\ s \ {Some(s)} \in SUBSET S
             /\ Cardinality(s) \in Nat
             /\ Cardinality(s \ {Some(s)}) = Cardinality(s) - 1
  BY <1>1, FS_Subset, FS_RemoveElement, FS_CardinalityType DEF Some
<1>2. 0 \in N
  <2>1. Upto(0) = {{}}
    BY <1>1, FS_EmptySet, FS_Subset, FS_CardinalityType
  <2> DEFINE h == [s \in {{}} |-> 0]
  <2>2. h = [s \in Upto(0) |-> Value(h, s)]
    BY <2>1
  <2> QED
    BY <2>2
<1>3. ASSUME NEW n \in Nat, n \in N PROVE n + 1 \in N
  <2>1. PICK h : h = [s \in Upto(n) |-> Value(h, s)]
    BY <1>3
  <2> DEFINE k == [s \in Upto(n + 1) |-> Value(h, s)]
  <2>2. ASSUME NEW s \in Upto(n), s # {}
        PROVE  s \ {Some(s)} \in Upto(n)
    BY <1>1, <2>2
  <2>3. ASSUME NEW s \in Upto(n) PROVE s \in Upto(n + 1) /\ k[s] = h[s]
    <3>1. s \in Upto(n + 1)
      BY FS_Subset, FS_CardinalityType
    <3>2. h[s] = Value(h, s)
      BY <2>1
    <3> QED
      BY <3>1, <3>2
  <2>4. ASSUME NEW s \in Upto(n + 1) PROVE Value(h, s) = Value(k, s)
    <3> SUFFICES ASSUME s # {} PROVE h[s \ {Some(s)}] = k[s \ {Some(s)}]
      OBVIOUS
    <3>1. s \ {Some(s)} \in Upto(n)
      BY <1>1
    <3> QED
      BY <2>3, <3>1
  <2>5. k = [s \in Upto(n + 1) |-> Value(k, s)]
    <3> HIDE DEF Value, Upto
    <3> QED
      BY <2>4
  <2> HIDE DEF k, Value, Upto
  <2> QED
    BY <2>5
<1>4. Nat \subseteq N
  <2> HIDE DEF N
  <2> QED
    BY <1>2, <1>3, NumberInduction
<1>5. Cardinality(S) \in N
  BY <1>4, FS_CardinalityType
<1>6. Upto(Cardinality(S)) = SUBSET S
  BY FS_Subset
<1> HIDE DEF Upto
<1> QED
  BY <1>5, <1>6 DEF SumsUp

LEMMA SumsUpType ==
  ASSUME NEW S, IsFiniteSet(S), NEW g, \A x \in S : g[x] \in Int,
         NEW iter, SumsUp(g, S, iter)
  PROVE  \A s \in SUBSET S : iter[s] \in Int
<1> DEFINE N == {n \in Nat : \A s \in SUBSET S : Cardinality(s) = n => iter[s] \in Int}
<1>1. 0 \in N
  <2>1. iter[{}] = 0
    BY DEF SumsUp
  <2> QED
    BY <2>1, FS_EmptySet, FS_Subset
<1>2. ASSUME NEW n \in Nat, n \in N PROVE n + 1 \in N
  <2> SUFFICES ASSUME NEW s \in SUBSET S, Cardinality(s) = n + 1 PROVE iter[s] \in Int
    OBVIOUS
  <2>1. IsFiniteSet(s) /\ s # {}
    BY FS_Subset, FS_EmptySet
  <2>2. Some(s) \in s /\ iter[s] = g[Some(s)] + iter[s \ {Some(s)}]
    BY <2>1 DEF SumsUp, Some
  <2>3. Cardinality(s \ {Some(s)}) = n
    BY <2>1, <2>2, TakeOne
  <2>4. iter[s \ {Some(s)}] \in Int
    BY <1>2, <2>3
  <2> QED
    BY <2>2, <2>4
<1> HIDE DEF N
<1>3. Nat \subseteq N
  BY <1>1, <1>2, NumberInduction
<1>4. ASSUME NEW s \in SUBSET S PROVE iter[s] \in Int
  <2>1. Cardinality(s) \in N
    BY <1>3, FS_Subset, FS_CardinalityType
  <2> QED
    BY <2>1 DEF N
<1> QED
  BY <1>4

(* In whatever order the elements are taken.                               *)
LEMMA SumsUpAnyOrder ==
  ASSUME NEW S, IsFiniteSet(S), NEW g, \A x \in S : g[x] \in Int,
         NEW iter, SumsUp(g, S, iter)
  PROVE  \A s \in SUBSET S : \A x \in s : iter[s] = g[x] + iter[s \ {x}]
<1> DEFINE Good(s) == \A x \in s : iter[s] = g[x] + iter[s \ {x}]
           N == {n \in Nat : \A s \in SUBSET S : Cardinality(s) = n => Good(s)}
<1>1. 0 \in N
  BY FS_EmptySet, FS_Subset
<1>2. ASSUME NEW n \in Nat, n \in N PROVE n + 1 \in N
  <2> SUFFICES ASSUME NEW s \in SUBSET S, Cardinality(s) = n + 1 PROVE Good(s)
    OBVIOUS
  <2>1. IsFiniteSet(s) /\ s # {}
    BY FS_Subset, FS_EmptySet
  <2>2. ASSUME NEW x \in s PROVE s \ {x} \in SUBSET S /\ Good(s \ {x})
    <3>1. Cardinality(s \ {x}) = n
      BY <2>1, TakeOne
    <3> QED
      BY <1>2, <3>1
  <2> DEFINE c == Some(s)
  <2>3. c \in s /\ iter[s] = g[c] + iter[s \ {c}]
    BY <2>1 DEF SumsUp, Some
  <2> HIDE DEF c
  <2>4. ASSUME NEW x \in s, x # c PROVE iter[s] = g[x] + iter[s \ {x}]
    <3> DEFINE rest == iter[(s \ {c}) \ {x}]
    <3>1. iter[s \ {c}] = g[x] + rest
      BY <2>2, <2>3, <2>4
    <3>2. (s \ {x}) \ {c} = (s \ {c}) \ {x}
      OBVIOUS
    <3>3. iter[s \ {x}] = g[c] + rest
      BY <2>2, <2>3, <2>4, <3>2
    <3>4. g[c] \in Int /\ g[x] \in Int /\ rest \in Int
      BY <2>3, SumsUpType
    <3> HIDE DEF rest
    <3> QED
      BY <2>3, <3>1, <3>3, <3>4
  <2> QED
    BY <2>3, <2>4
<1> HIDE DEF N
<1>3. Nat \subseteq N
  BY <1>1, <1>2, NumberInduction
<1>4. ASSUME NEW s \in SUBSET S PROVE Good(s)
  <2>1. Cardinality(s) \in N
    BY <1>3, FS_Subset, FS_CardinalityType
  <2> QED
    BY <2>1 DEF N
<1> QED
  BY <1>4

(* Hence two such functions agree, and MapThenSumSet is either of them.    *)
LEMMA SumsUpUnique ==
  ASSUME NEW S, IsFiniteSet(S), NEW g, NEW h, \A x \in S : g[x] = h[x],
         NEW T \in SUBSET S,
         NEW iter, SumsUp(g, S, iter), NEW jter, SumsUp(h, T, jter)
  PROVE  \A s \in SUBSET T : iter[s] = jter[s]
<1> DEFINE N == {n \in Nat : \A s \in SUBSET T : Cardinality(s) = n => iter[s] = jter[s]}
<1>1. 0 \in N
  <2>1. iter[{}] = 0 /\ jter[{}] = 0
    BY DEF SumsUp
  <2> QED
    BY <2>1, FS_EmptySet, FS_Subset
<1>2. ASSUME NEW n \in Nat, n \in N PROVE n + 1 \in N
  <2> SUFFICES ASSUME NEW s \in SUBSET T, Cardinality(s) = n + 1 PROVE iter[s] = jter[s]
    OBVIOUS
  <2>1. IsFiniteSet(s) /\ s # {}
    BY FS_Subset, FS_EmptySet
  <2>2. /\ Some(s) \in s
        /\ iter[s] = g[Some(s)] + iter[s \ {Some(s)}]
        /\ jter[s] = h[Some(s)] + jter[s \ {Some(s)}]
    BY <2>1 DEF SumsUp, Some
  <2>3. Cardinality(s \ {Some(s)}) = n
    BY <2>1, <2>2, TakeOne
  <2>4. iter[s \ {Some(s)}] = jter[s \ {Some(s)}]
    BY <1>2, <2>3
  <2> QED
    BY <2>2, <2>4
<1> HIDE DEF N
<1>3. Nat \subseteq N
  BY <1>1, <1>2, NumberInduction
<1>4. ASSUME NEW s \in SUBSET T PROVE iter[s] = jter[s]
  <2>1. Cardinality(s) \in N
    BY <1>3, FS_Subset, FS_CardinalityType
  <2> QED
    BY <2>1 DEF N
<1> QED
  BY <1>4

LEMMA SumIs ==
  ASSUME NEW S, IsFiniteSet(S), NEW g, NEW T \in SUBSET S,
         NEW iter, SumsUp(g, S, iter)
  PROVE  SumOver(g, T) = iter[T]
<1> DEFINE jter == CHOOSE j : SumsUp(g, T, j)
<1>1. SumsUp(g, T, jter)
  BY SumsUpExists, FS_Subset
<1> HIDE DEF jter
<1>2. PICK h : h = g
  OBVIOUS
<1>3. SumsUp(h, T, jter) /\ \A x \in S : g[x] = h[x]
  BY <1>1, <1>2
<1>4. \A s \in SUBSET T : iter[s] = jter[s]
  BY <1>3, SumsUpUnique
<1> QED
  BY <1>4, SumUnfolded DEF jter

-----------------------------------------------------------------------------
(* What the proofs use.                                                    *)

LEMMA SumOfNone ==
  ASSUME NEW g
  PROVE  SumOver(g, {}) = 0
<1>1. PICK iter : SumsUp(g, {}, iter)
  BY SumsUpExists, FS_EmptySet
<1>2. iter[{}] = 0
  BY <1>1 DEF SumsUp
<1> QED
  BY <1>1, <1>2, SumIs, FS_EmptySet

LEMMA SumType ==
  ASSUME NEW S, IsFiniteSet(S), NEW g, \A x \in S : g[x] \in Int
  PROVE  SumOver(g, S) \in Int
<1>1. PICK iter : SumsUp(g, S, iter)
  BY SumsUpExists
<1> QED
  BY <1>1, SumIs, SumsUpType

LEMMA SumAdd ==
  ASSUME NEW S, IsFiniteSet(S), NEW g, NEW x, x \notin S,
         g[x] \in Int, \A y \in S : g[y] \in Int
  PROVE  SumOver(g, S \cup {x}) = g[x] + SumOver(g, S)
<1> DEFINE T == S \cup {x}
<1>1. IsFiniteSet(T)
  BY FS_AddElement
<1>2. PICK iter : SumsUp(g, T, iter)
  BY <1>1, SumsUpExists
<1>3. iter[T] = g[x] + iter[T \ {x}]
  BY <1>1, <1>2, SumsUpAnyOrder
<1>4. T \ {x} = S /\ S \in SUBSET T /\ T \in SUBSET T
  OBVIOUS
<1> HIDE DEF T
<1>5. SumOver(g, T) = iter[T] /\ SumOver(g, S) = iter[S]
  BY <1>1, <1>2, <1>4, SumIs
<1> QED
  BY <1>3, <1>4, <1>5 DEF T

LEMMA SumSame ==
  ASSUME NEW S, IsFiniteSet(S), NEW g, NEW h, \A x \in S : g[x] = h[x]
  PROVE  SumOver(g, S) = SumOver(h, S)
<1>1. PICK iter : SumsUp(g, S, iter)
  BY SumsUpExists
<1>2. PICK jter : SumsUp(h, S, jter)
  BY SumsUpExists
<1>3. iter[S] = jter[S]
  BY <1>1, <1>2, SumsUpUnique
<1> QED
  BY <1>1, <1>2, <1>3, SumIs

LEMMA SumOfZeros ==
  ASSUME NEW S, IsFiniteSet(S), NEW g, \A x \in S : g[x] = 0
  PROVE  SumOver(g, S) = 0
<1> DEFINE F == {T \in SUBSET S : SumOver(g, T) = 0}
<1>1. {} \in F
  BY SumOfNone
<1>2. ASSUME NEW T \in SUBSET S, NEW x \in S \ T, T \in F PROVE T \cup {x} \in F
  <2>1. IsFiniteSet(T) /\ x \notin T /\ g[x] \in Int /\ \A y \in T : g[y] \in Int
    BY FS_Subset
  <2>2. SumOver(g, T \cup {x}) = g[x] + SumOver(g, T)
    BY <2>1, SumAdd
  <2> QED
    BY <1>2, <2>2
<1> HIDE DEF F
<1>3. S \in F
  BY <1>1, <1>2, SubsetInduction
<1> QED
  BY <1>3 DEF F

-----------------------------------------------------------------------------
(* Max and Min choose the greatest and the least.                          *)

LEMMA MaxIs ==
  ASSUME NEW S, S \subseteq Nat, NEW x \in S, \A y \in S : x >= y
  PROVE  Max(S) = x
<1>1. \A z \in S : (\A y \in S : z >= y) => z = x
  <2>1. \A z \in S : z >= x /\ x >= z => z = x
    OBVIOUS
  <2> QED
    BY <2>1
<1>2. Max(S) \in S /\ \A y \in S : Max(S) >= y
  BY Zenon DEF Max
<1> QED
  BY <1>1, <1>2

LEMMA MinIs ==
  ASSUME NEW S, S \subseteq Nat, NEW x \in S, \A y \in S : x <= y
  PROVE  Min(S) = x
<1>1. \A z \in S : (\A y \in S : z <= y) => z = x
  <2>1. \A z \in S : z <= x /\ x <= z => z = x
    OBVIOUS
  <2> QED
    BY <2>1
<1>2. Min(S) \in S /\ \A y \in S : Min(S) <= y
  BY Zenon DEF Min
<1> QED
  BY <1>1, <1>2

-----------------------------------------------------------------------------
(* Images.                                                                 *)

LEMMA ImageIsFinite ==
  ASSUME NEW S, IsFiniteSet(S), NEW f
  PROVE  IsFiniteSet({f[x] : x \in S}) /\ Cardinality({f[x] : x \in S}) <= Cardinality(S)
<1> DEFINE T == {f[x] : x \in S}
           h == [x \in S |-> f[x]]
<1>1. h \in Surjection(S, T)
  BY DEF Surjection
<1> HIDE DEF h
<1> QED
  BY <1>1, FS_Surjection

-----------------------------------------------------------------------------
(* Lists by rank.                                                          *)

LEMMA ListOf ==
  ASSUME NEW n \in Nat, NEW S, NEW list \in [1 .. n -> S]
  PROVE  list \in Seq(S) /\ Len(list) = n
OBVIOUS

(* The i-th of the list is the one of rank i - 1, if there is one.         *)
ListedByRank(list, R, S) ==
  /\ \E U : list \in [1 .. Cardinality(S) -> U]
  /\ \A i \in 1 .. Cardinality(S) :
       (\E x \in S : Rank(R, S, x) = i - 1) =>
         list[i] \in S /\ Rank(R, S, list[i]) = i - 1

(* What such a list has: all of the set, each once, along the order.       *)
LEMMA RankedList ==
  ASSUME NEW S, IsFiniteSet(S), NEW R, StrictOrder(R, S),
         NEW list, ListedByRank(list, R, S)
  PROVE  /\ list \in Seq(S) /\ Len(list) = Cardinality(S)
         /\ \A i, j \in 1 .. Cardinality(S) : i < j => <<list[i], list[j]>> \in R
         /\ \A x \in S : \E i \in 1 .. Cardinality(S) : list[i] = x
<1> DEFINE n == Cardinality(S)
<1>1. n \in Nat
  BY FS_CardinalityType
<1>2. /\ \A x \in S : Rank(R, S, x) \in 0 .. n - 1
      /\ \A x, y \in S : <<x, y>> \in R <=> Rank(R, S, x) < Rank(R, S, y)
      /\ \A k \in 0 .. n - 1 : \E x \in S : Rank(R, S, x) = k
  BY RanksNumber
<1>3. ASSUME NEW i \in 1 .. n PROVE list[i] \in S /\ Rank(R, S, list[i]) = i - 1
  <2>1. i - 1 \in 0 .. n - 1
    BY <1>1
  <2> QED
    BY <1>2, <2>1 DEF ListedByRank
<1> HIDE DEF n
<1>4. list \in Seq(S) /\ Len(list) = n
  <2>1. list \in [1 .. n -> S]
    BY <1>3 DEF n, ListedByRank
  <2> QED
    BY <1>1, <2>1, ListOf
<1>5. ASSUME NEW i \in 1 .. n, NEW j \in 1 .. n, i < j PROVE <<list[i], list[j]>> \in R
  <2>1. Rank(R, S, list[i]) < Rank(R, S, list[j])
    <3>1. Rank(R, S, list[i]) = i - 1 /\ Rank(R, S, list[j]) = j - 1
      BY <1>3
    <3>2. i - 1 < j - 1
      BY <1>1, <1>5
    <3> QED
      BY <3>1, <3>2
  <2> QED
    BY <1>2, <1>3, <2>1
<1>6. ASSUME NEW x \in S PROVE \E i \in 1 .. n : list[i] = x
  <2> DEFINE i == Rank(R, S, x) + 1
  <2>1. i \in 1 .. n /\ i - 1 = Rank(R, S, x)
    <3>1. Rank(R, S, x) \in 0 .. n - 1
      BY <1>2
    <3> QED
      BY <1>1, <3>1
  <2>2. list[i] \in S /\ Rank(R, S, list[i]) = Rank(R, S, x)
    BY <1>3, <2>1
  <2>3. Rank(R, S, x) \in Nat
    BY <1>1, <1>2
  <2> HIDE DEF i
  <2>4. <<x, list[i]>> \notin R /\ <<list[i], x>> \notin R
    BY <1>2, <2>2, <2>3
  <2> QED
    BY <2>1, <2>2, <2>4 DEF StrictOrder
<1> QED
  BY <1>4, <1>5, <1>6 DEF n

-----------------------------------------------------------------------------
(* The parts of a finite set add up to it.                                 *)

Part(S, f, b) == {x \in S : f[x] = b}

LEMMA SumOfParts ==
  ASSUME NEW S, IsFiniteSet(S), NEW B, IsFiniteSet(B), NEW f, \A x \in S : f[x] \in B,
         NEW g, \A b \in B : g[b] = Cardinality(Part(S, f, b))
  PROVE  SumOver(g, B) = Cardinality(S)
<1> DEFINE part(b) == {x \in S : f[x] = b}
           into(T) == {x \in S : f[x] \in T}
           F == {T \in SUBSET B : SumOver(g, T) = Cardinality(into(T))}
<1>1. \A b \in B : IsFiniteSet(part(b)) /\ g[b] = Cardinality(part(b)) /\ g[b] \in Int
  <2> SUFFICES ASSUME NEW b \in B
               PROVE  IsFiniteSet(part(b)) /\ g[b] = Cardinality(part(b)) /\ g[b] \in Int
    OBVIOUS
  <2>1. IsFiniteSet(part(b))
    BY FS_Subset
  <2>2. Cardinality(part(b)) \in Nat
    <3> HIDE DEF part
    <3> QED
      BY <2>1, FS_CardinalityType
  <2> QED
    BY <2>1, <2>2 DEF Part
<1>2. {} \in F
  <2>1. into({}) = {}
    OBVIOUS
  <2> QED
    BY <2>1, SumOfNone, FS_EmptySet
<1>3. ASSUME NEW T \in SUBSET B, NEW b \in B \ T, T \in F PROVE T \cup {b} \in F
  <2>1. IsFiniteSet(T) /\ b \notin T /\ g[b] \in Int /\ \A y \in T : g[y] \in Int
    BY <1>1, FS_Subset
  <2>2. SumOver(g, T \cup {b}) = g[b] + SumOver(g, T)
    BY <2>1, SumAdd
  <2>3. into(T \cup {b}) = into(T) \cup part(b) /\ into(T) \cap part(b) = {}
    OBVIOUS
  <2>4. IsFiniteSet(into(T)) /\ IsFiniteSet(part(b))
    BY FS_Subset
  <2>5. SumOver(g, T) = Cardinality(into(T)) /\ g[b] = Cardinality(part(b))
    BY <1>1, <1>3
  <2> HIDE DEF into, part
  <2>6. Cardinality(into(T) \cup part(b))
          = Cardinality(into(T)) + Cardinality(part(b)) - Cardinality(into(T) \cap part(b))
    BY <2>4, FS_Union
  <2>7. Cardinality(into(T)) \in Nat /\ Cardinality(part(b)) \in Nat
    BY <2>4, FS_CardinalityType
  <2>8. Cardinality(into(T) \cup part(b)) = Cardinality(part(b)) + Cardinality(into(T))
    <3>1. Cardinality(into(T) \cap part(b)) = 0
      BY <2>3, FS_EmptySet
    <3> QED
      BY <2>6, <2>7, <3>1
  <2> QED
    BY <2>2, <2>3, <2>5, <2>8
<1> HIDE DEF F
<1>4. B \in F
  BY <1>2, <1>3, SubsetInduction
<1>5. into(B) = S
  OBVIOUS
<1> QED
  BY <1>4, <1>5 DEF F

(* What is taken from each without repetition is as many.                  *)
LEMMA ImageIsAsLarge ==
  ASSUME NEW S, IsFiniteSet(S), NEW f, \A x, y \in S : f[x] = f[y] => x = y
  PROVE  Cardinality({f[x] : x \in S}) = Cardinality(S)
<1> DEFINE T == {f[x] : x \in S}
           h == [x \in S |-> f[x]]
<1>1. h \in Surjection(S, T) /\ h \in Injection(S, T)
  BY DEF Surjection, Injection, IsInjective
<1> HIDE DEF h, T
<1>2. Cardinality(T) = Cardinality(S)
  BY <1>1, FS_Surjection
<1> QED
  BY <1>2 DEF T
=============================================================================
