-------------------------- MODULE InductionLemmas --------------------------
(***************************************************************************)
(* Induction in the form that the provers can use, with a set where a      *)
(* textbook has a predicate, and what follows from it about sums over      *)
(* finite sets.  Nothing here is about the program.                        *)
(***************************************************************************)
EXTENDS Integers, FiniteSets, Functions, FiniteSetTheorems, WellFoundedInduction, TLAPS

LEMMA LeastNatural ==
    ASSUME NEW T \in SUBSET Nat, T # {}
    PROVE  \E m \in T : \A n \in T : m <= n
<1> DEFINE R == {p \in Nat \X Nat : p[1] < p[2]}
<1>1. IsWellFoundedOn(OpToRel(<, Nat), Nat)
  BY NatLessThanWellFounded
<1>2. OpToRel(<, Nat) = R
  BY Zenon DEF OpToRel
<1>3. IsWellFoundedOn(R, Nat)
  BY <1>1, <1>2, Zenon
<1> HIDE DEF R
<1>4. PICK m \in T : \A n \in T : <<n, m>> \notin R
  BY <1>3, WFMin
<1>5. ASSUME NEW n \in T PROVE m <= n
  <2>1. <<n, m>> \in Nat \X Nat
    OBVIOUS
  <2>2. ~(n < m)
    BY <1>4, <2>1 DEF R
  <2>3. QED
    BY <2>2
<1>6. QED
  BY <1>5

LEMMA Induction ==
    ASSUME NEW P, 0 \in P, \A n \in Nat : n \in P => n + 1 \in P
    PROVE  Nat \subseteq P
<1>1. SUFFICES ASSUME Nat \ P # {} PROVE FALSE
  OBVIOUS
<1>2. PICK m \in Nat \ P : \A n \in Nat \ P : m <= n
  BY <1>1, LeastNatural
<1>3. m # 0 /\ m - 1 \in Nat
  BY <1>2
<1>4. m - 1 \in P
  BY <1>2, <1>3
<1>5. QED
  BY <1>2, <1>3, <1>4

\* What holds of a set when it holds of the set without any one of its elements
\* holds of every finite set.
LEMMA FiniteInduction ==
    ASSUME NEW S, IsFiniteSet(S), NEW P,
           \A T \in SUBSET S : (\A x \in T : T \ {x} \in P) => T \in P
    PROVE  \A T \in SUBSET S : T \in P
<1> DEFINE Q == {n \in Nat : \A T \in SUBSET S : Cardinality(T) = n => T \in P}
<1>1. \A T \in SUBSET S : IsFiniteSet(T) /\ Cardinality(T) \in Nat
  BY FS_Subset, FS_CardinalityType
<1>2. 0 \in Q
  BY <1>1, FS_EmptySet
<1>3. ASSUME NEW n \in Nat, n \in Q PROVE n + 1 \in Q
  <2>1. ASSUME NEW T \in SUBSET S, Cardinality(T) = n + 1 PROVE T \in P
    <3>1. ASSUME NEW x \in T PROVE T \ {x} \in P
      <4>1. Cardinality(T \ {x}) = n
        BY <1>1, <2>1, FS_RemoveElement
      <4>2. QED
        BY <1>3, <4>1
    <3>2. QED
      BY <3>1
  <2>2. QED
    BY <2>1
<1> HIDE DEF Q
<1>4. Nat \subseteq Q
  BY <1>2, <1>3, Induction
<1>5. QED
  BY <1>1, <1>4 DEF Q

LEMMA FiniteImage ==
    ASSUME NEW D, IsFiniteSet(D), NEW f
    PROVE  IsFiniteSet({f[x] : x \in D})
<1> DEFINE T == {f[x] : x \in D}
           g == [x \in D |-> f[x]]
<1>1. g \in Surjection(D, T)
  BY DEF Surjection
<1>2. QED
  BY <1>1, FS_Surjection

-----------------------------------------------------------------------------
(* Sums over finite sets: SumFunctionOnSet of the community modules *)

Choice(T) == CHOOSE x \in T : TRUE

\* g is the recursion that SumFunctionOnSet unfolds, on the subsets of S
Sums(g, f, S) ==
    \A T \in SUBSET S : g[T] = IF T = {} THEN 0 ELSE f[Choice(T)] + g[T \ {Choice(T)}]

LEMMA SumsExist ==
    ASSUME NEW S, IsFiniteSet(S), NEW f, \A x \in S : f[x] \in Int
    PROVE  \E g \in [SUBSET S -> Int] : Sums(g, f, S)
<1> DEFINE Small(n) == {T \in SUBSET S : Cardinality(T) <= n}
           After(g, T) == IF T = {} THEN 0 ELSE f[Choice(T)] + g[T \ {Choice(T)}]
           Q == {n \in Nat : \E g \in [Small(n) -> Int] : \A T \in Small(n) : g[T] = After(g, T)}
<1>1. \A T \in SUBSET S : IsFiniteSet(T) /\ Cardinality(T) \in Nat
  BY FS_Subset, FS_CardinalityType
<1>2. \A T \in SUBSET S : T # {} => Choice(T) \in T
  BY DEF Choice
<1>3. \A n \in Nat : \A T \in Small(n + 1) :
          T # {} => T \ {Choice(T)} \in Small(n) /\ f[Choice(T)] \in Int
  <2>1. SUFFICES ASSUME NEW n \in Nat, NEW T \in SUBSET S, Cardinality(T) <= n + 1, T # {}
                 PROVE  Cardinality(T \ {Choice(T)}) <= n /\ f[Choice(T)] \in Int
    OBVIOUS
  <2>2. Choice(T) \in T
    BY <1>2, <2>1
  <2>3. Cardinality(T \ {Choice(T)}) = Cardinality(T) - 1
    BY <1>1, <2>2, FS_RemoveElement
  <2>4. QED
    BY <1>1, <2>1, <2>2, <2>3
<1>4. 0 \in Q
  <2>1. \A T \in Small(0) : T = {}
    BY <1>1, FS_EmptySet
  <2>2. [T \in Small(0) |-> 0] \in [Small(0) -> Int]
    OBVIOUS
  <2>3. \A T \in Small(0) : [U \in Small(0) |-> 0][T] = After([U \in Small(0) |-> 0], T)
    BY <2>1
  <2>4. QED
    BY <2>2, <2>3
<1>5. ASSUME NEW n \in Nat, n \in Q PROVE n + 1 \in Q
  <2>1. PICK g \in [Small(n) -> Int] : \A T \in Small(n) : g[T] = After(g, T)
    BY <1>5
  <2> DEFINE h == [T \in Small(n + 1) |-> After(g, T)]
  <2>2. Small(n) \subseteq Small(n + 1)
    BY <1>1
  <2>3. \A T \in Small(n + 1) : After(g, T) \in Int
    BY <1>3
  <2>4. h \in [Small(n + 1) -> Int]
    BY <2>3, Zenon
  <2>5. \A T \in Small(n) : h[T] = g[T]
    BY <2>1, <2>2
  <2>6. ASSUME NEW T \in Small(n + 1) PROVE h[T] = After(h, T)
    <3>1. h[T] = After(g, T)
      OBVIOUS
    <3>2. T # {} => h[T \ {Choice(T)}] = g[T \ {Choice(T)}]
      BY <1>3, <2>5
    <3> HIDE DEF h
    <3>3. QED
      BY <3>1, <3>2
  <2> HIDE DEF h
  <2>7. \E k \in [Small(n + 1) -> Int] : \A T \in Small(n + 1) : k[T] = After(k, T)
    BY <2>4, <2>6, Zenon
  <2>8. n + 1 \in Nat
    OBVIOUS
  <2>9. QED
    BY <2>7, <2>8, Zenon
<1>6. Nat \subseteq Q
  <2> HIDE DEF Q
  <2> QED BY <1>4, <1>5, Induction
<1>7. PICK n \in Nat : n = Cardinality(S)
  BY <1>1
<1>8. Small(n) = SUBSET S
  BY <1>7, FS_Subset
<1>9. QED
  BY <1>6, <1>8 DEF Sums

LEMMA SumsAgree ==
    ASSUME NEW S, IsFiniteSet(S), NEW f, NEW g, NEW h, Sums(g, f, S), Sums(h, f, S)
    PROVE  \A T \in SUBSET S : g[T] = h[T]
<1> DEFINE P == {T \in SUBSET S : g[T] = h[T]}
<1>1. ASSUME NEW T \in SUBSET S, \A x \in T : T \ {x} \in P PROVE T \in P
  <2>1. T # {} => Choice(T) \in T
    BY DEF Choice
  <2>2. QED
    BY <1>1, <2>1 DEF Sums
<1>2. \A T \in SUBSET S : T \in P
  <2> HIDE DEF P
  <2>1. \A T \in SUBSET S : T \in P
    BY <1>1, FiniteInduction, Zenon
  <2>2. QED
    BY <2>1
<1>3. QED
  BY <1>2

\* g is the sum of f over each subset of S
AreSums(g, f, S) ==
    /\ g \in [SUBSET S -> Int]
    /\ Sums(g, f, S)
    /\ \A T \in SUBSET S : SumFunctionOnSet(f, T) = g[T]

LEMMA SumOfSums ==
    ASSUME NEW S, IsFiniteSet(S), NEW f, \A x \in S : f[x] \in Int
    PROVE  \E g : AreSums(g, f, S)
<1> DEFINE Step(g, T) == [U \in SUBSET T |-> IF U = {} THEN 0
                                             ELSE f[CHOOSE x \in U : TRUE]
                                                  + g[U \ {CHOOSE x \in U : TRUE}]]
<1>1. PICK g \in [SUBSET S -> Int] : Sums(g, f, S)
  BY SumsExist
<1>2. ASSUME NEW T \in SUBSET S PROVE SumFunctionOnSet(f, T) = g[T]
  <2>1. IsFiniteSet(T) /\ \A x \in T : f[x] \in Int
    BY FS_Subset
  <2>2. PICK k \in [SUBSET T -> Int] : Sums(k, f, T)
    BY <2>1, SumsExist
  <2>3. k = [U \in SUBSET T |-> k[U]]
    OBVIOUS
  <2>4. k = Step(k, T)
    BY <2>2, <2>3, Zenon DEF Sums, Choice
  <2> DEFINE h == CHOOSE iter : iter = Step(iter, T)
  <2>5. h = Step(h, T)
    BY <2>4, Zenon
  <2>6. SumFunctionOnSet(f, T) = h[T]
    BY DEF SumFunctionOnSet, FoldFunctionOnSet, MapThenFoldSet
  <2> HIDE DEF h
  <2>7. Sums(h, f, T)
    <3> SUFFICES ASSUME NEW U \in SUBSET T
                 PROVE  h[U] = IF U = {} THEN 0 ELSE f[Choice(U)] + h[U \ {Choice(U)}]
      BY DEF Sums
    <3>1. h[U] = Step(h, T)[U]
      BY <2>5
    <3>2. QED
      BY <3>1, Zenon DEF Choice
  <2>8. Sums(g, f, T)
    BY <1>1 DEF Sums
  <2>9. h[T] = g[T]
    BY <2>1, <2>7, <2>8, SumsAgree
  <2>10. QED
    BY <2>6, <2>9
<1>3. QED
  BY <1>1, <1>2, Zenon DEF AreSums

LEMMA SumType ==
    ASSUME NEW S, IsFiniteSet(S), NEW f, \A x \in S : f[x] \in Int
    PROVE  SumFunctionOnSet(f, S) \in Int
<1>1. PICK g : AreSums(g, f, S)
  BY SumOfSums, Zenon
<1>2. QED
  BY <1>1 DEF AreSums

LEMMA SumEmpty == ASSUME NEW f PROVE SumFunctionOnSet(f, {}) = 0
<1>1. IsFiniteSet({}) /\ \A x \in {} : f[x] \in Int
  BY FS_EmptySet
<1>2. PICK g : AreSums(g, f, {})
  BY <1>1, SumOfSums, Zenon
<1>3. QED
  BY <1>2 DEF AreSums, Sums

\* A sum may be taken in any order: every element may come last.
LEMMA SumRemove ==
    ASSUME NEW S, IsFiniteSet(S), NEW f, \A x \in S : f[x] \in Int, NEW x \in S
    PROVE  SumFunctionOnSet(f, S) = f[x] + SumFunctionOnSet(f, S \ {x})
<1>1. PICK g \in [SUBSET S -> Int] :
          Sums(g, f, S) /\ \A T \in SUBSET S : SumFunctionOnSet(f, T) = g[T]
  <2>1. PICK g : AreSums(g, f, S)
    BY SumOfSums, Zenon
  <2>2. QED
    BY <2>1, Zenon DEF AreSums
<1> DEFINE P == {T \in SUBSET S : \A y \in T : g[T] = f[y] + g[T \ {y}]}
<1>2. ASSUME NEW T \in SUBSET S, \A y \in T : T \ {y} \in P PROVE T \in P
  <2>1. ASSUME NEW y \in T PROVE g[T] = f[y] + g[T \ {y}]
    <3>1. PICK c \in T : g[T] = f[c] + g[T \ {c}]
      <4>1. Choice(T) \in T
        BY <2>1 DEF Choice
      <4>2. QED
        BY <1>1, <4>1 DEF Sums
    <3>2. CASE c = y
      BY <3>1, <3>2
    <3>3. CASE c # y
      <4> DEFINE rest == T \ {c, y}
      <4>1. (T \ {c}) \ {y} = rest /\ (T \ {y}) \ {c} = rest
        OBVIOUS
      <4>2. g[T \ {c}] = f[y] + g[rest]
        BY <1>2, <3>3, <4>1
      <4>3. g[T \ {y}] = f[c] + g[rest]
        BY <1>2, <3>3, <4>1
      <4>4. rest \in SUBSET S
        OBVIOUS
      <4>5. f[c] \in Int /\ f[y] \in Int /\ g[rest] \in Int
        BY <4>4
      <4> HIDE DEF rest
      <4>6. QED
        BY <3>1, <4>2, <4>3, <4>5
    <3>4. QED
      BY <3>2, <3>3
  <2>2. QED
    BY <2>1
<1>3. S \in P
  <2> HIDE DEF P
  <2>1. \A T \in SUBSET S : T \in P
    BY <1>2, FiniteInduction, Zenon
  <2>2. QED
    BY <2>1
<1>4. QED
  BY <1>1, <1>3

LEMMA SumAdd ==
    ASSUME NEW S, IsFiniteSet(S), NEW x, x \notin S, NEW f, \A y \in S \cup {x} : f[y] \in Int
    PROVE  SumFunctionOnSet(f, S \cup {x}) = f[x] + SumFunctionOnSet(f, S)
<1>1. IsFiniteSet(S \cup {x}) /\ (S \cup {x}) \ {x} = S
  BY FS_AddElement
<1>2. QED
  BY <1>1, SumRemove

\* A sum depends on nothing but the values it adds up.
LEMMA SumSame ==
    ASSUME NEW S, IsFiniteSet(S), NEW f, NEW h, \A x \in S : f[x] \in Int /\ h[x] = f[x]
    PROVE  SumFunctionOnSet(h, S) = SumFunctionOnSet(f, S)
<1> DEFINE P == {T \in SUBSET S : SumFunctionOnSet(h, T) = SumFunctionOnSet(f, T)}
<1>1. ASSUME NEW T \in SUBSET S, \A x \in T : T \ {x} \in P PROVE T \in P
  <2>1. CASE T = {}
    BY <2>1, SumEmpty
  <2>2. CASE T # {}
    <3>1. PICK x \in T : TRUE
      BY <2>2
    <3>2. IsFiniteSet(T) /\ (\A y \in T : f[y] \in Int) /\ (\A y \in T : h[y] \in Int)
      BY FS_Subset
    <3>3. /\ SumFunctionOnSet(h, T) = h[x] + SumFunctionOnSet(h, T \ {x})
          /\ SumFunctionOnSet(f, T) = f[x] + SumFunctionOnSet(f, T \ {x})
      BY <3>2, SumRemove
    <3>4. QED
      BY <1>1, <3>3
  <2>3. QED
    BY <2>1, <2>2
<1>2. S \in P
  <2> HIDE DEF P
  <2>1. \A T \in SUBSET S : T \in P
    BY <1>1, FiniteInduction, Zenon
  <2>2. QED
    BY <2>1
<1>3. QED
  BY <1>2

LEMMA SumPlus ==
    ASSUME NEW S, IsFiniteSet(S), NEW f, NEW h, NEW k,
           \A x \in S : f[x] \in Int /\ h[x] \in Int /\ k[x] = f[x] + h[x]
    PROVE  SumFunctionOnSet(k, S) = SumFunctionOnSet(f, S) + SumFunctionOnSet(h, S)
<1> DEFINE P == {T \in SUBSET S :
        SumFunctionOnSet(k, T) = SumFunctionOnSet(f, T) + SumFunctionOnSet(h, T)}
<1>1. ASSUME NEW T \in SUBSET S, \A x \in T : T \ {x} \in P PROVE T \in P
  <2>1. CASE T = {}
    BY <2>1, SumEmpty
  <2>2. CASE T # {}
    <3>1. PICK x \in T : TRUE
      BY <2>2
    <3>2. /\ IsFiniteSet(T) /\ IsFiniteSet(T \ {x})
          /\ \A y \in T : f[y] \in Int /\ h[y] \in Int /\ k[y] \in Int
      BY FS_Subset
    <3>3. /\ SumFunctionOnSet(f, T) = f[x] + SumFunctionOnSet(f, T \ {x})
          /\ SumFunctionOnSet(h, T) = h[x] + SumFunctionOnSet(h, T \ {x})
          /\ SumFunctionOnSet(k, T) = k[x] + SumFunctionOnSet(k, T \ {x})
      BY <3>2, SumRemove
    <3>4. SumFunctionOnSet(f, T \ {x}) \in Int /\ SumFunctionOnSet(h, T \ {x}) \in Int
      BY <3>2, SumType
    <3>5. QED
      BY <1>1, <3>2, <3>3, <3>4
  <2>3. QED
    BY <2>1, <2>2
<1>2. S \in P
  <2> HIDE DEF P
  <2>1. \A T \in SUBSET S : T \in P
    BY <1>1, FiniteInduction, Zenon
  <2>2. QED
    BY <2>1
<1>3. QED
  BY <1>2

LEMMA SumTimes ==
    ASSUME NEW S, IsFiniteSet(S), NEW c \in Int, NEW f, NEW h,
           \A x \in S : f[x] \in Int /\ h[x] = c * f[x]
    PROVE  SumFunctionOnSet(h, S) = c * SumFunctionOnSet(f, S)
<1> DEFINE P == {T \in SUBSET S : SumFunctionOnSet(h, T) = c * SumFunctionOnSet(f, T)}
<1>1. ASSUME NEW T \in SUBSET S, \A x \in T : T \ {x} \in P PROVE T \in P
  <2>1. CASE T = {}
    BY <2>1, SumEmpty
  <2>2. CASE T # {}
    <3>1. PICK x \in T : TRUE
      BY <2>2
    <3>2. /\ IsFiniteSet(T) /\ IsFiniteSet(T \ {x})
          /\ \A y \in T : f[y] \in Int /\ h[y] \in Int
      BY FS_Subset
    <3>3. /\ SumFunctionOnSet(f, T) = f[x] + SumFunctionOnSet(f, T \ {x})
          /\ SumFunctionOnSet(h, T) = c * f[x] + SumFunctionOnSet(h, T \ {x})
      BY <3>2, SumRemove
    <3>4. PICK a \in Int, b \in Int : a = f[x] /\ b = SumFunctionOnSet(f, T \ {x})
      BY <3>2, SumType
    <3>5. SumFunctionOnSet(h, T \ {x}) = c * b
      BY <1>1, <3>4
    <3>6. c * (a + b) = c * a + c * b
      OBVIOUS
    <3>7. QED
      BY <3>3, <3>4, <3>5, <3>6
  <2>3. QED
    BY <2>1, <2>2
<1>2. S \in P
  <2> HIDE DEF P
  <2>1. \A T \in SUBSET S : T \in P
    BY <1>1, FiniteInduction, Zenon
  <2>2. QED
    BY <2>1
<1>3. QED
  BY <1>2

LEMMA SumUnion ==
    ASSUME NEW S, IsFiniteSet(S), NEW R, IsFiniteSet(R), R \cap S = {},
           NEW f, \A x \in S \cup R : f[x] \in Int
    PROVE  SumFunctionOnSet(f, R \cup S) = SumFunctionOnSet(f, R) + SumFunctionOnSet(f, S)
<1> DEFINE P == {T \in SUBSET S :
        SumFunctionOnSet(f, R \cup T) = SumFunctionOnSet(f, R) + SumFunctionOnSet(f, T)}
<1>1. ASSUME NEW T \in SUBSET S, \A x \in T : T \ {x} \in P PROVE T \in P
  <2>1. IsFiniteSet(T) /\ IsFiniteSet(R \cup T)
    BY FS_Subset, FS_Union
  <2>2. SumFunctionOnSet(f, R) \in Int
    BY SumType
  <2>3. CASE T = {}
    <3>1. R \cup T = R
      BY <2>3
    <3>2. QED
      BY <2>2, <2>3, <3>1, SumEmpty
  <2>4. CASE T # {}
    <3>1. PICK x \in T : TRUE
      BY <2>4
    <3>2. (R \cup T) \ {x} = R \cup (T \ {x})
      BY <3>1
    <3>3. SumFunctionOnSet(f, R \cup T) = f[x] + SumFunctionOnSet(f, R \cup (T \ {x}))
      BY <2>1, <3>2, SumRemove
    <3>4. SumFunctionOnSet(f, T) = f[x] + SumFunctionOnSet(f, T \ {x})
      BY <2>1, SumRemove
    <3>5. SumFunctionOnSet(f, T \ {x}) \in Int
      BY <2>1, FS_RemoveElement, SumType
    <3>6. SumFunctionOnSet(f, R \cup (T \ {x}))
              = SumFunctionOnSet(f, R) + SumFunctionOnSet(f, T \ {x})
      BY <1>1
    <3>7. f[x] \in Int
      OBVIOUS
    <3>8. QED
      BY <2>2, <3>3, <3>4, <3>5, <3>6, <3>7
  <2>5. QED
    BY <2>3, <2>4
<1>2. S \in P
  <2> HIDE DEF P
  <2>1. \A T \in SUBSET S : T \in P
    BY <1>1, FiniteInduction, Zenon
  <2>2. QED
    BY <2>1
<1>3. QED
  BY <1>2

\* A sum may be taken group by group.
LEMMA SumPartition ==
    ASSUME NEW D, IsFiniteSet(D), NEW part, NEW f, NEW total,
           \A d \in D : /\ IsFiniteSet(part[d])
                        /\ \A x \in part[d] : f[x] \in Int
                        /\ total[d] = SumFunctionOnSet(f, part[d])
                        /\ \A e \in D \ {d} : part[d] \cap part[e] = {}
    PROVE  SumFunctionOnSet(total, D) = SumFunctionOnSet(f, UNION {part[d] : d \in D})
<1> DEFINE Parts(E) == UNION {part[d] : d \in E}
           P == {E \in SUBSET D :
                   /\ IsFiniteSet(Parts(E))
                   /\ SumFunctionOnSet(total, E) = SumFunctionOnSet(f, Parts(E))}
<1>1. \A d \in D : total[d] \in Int
  BY SumType
<1>2. ASSUME NEW E \in SUBSET D, \A d \in E : E \ {d} \in P PROVE E \in P
  <2>1. CASE E = {}
    <3>1. Parts(E) = {}
      BY <2>1
    <3>2. QED
      BY <2>1, <3>1, SumEmpty, FS_EmptySet
  <2>2. CASE E # {}
    <3>1. PICK d \in E : TRUE
      BY <2>2
    <3> DEFINE rest == E \ {d}
    <3>2. Parts(E) = part[d] \cup Parts(rest) /\ part[d] \cap Parts(rest) = {}
      BY <3>1
    <3>3. /\ IsFiniteSet(Parts(rest))
          /\ SumFunctionOnSet(total, rest) = SumFunctionOnSet(f, Parts(rest))
      BY <1>2, <3>1
    <3>4. IsFiniteSet(part[d]) /\ total[d] = SumFunctionOnSet(f, part[d])
      OBVIOUS
    <3>5. IsFiniteSet(Parts(E))
      <4> HIDE DEF Parts, rest
      <4>1. IsFiniteSet(part[d] \cup Parts(rest))
        BY <3>3, <3>4, FS_Union
      <4>2. QED
        BY <3>2, <4>1
    <3>6. \A x \in part[d] \cup Parts(rest) : f[x] \in Int
      OBVIOUS
    <3>7. SumFunctionOnSet(total, E) = total[d] + SumFunctionOnSet(total, rest)
      <4>1. IsFiniteSet(E) /\ \A e \in E : total[e] \in Int
        BY <1>1, FS_Subset
      <4>2. QED
        BY <4>1, SumRemove
    <3> HIDE DEF Parts, rest
    <3>8. SumFunctionOnSet(f, part[d] \cup Parts(rest))
              = SumFunctionOnSet(f, part[d]) + SumFunctionOnSet(f, Parts(rest))
      BY <3>2, <3>3, <3>4, <3>6, SumUnion
    <3>9. QED
      BY <3>2, <3>3, <3>4, <3>5, <3>7, <3>8
  <2>3. QED
    BY <2>1, <2>2
<1>3. D \in P
  <2> HIDE DEF P
  <2>1. \A E \in SUBSET D : E \in P
    BY <1>2, FiniteInduction, Zenon
  <2>2. QED
    BY <2>1
<1>4. QED
  BY <1>3

\* What bounds each difference bounds the difference of the sums, as many times as
\* there are terms; strictly on the left where there is a term.
LEMMA SumsDiffer ==
    ASSUME NEW S, IsFiniteSet(S), NEW f, NEW h, NEW c \in Nat,
           \A x \in S : /\ f[x] \in Int /\ h[x] \in Int
                        /\ -c < f[x] - h[x] /\ f[x] - h[x] <= c
    PROVE  /\ S # {} => -(c * Cardinality(S)) < SumFunctionOnSet(f, S) - SumFunctionOnSet(h, S)
           /\ SumFunctionOnSet(f, S) - SumFunctionOnSet(h, S) <= c * Cardinality(S)
<1> DEFINE error(T) == SumFunctionOnSet(f, T) - SumFunctionOnSet(h, T)
           P == {T \in SUBSET S : /\ T # {} => -(c * Cardinality(T)) < error(T)
                                  /\ T = {} => error(T) = 0
                                  /\ error(T) <= c * Cardinality(T)}
<1>1. ASSUME NEW T \in SUBSET S, \A x \in T : T \ {x} \in P PROVE T \in P
  <2>1. CASE T = {}
    <3>1. Cardinality(T) = 0 /\ c * 0 = 0
      BY <2>1, FS_EmptySet
    <3>2. error(T) = 0
      BY <2>1, SumEmpty
    <3>3. QED
      BY <2>1, <3>1, <3>2
  <2>2. CASE T # {}
    <3>1. PICK x \in T : TRUE
      BY <2>2
    <3> DEFINE rest == T \ {x}
    <3>2. IsFiniteSet(T) /\ IsFiniteSet(rest) /\ rest \in SUBSET S
      BY FS_Subset
    <3>3. /\ SumFunctionOnSet(f, T) = f[x] + SumFunctionOnSet(f, rest)
          /\ SumFunctionOnSet(h, T) = h[x] + SumFunctionOnSet(h, rest)
      BY <3>2, SumRemove
    <3>4. SumFunctionOnSet(f, rest) \in Int /\ SumFunctionOnSet(h, rest) \in Int
      BY <3>2, SumType
    <3>5. PICK n \in Nat : n = Cardinality(rest)
      BY <3>2, FS_CardinalityType
    <3>6. Cardinality(T) = n + 1
      BY <3>2, <3>5, FS_RemoveElement, FS_CardinalityType
    <3>7. c * (n + 1) = c * n + c /\ c * n \in Nat
      OBVIOUS
    <3>8. error(T) = (f[x] - h[x]) + error(rest)
      BY <3>3, <3>4
    <3>9. -(c * n) <= error(rest) /\ error(rest) <= c * n
      BY <1>1, <3>4, <3>5, <3>7
    <3>10. error(rest) \in Int
      BY <3>4
    <3> HIDE DEF error, rest
    <3>11. -(c * n + c) < error(T) /\ error(T) <= c * n + c
      BY <3>7, <3>8, <3>9, <3>10
    <3>12. QED
      BY <2>2, <3>6, <3>7, <3>11
  <2>3. QED
    BY <2>1, <2>2
<1>2. S \in P
  <2> HIDE DEF P
  <2>1. \A T \in SUBSET S : T \in P
    BY <1>1, FiniteInduction, Zenon
  <2>2. QED
    BY <2>1
<1>3. QED
  BY <1>2

\* A sum of naturals is natural.
LEMMA SumNatural ==
    ASSUME NEW S, IsFiniteSet(S), NEW f, \A x \in S : f[x] \in Nat
    PROVE  SumFunctionOnSet(f, S) \in Nat
<1> DEFINE P == {T \in SUBSET S : SumFunctionOnSet(f, T) \in Nat}
<1>1. ASSUME NEW T \in SUBSET S, \A x \in T : T \ {x} \in P PROVE T \in P
  <2>1. CASE T = {}
    BY <2>1, SumEmpty
  <2>2. CASE T # {}
    <3>1. PICK x \in T : TRUE
      BY <2>2
    <3>2. IsFiniteSet(T) /\ \A y \in T : f[y] \in Int
      BY FS_Subset
    <3>3. SumFunctionOnSet(f, T) = f[x] + SumFunctionOnSet(f, T \ {x})
      BY <3>1, <3>2, SumRemove
    <3>4. SumFunctionOnSet(f, T \ {x}) \in Nat /\ f[x] \in Nat
      BY <1>1, <3>1
    <3>5. QED
      BY <3>3, <3>4
  <2>3. QED
    BY <2>1, <2>2
<1>2. S \in P
  <2> HIDE DEF P
  <2>1. \A T \in SUBSET S : T \in P
    BY <1>1, FiniteInduction, Zenon
  <2>2. QED
    BY <2>1
<1>3. QED
  BY <1>2

\* What is at least as large at every point, and nowhere negative, has at least as
\* large a sum, over more points too.
LEMMA SumMonotone ==
    ASSUME NEW S, IsFiniteSet(S), NEW T \in SUBSET S, NEW f, NEW h,
           \A x \in S : f[x] \in Nat /\ h[x] \in Nat /\ f[x] <= h[x]
    PROVE  /\ SumFunctionOnSet(f, T) \in Nat
           /\ SumFunctionOnSet(f, T) <= SumFunctionOnSet(h, S)
<1> DEFINE over == [x \in S |-> h[x] - f[x]]
           rest == S \ T
<1>1. IsFiniteSet(T) /\ IsFiniteSet(rest) /\ T \cup rest = S /\ T \cap rest = {}
  BY FS_Subset
<1>2. \A x \in S : over[x] \in Nat /\ h[x] = f[x] + over[x]
  OBVIOUS
<1> HIDE DEF over, rest
<1>3. \A x \in S : f[x] \in Int /\ h[x] \in Int /\ over[x] \in Int /\ h[x] = f[x] + over[x]
  BY <1>2
<1>4. SumFunctionOnSet(h, S) = SumFunctionOnSet(f, S) + SumFunctionOnSet(over, S)
  BY <1>3, SumPlus
<1>5. SumFunctionOnSet(f, S) = SumFunctionOnSet(f, T) + SumFunctionOnSet(f, rest)
  <2>1. rest \cap T = {} /\ \A x \in T \cup rest : f[x] \in Int
    BY <1>1, <1>3
  <2>2. SumFunctionOnSet(f, T \cup rest) = SumFunctionOnSet(f, T) + SumFunctionOnSet(f, rest)
    BY <1>1, <2>1, SumUnion
  <2>3. QED
    BY <1>1, <2>2
<1>6. /\ SumFunctionOnSet(over, S) \in Nat
      /\ SumFunctionOnSet(f, T) \in Nat /\ SumFunctionOnSet(f, rest) \in Nat
  <2>1. \A x \in rest : f[x] \in Nat
    BY <1>1
  <2>2. SumFunctionOnSet(f, rest) \in Nat
    BY <1>1, <2>1, SumNatural
  <2>3. SumFunctionOnSet(over, S) \in Nat
    BY <1>2, SumNatural
  <2>4. SumFunctionOnSet(f, T) \in Nat
    BY <1>1, SumNatural
  <2>5. QED
    BY <2>2, <2>3, <2>4
<1>7. QED
  BY <1>4, <1>5, <1>6

\* A sum is at most the bound of its terms, as many times as there are terms.
LEMMA SumBounded ==
    ASSUME NEW S, IsFiniteSet(S), NEW f, NEW c \in Nat,
           \A x \in S : f[x] \in Nat /\ f[x] <= c
    PROVE  SumFunctionOnSet(f, S) <= c * Cardinality(S)
<1> DEFINE P == {T \in SUBSET S : SumFunctionOnSet(f, T) <= c * Cardinality(T)}
<1>1. ASSUME NEW T \in SUBSET S, \A x \in T : T \ {x} \in P PROVE T \in P
  <2>1. CASE T = {}
    <3>1. Cardinality(T) = 0 /\ c * 0 = 0 /\ SumFunctionOnSet(f, T) = 0
      BY <2>1, FS_EmptySet, SumEmpty
    <3>2. QED
      BY <3>1
  <2>2. CASE T # {}
    <3>1. PICK x \in T : TRUE
      BY <2>2
    <3> DEFINE rest == T \ {x}
    <3>2. /\ IsFiniteSet(T) /\ IsFiniteSet(rest)
          /\ \A y \in T : f[y] \in Int
          /\ \A y \in rest : f[y] \in Nat
      BY FS_Subset
    <3>3. SumFunctionOnSet(f, T) = f[x] + SumFunctionOnSet(f, rest)
      BY <3>1, <3>2, SumRemove
    <3>4. SumFunctionOnSet(f, rest) \in Nat
      BY <3>2, SumNatural
    <3>5. PICK n \in Nat : n = Cardinality(rest)
      BY <3>2, FS_CardinalityType
    <3>6. Cardinality(T) = n + 1
      BY <3>2, <3>5, FS_RemoveElement, FS_CardinalityType
    <3>7. c * (n + 1) = c * n + c /\ c * n \in Nat
      OBVIOUS
    <3>8. SumFunctionOnSet(f, rest) <= c * n /\ f[x] \in Nat /\ f[x] <= c
      BY <1>1, <3>1, <3>5
    <3> HIDE DEF rest
    <3>9. SumFunctionOnSet(f, T) <= c * n + c
      BY <3>3, <3>4, <3>7, <3>8
    <3>10. QED
      BY <3>6, <3>7, <3>9
  <2>3. QED
    BY <2>1, <2>2
<1>2. S \in P
  <2> HIDE DEF P
  <2>1. \A T \in SUBSET S : T \in P
    BY <1>1, FiniteInduction, Zenon
  <2>2. QED
    BY <2>1
<1>3. QED
  BY <1>2
=============================================================================
