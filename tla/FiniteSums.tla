----------------------------- MODULE FiniteSums -----------------------------
(***************************************************************************)
(* Facts about SumFunction, with which the delivery queue charges the      *)
(* bytes of its events and the SDK its capture budgets. The sum is defined *)
(* by taking the elements of a set one after the other in an order nobody  *)
(* knows; the lemmas show that the order does not matter.                  *)
(*                                                                         *)
(* Induction is over the subsets of a finite set, with the subsets that    *)
(* have the property given as a set.                                       *)
(***************************************************************************)
EXTENDS Integers, Functions, FiniteSetTheorems, WellFoundedInduction, TLAPS

(* A non-empty set of naturals has a least element. *)
LEMMA LeastNatural ==
    ASSUME NEW N \in SUBSET Nat, N # {}
    PROVE  \E n \in N : \A m \in N : n <= m
<1>1. \A m, n \in Nat : m < n => <<m, n>> \in OpToRel(<, Nat)
    BY Zenon DEF OpToRel
<1>2. PICK R : IsWellFoundedOn(R, Nat) /\ \A m, n \in Nat : m < n => <<m, n>> \in R
    BY <1>1, NatLessThanWellFounded, Zenon
<1>3. \E n \in N : \A m \in N : ~(<<m, n>> \in R)
    <2>1. IsWellFoundedOn(R, Nat) /\ N \subseteq Nat /\ N # {}
        BY <1>2
    <2>. HIDE <1>2
    <2>. QED BY <2>1, WFMin, Zenon
<1>4. PICK n \in N : \A m \in N : ~(<<m, n>> \in R)
    BY <1>3
<1>5. ASSUME NEW m \in N PROVE n <= m
    <2>1. ~(m < n)
        BY <1>2, <1>4
    <2>. QED BY <2>1
<1>. QED BY <1>5

(* A set of subsets that contains the empty set, and every subset all of   *)
(* whose one-element-smaller subsets it contains, contains all of them.    *)
LEMMA SubsetInduction ==
    ASSUME NEW U, IsFiniteSet(U), NEW Q, {} \in Q,
           \A S \in SUBSET U : S # {} /\ (\A x \in S : S \ {x} \in Q) => S \in Q
    PROVE  \A S \in SUBSET U : S \in Q
<1>. SUFFICES ASSUME \E S \in SUBSET U : S \notin Q PROVE FALSE
    OBVIOUS
<1>. DEFINE N == {Cardinality(S) : S \in {T \in SUBSET U : T \notin Q}}
<1>1. \A S \in SUBSET U : IsFiniteSet(S) /\ Cardinality(S) \in Nat
    BY FS_Subset, FS_CardinalityType
<1>2. N \in SUBSET Nat /\ N # {}
    BY <1>1
<1>3. PICK n \in N : \A m \in N : n <= m
    <2>. HIDE DEF N
    <2>. QED BY <1>2, LeastNatural
<1>4. PICK S \in SUBSET U : S \notin Q /\ Cardinality(S) = n
    OBVIOUS
<1>5. PICK x \in S : S \ {x} \notin Q
    BY <1>4
<1>6. S \ {x} \in SUBSET U /\ Cardinality(S \ {x}) = Cardinality(S) - 1
    BY <1>1, <1>4, FS_RemoveElement
<1>7. Cardinality(S \ {x}) \in N
    BY <1>5, <1>6
<1>8. n \in Nat /\ n <= Cardinality(S \ {x})
    BY <1>1, <1>3, <1>4, <1>7
<1>. QED BY <1>4, <1>6, <1>8

-----------------------------------------------------------------------------
(* The sum, element by element.                                            *)

Pick(s) == CHOOSE x \in s : TRUE

Sums(f, S, h) == h = [s \in SUBSET S |-> IF s = {} THEN 0 ELSE f[Pick(s)] + h[s \ {Pick(s)}]]

(* SumFunctionOnSet takes the elements in the order of CHOOSE. *)
LEMMA SumIsRecursive ==
    ASSUME NEW f, NEW S
    PROVE  SumFunctionOnSet(f, S) = (CHOOSE h : Sums(f, S, h))[S]
BY DEF SumFunctionOnSet, FoldFunctionOnSet, MapThenFoldSet, Sums, Pick

(* The function that computes the sums of all subsets exists. *)
LEMMA SumsExist ==
    ASSUME NEW S, IsFiniteSet(S), NEW f, \A x \in S : f[x] \in Int
    PROVE  \E h \in [SUBSET S -> Int] : Sums(f, S, h)
<1>. DEFINE Good(h, n) == \A s \in SUBSET S : Cardinality(s) <= n =>
                              h[s] = IF s = {} THEN 0 ELSE f[Pick(s)] + h[s \ {Pick(s)}]
            N == {n \in Nat : \A h \in [SUBSET S -> Int] : ~Good(h, n)}
<1>1. \A s \in SUBSET S : IsFiniteSet(s) /\ Cardinality(s) \in Nat /\ (Cardinality(s) = 0 <=> s = {})
    BY FS_Subset, FS_CardinalityType, FS_EmptySet
<1>2. \A s \in SUBSET S : s # {} =>
         /\ Pick(s) \in s /\ f[Pick(s)] \in Int /\ s \ {Pick(s)} \in SUBSET S
         /\ Cardinality(s \ {Pick(s)}) = Cardinality(s) - 1
    BY <1>1, FS_RemoveElement DEF Pick
<1>3. \A n \in Nat : n \notin N
    <2>. SUFFICES ASSUME N # {} PROVE FALSE
        OBVIOUS
    <2>1. PICK n \in N : \A m \in N : n <= m
        <3>1. N \in SUBSET Nat
            OBVIOUS
        <3>. HIDE DEF N
        <3>. QED BY <3>1, LeastNatural
    <2>2. n # 0
        <3>1. [s \in SUBSET S |-> 0] \in [SUBSET S -> Int]
            OBVIOUS
        <3>2. ASSUME NEW s \in SUBSET S, Cardinality(s) <= 0 PROVE s = {}
            BY <1>1, <3>2
        <3>3. Good([s \in SUBSET S |-> 0], 0)
            BY <3>2
        <3>. HIDE DEF Good
        <3>. QED BY <3>1, <3>3
    <2>3. n - 1 \in Nat /\ n - 1 \notin N
        <3>1. n \in Nat
            BY <2>1
        <3>. HIDE DEF N
        <3>2. n - 1 \in Nat /\ ~(n <= n - 1)
            BY <2>2, <3>1
        <3>. QED BY <2>1, <3>2
    <2>4. PICK h \in [SUBSET S -> Int] : Good(h, n - 1)
        BY <2>3
    <2>. DEFINE g == [s \in SUBSET S |-> IF s = {} THEN 0 ELSE f[Pick(s)] + h[s \ {Pick(s)}]]
    <2>5. g \in [SUBSET S -> Int]
        <3>1. ASSUME NEW s \in SUBSET S
              PROVE  (IF s = {} THEN 0 ELSE f[Pick(s)] + h[s \ {Pick(s)}]) \in Int
            <4>1. CASE s = {}
                BY <4>1
            <4>2. CASE s # {}
                <5>1. f[Pick(s)] \in Int /\ h[s \ {Pick(s)}] \in Int
                    BY <1>2, <4>2
                <5>. QED BY <4>2, <5>1
            <4>. QED BY <4>1, <4>2
        <3>. QED BY <3>1
    <2>6. \A s \in SUBSET S : Cardinality(s) <= n - 1 => g[s] = h[s]
        BY <2>4
    <2>7. Good(g, n)
        <3>. SUFFICES ASSUME NEW s \in SUBSET S, Cardinality(s) <= n, s # {}
                      PROVE  g[s] = f[Pick(s)] + g[s \ {Pick(s)}]
            OBVIOUS
        <3>1. s \ {Pick(s)} \in SUBSET S /\ Cardinality(s \ {Pick(s)}) <= n - 1
            BY <1>1, <1>2, <2>1
        <3>2. g[s \ {Pick(s)}] = h[s \ {Pick(s)}]
            BY <2>6, <3>1
        <3>. QED BY <3>2
    <2>. HIDE DEF Good, g
    <2>. QED BY <2>1, <2>5, <2>7
<1>4. PICK h \in [SUBSET S -> Int] : Good(h, Cardinality(S))
    BY <1>1, <1>3
<1>5. \A s \in SUBSET S : h[s] = IF s = {} THEN 0 ELSE f[Pick(s)] + h[s \ {Pick(s)}]
    BY <1>4, FS_Subset
<1>. QED BY <1>5 DEF Sums

(* The sums of the subsets do not depend on the set they are computed for. *)
LEMMA SumsAgree ==
    ASSUME NEW S, IsFiniteSet(S), NEW T \in SUBSET S, NEW f, NEW h, NEW g,
           Sums(f, S, h), Sums(f, T, g)
    PROVE  g[T] = h[T]
<1>. DEFINE Q == {s \in SUBSET T : g[s] = h[s]}
<1>1. /\ \A s \in SUBSET T : g[s] = IF s = {} THEN 0 ELSE f[Pick(s)] + g[s \ {Pick(s)}]
      /\ \A s \in SUBSET T : h[s] = IF s = {} THEN 0 ELSE f[Pick(s)] + h[s \ {Pick(s)}]
    BY DEF Sums
<1>2. {} \in Q
    BY <1>1
<1>3. ASSUME NEW s \in SUBSET T, s # {}, \A x \in s : s \ {x} \in Q PROVE s \in Q
    <2>1. Pick(s) \in s
        BY <1>3 DEF Pick
    <2>2. g[s \ {Pick(s)}] = h[s \ {Pick(s)}]
        BY <1>3, <2>1
    <2>. QED BY <1>1, <1>3, <2>2
<1>4. IsFiniteSet(T)
    BY FS_Subset
<1>5. T \in Q
    <2>. HIDE DEF Q
    <2>. QED BY <1>2, <1>3, <1>4, SubsetInduction
<1>. QED BY <1>5

(* The sum over a set, in the order of CHOOSE. *)
LEMMA SumStep ==
    ASSUME NEW S, IsFiniteSet(S), NEW f, \A x \in S : f[x] \in Int
    PROVE  /\ SumFunctionOnSet(f, S) \in Int
           /\ S = {} => SumFunctionOnSet(f, S) = 0
           /\ S # {} => SumFunctionOnSet(f, S) = f[Pick(S)] + SumFunctionOnSet(f, S \ {Pick(S)})
<1>1. PICK h \in [SUBSET S -> Int] : Sums(f, S, h)
    BY SumsExist
<1>2. ASSUME NEW T \in SUBSET S PROVE SumFunctionOnSet(f, T) = h[T]
    <2>1. IsFiniteSet(T) /\ \A x \in T : f[x] \in Int
        BY FS_Subset
    <2>2. \E g : Sums(f, T, g)
        BY <2>1, SumsExist
    <2>3. Sums(f, T, CHOOSE g : Sums(f, T, g))
        BY <2>2
    <2>. DEFINE c == CHOOSE g : Sums(f, T, g)
    <2>4. Sums(f, T, c)
        BY <2>3
    <2>5. SumFunctionOnSet(f, T) = c[T]
        BY SumIsRecursive
    <2>. HIDE DEF c
    <2>6. c[T] = h[T]
        BY <1>1, <2>4, SumsAgree
    <2>. QED BY <2>5, <2>6
<1>3. S \in SUBSET S /\ h[S] = IF S = {} THEN 0 ELSE f[Pick(S)] + h[S \ {Pick(S)}]
    BY <1>1 DEF Sums
<1>4. S \ {Pick(S)} \in SUBSET S
    OBVIOUS
<1>. QED BY <1>1, <1>2, <1>3, <1>4

(* The sum, with any element taken out first. *)
LEMMA SumTake ==
    ASSUME NEW S, IsFiniteSet(S), NEW f, \A x \in S : f[x] \in Int, NEW x \in S
    PROVE  SumFunctionOnSet(f, S) = f[x] + SumFunctionOnSet(f, S \ {x})
<1>. DEFINE Q == {T \in SUBSET S : \A y \in T :
                     SumFunctionOnSet(f, T) = f[y] + SumFunctionOnSet(f, T \ {y})}
<1>1. {} \in Q
    OBVIOUS
<1>2. ASSUME NEW T \in SUBSET S, T # {}, \A y \in T : T \ {y} \in Q PROVE T \in Q
    <2>. SUFFICES ASSUME NEW y \in T
                  PROVE  SumFunctionOnSet(f, T) = f[y] + SumFunctionOnSet(f, T \ {y})
        OBVIOUS
    <2>. DEFINE p == Pick(T)
    <2>1. p \in T
        BY <1>2 DEF Pick
    <2>2. \A R \in SUBSET T : IsFiniteSet(R) /\ \A z \in R : f[z] \in Int
        BY FS_Subset
    <2>3. \A R \in SUBSET T : SumFunctionOnSet(f, R) \in Int
        BY <2>2, SumStep
    <2>4. SumFunctionOnSet(f, T) = f[p] + SumFunctionOnSet(f, T \ {p})
        BY <1>2, <2>2, SumStep
    <2>. HIDE DEF p
    <2>5. CASE y = p
        BY <2>4, <2>5
    <2>6. CASE y # p
        <3>1. SumFunctionOnSet(f, T \ {p}) = f[y] + SumFunctionOnSet(f, (T \ {p}) \ {y})
            BY <1>2, <2>1, <2>6
        <3>2. SumFunctionOnSet(f, T \ {y}) = f[p] + SumFunctionOnSet(f, (T \ {y}) \ {p})
            BY <1>2, <2>1, <2>6
        <3>3. SumFunctionOnSet(f, (T \ {p}) \ {y}) = SumFunctionOnSet(f, (T \ {y}) \ {p})
            <4>1. (T \ {p}) \ {y} = (T \ {y}) \ {p}
                OBVIOUS
            <4>. QED BY <4>1
        <3>4. /\ SumFunctionOnSet(f, (T \ {y}) \ {p}) \in Int
              /\ f[y] \in Int /\ f[p] \in Int
            BY <2>1, <2>2, <2>3
        <3>. QED BY <2>4, <3>1, <3>2, <3>3, <3>4
    <2>. QED BY <2>5, <2>6
<1>3. S \in Q
    <2>. HIDE DEF Q
    <2>1. \A T \in SUBSET S : T # {} /\ (\A y \in T : T \ {y} \in Q) => T \in Q
        BY <1>2
    <2>2. \A T \in SUBSET S : T \in Q
        BY <1>1, <2>1, SubsetInduction
    <2>. QED BY <2>2
<1>. QED BY <1>3

(* Only the values on the set matter. *)
LEMMA SumCongruent ==
    ASSUME NEW S, IsFiniteSet(S), NEW f, NEW g, \A x \in S : f[x] \in Int /\ f[x] = g[x]
    PROVE  SumFunctionOnSet(f, S) = SumFunctionOnSet(g, S)
<1>. DEFINE Q == {T \in SUBSET S : SumFunctionOnSet(f, T) = SumFunctionOnSet(g, T)}
<1>1. {} \in Q
    BY SumStep, FS_EmptySet
<1>2. ASSUME NEW T \in SUBSET S, T # {}, \A x \in T : T \ {x} \in Q PROVE T \in Q
    <2>1. PICK x \in T : TRUE
        BY <1>2
    <2>2. IsFiniteSet(T) /\ (\A y \in T : f[y] \in Int) /\ (\A y \in T : g[y] \in Int)
        BY FS_Subset
    <2>3. /\ SumFunctionOnSet(f, T) = f[x] + SumFunctionOnSet(f, T \ {x})
          /\ SumFunctionOnSet(g, T) = g[x] + SumFunctionOnSet(g, T \ {x})
        BY <2>2, SumTake
    <2>4. SumFunctionOnSet(f, T \ {x}) = SumFunctionOnSet(g, T \ {x}) /\ f[x] = g[x]
        BY <1>2
    <2>. QED BY <2>3, <2>4
<1>3. S \in Q
    <2>. HIDE DEF Q
    <2>1. \A T \in SUBSET S : T # {} /\ (\A y \in T : T \ {y} \in Q) => T \in Q
        BY <1>2
    <2>2. \A T \in SUBSET S : T \in Q
        BY <1>1, <2>1, SubsetInduction
    <2>. QED BY <2>2
<1>. QED BY <1>3

(* When every element of T stands for an element of its own of S that is   *)
(* worth as much or more, the sum over T is at most that over S.           *)
LEMMA SumBounded ==
    ASSUME NEW S, IsFiniteSet(S), NEW T, IsFiniteSet(T), NEW f, NEW g,
           \A x \in S : f[x] \in Nat, NEW m \in [T -> S],
           \A x, y \in T : m[x] = m[y] => x = y,
           \A x \in T : g[x] \in Nat /\ g[x] <= f[m[x]]
    PROVE  /\ SumFunctionOnSet(f, S) \in Nat
           /\ SumFunctionOnSet(g, T) <= SumFunctionOnSet(f, S)
<1>0. ASSUME NEW R \in SUBSET S
      PROVE  SumFunctionOnSet(f, R) \in Nat
    <2>. DEFINE Q == {r \in SUBSET S : SumFunctionOnSet(f, r) \in Nat}
    <2>1. {} \in Q
        <3>1. SumFunctionOnSet(f, {}) = 0
            BY SumStep, FS_EmptySet
        <3>. QED BY <3>1
    <2>2. ASSUME NEW r \in SUBSET S, r # {}, \A x \in r : r \ {x} \in Q PROVE r \in Q
        <3>1. PICK x \in r : TRUE
            BY <2>2
        <3>2. IsFiniteSet(r) /\ \A y \in r : f[y] \in Int
            BY FS_Subset
        <3>3. SumFunctionOnSet(f, r) = f[x] + SumFunctionOnSet(f, r \ {x})
            BY <3>2, SumTake
        <3>4. f[x] \in Nat /\ SumFunctionOnSet(f, r \ {x}) \in Nat
            BY <2>2
        <3>. QED BY <3>3, <3>4
    <2>3. R \in Q
        <3>. HIDE DEF Q
        <3>. QED BY <2>1, <2>2, SubsetInduction
    <2>. QED BY <2>3
<1>. DEFINE Q == {t \in SUBSET T : \A s \in SUBSET S : (\A x \in t : m[x] \in s) =>
                                      SumFunctionOnSet(g, t) <= SumFunctionOnSet(f, s)}
<1>1. {} \in Q
    <2>1. SumFunctionOnSet(g, {}) = 0
        BY SumStep, FS_EmptySet
    <2>. QED BY <1>0, <2>1
<1>2. ASSUME NEW t \in SUBSET T, t # {}, \A x \in t : t \ {x} \in Q PROVE t \in Q
    <2>. SUFFICES ASSUME NEW s \in SUBSET S, \A x \in t : m[x] \in s
                  PROVE  SumFunctionOnSet(g, t) <= SumFunctionOnSet(f, s)
        OBVIOUS
    <2>1. PICK x \in t : TRUE
        BY <1>2
    <2>2. /\ IsFiniteSet(t) /\ IsFiniteSet(s) /\ IsFiniteSet(t \ {x})
          /\ (\A y \in t : g[y] \in Int) /\ (\A y \in s : f[y] \in Int)
        <3>1. t \ {x} \in SUBSET T
            OBVIOUS
        <3>. QED BY <3>1, FS_Subset
    <2>3. SumFunctionOnSet(g, t) = g[x] + SumFunctionOnSet(g, t \ {x})
        BY <2>2, SumTake
    <2>4. m[x] \in s
        OBVIOUS
    <2>5. SumFunctionOnSet(f, s) = f[m[x]] + SumFunctionOnSet(f, s \ {m[x]})
        BY <2>2, <2>4, SumTake
    <2>6. s \ {m[x]} \in SUBSET S /\ \A y \in t \ {x} : m[y] \in s \ {m[x]}
        OBVIOUS
    <2>7. SumFunctionOnSet(g, t \ {x}) <= SumFunctionOnSet(f, s \ {m[x]})
        BY <1>2, <2>6
    <2>8. SumFunctionOnSet(g, t \ {x}) \in Int
        BY <2>2, SumStep
    <2>9. SumFunctionOnSet(f, s \ {m[x]}) \in Nat /\ g[x] \in Nat /\ f[m[x]] \in Nat /\ g[x] <= f[m[x]]
        BY <1>0, <2>4, <2>6
    <2>. QED BY <2>3, <2>5, <2>7, <2>8, <2>9
<1>3. T \in Q
    <2>. HIDE DEF Q
    <2>. QED BY <1>1, <1>2, SubsetInduction
<1>. QED BY <1>0, <1>3

-----------------------------------------------------------------------------
(* What the components use: sums of whole functions.                       *)

(* The sum of a function with no values is zero. *)
LEMMA SumEmpty ==
    ASSUME NEW f, DOMAIN f = {}
    PROVE  SumFunction(f) = 0
BY SumStep, FS_EmptySet DEF SumFunction

(* A sum of naturals is one. *)
LEMMA SumType ==
    ASSUME NEW S, IsFiniteSet(S), NEW f \in [S -> Nat]
    PROVE  SumFunction(f) \in Nat
<1>. DEFINE m == [x \in S |-> x]
<1>1. m \in [S -> S] /\ (\A x, y \in S : m[x] = m[y] => x = y) /\ \A x \in S : m[x] = x
    OBVIOUS
<1>. HIDE DEF m
<1>2. \A x \in S : f[x] \in Nat /\ f[x] <= f[m[x]]
    BY <1>1
<1>3. DOMAIN f = S
    OBVIOUS
<1>4. SumFunctionOnSet(f, S) \in Nat
    BY <1>1, <1>2, SumBounded
<1>. QED BY <1>3, <1>4 DEF SumFunction

(* g is f with a value at x more.                                          *)
OneMore(S, x, f, g) ==
    /\ IsFiniteSet(S) /\ x \notin S
    /\ f \in [S -> Nat] /\ g \in [S \cup {x} -> Nat]
    /\ \A y \in S : g[y] = f[y]

(* One more value adds itself; read from right to left, one value less. *)
LEMMA SumOneMore ==
    ASSUME NEW S, NEW x, NEW f, NEW g, OneMore(S, x, f, g)
    PROVE  SumFunction(g) = SumFunction(f) + g[x]
<1>. USE DEF OneMore
<1>1. IsFiniteSet(S \cup {x}) /\ (S \cup {x}) \ {x} = S
    BY FS_AddElement
<1>2. \A y \in S \cup {x} : g[y] \in Int
    OBVIOUS
<1>3. SumFunctionOnSet(g, S \cup {x}) = g[x] + SumFunctionOnSet(g, S)
    <2>1. x \in S \cup {x}
        OBVIOUS
    <2>2. SumFunctionOnSet(g, S \cup {x}) = g[x] + SumFunctionOnSet(g, (S \cup {x}) \ {x})
        BY <1>1, <1>2, <2>1, SumTake
    <2>. QED BY <1>1, <2>2
<1>4. SumFunctionOnSet(f, S) = SumFunctionOnSet(g, S)
    <2>1. \A y \in S : f[y] \in Int /\ f[y] = g[y]
        OBVIOUS
    <2>. QED BY <2>1, SumCongruent
<1>5. SumFunctionOnSet(f, S) \in Int /\ g[x] \in Int
    <2>1. (\A y \in S : f[y] \in Int) /\ g[x] \in Nat
        OBVIOUS
    <2>2. SumFunctionOnSet(f, S) \in Int
        BY <2>1, SumStep
    <2>. QED BY <2>1, <2>2
<1>6. SumFunction(g) = SumFunctionOnSet(g, S \cup {x}) /\ SumFunction(f) = SumFunctionOnSet(f, S)
    <2>1. DOMAIN g = S \cup {x} /\ DOMAIN f = S
        OBVIOUS
    <2>. QED BY <2>1 DEF SumFunction
<1>. QED BY <1>3, <1>4, <1>5, <1>6

(* Every value of g stands for a value of f of its own that is as large.   *)
Covered(T, g, S, f, m) ==
    /\ IsFiniteSet(S) /\ IsFiniteSet(T)
    /\ f \in [S -> Nat] /\ g \in [T -> Nat] /\ m \in [T -> S]
    /\ \A x, y \in T : m[x] = m[y] => x = y
    /\ \A x \in T : g[x] <= f[m[x]]

(* The sum of such a g is at most that of f. *)
LEMMA SumAtMost ==
    ASSUME NEW T, NEW g, NEW S, NEW f, NEW m, Covered(T, g, S, f, m)
    PROVE  SumFunction(g) <= SumFunction(f)
<1>. USE DEF Covered
<1>1. (\A x \in S : f[x] \in Nat) /\ \A x \in T : g[x] \in Nat /\ g[x] <= f[m[x]]
    OBVIOUS
<1>2. SumFunctionOnSet(g, T) <= SumFunctionOnSet(f, S)
    BY <1>1, SumBounded
<1>3. DOMAIN g = T /\ DOMAIN f = S
    OBVIOUS
<1>. QED BY <1>2, <1>3 DEF SumFunction

(* A sum splits into the sum of a part and that of the rest. *)
LEMMA SumSplit ==
    ASSUME NEW S, IsFiniteSet(S), NEW f \in [S -> Nat], NEW T \in SUBSET S
    PROVE  /\ SumFunctionOnSet(f, T) \in Nat /\ SumFunctionOnSet(f, S \ T) \in Nat
           /\ SumFunction(f) = SumFunctionOnSet(f, T) + SumFunctionOnSet(f, S \ T)
<1>0. ASSUME NEW R \in SUBSET S
      PROVE  IsFiniteSet(R) /\ (\A x \in R : f[x] \in Int) /\ SumFunctionOnSet(f, R) \in Nat
    <2>1. IsFiniteSet(R) /\ \A x \in R : f[x] \in Nat
        BY FS_Subset
    <2>. DEFINE m == [x \in R |-> x]
    <2>2. m \in [R -> R] /\ (\A x, y \in R : m[x] = m[y] => x = y) /\ \A x \in R : m[x] = x
        OBVIOUS
    <2>. HIDE DEF m
    <2>3. \A x \in R : f[x] \in Nat /\ f[x] <= f[m[x]]
        BY <2>1, <2>2
    <2>4. SumFunctionOnSet(f, R) \in Nat
        BY <2>1, <2>2, <2>3, SumBounded
    <2>. QED BY <2>1, <2>4
<1>. DEFINE Q == {R \in SUBSET S : SumFunctionOnSet(f, S) =
                                     SumFunctionOnSet(f, R) + SumFunctionOnSet(f, S \ R)}
<1>1. {} \in Q
    <2>1. S \ {} = S /\ {} \in SUBSET S
        OBVIOUS
    <2>2. SumFunctionOnSet(f, {}) = 0 /\ SumFunctionOnSet(f, S) \in Nat
        BY <1>0, SumStep, FS_EmptySet
    <2>. QED BY <2>1, <2>2
<1>2. ASSUME NEW R \in SUBSET S, R # {}, \A x \in R : R \ {x} \in Q PROVE R \in Q
    <2>1. PICK x \in R : TRUE
        BY <1>2
    <2>. DEFINE P == R \ {x}
                C == S \ P
    <2>2. /\ P \in SUBSET S /\ C \in SUBSET S /\ x \in C /\ C \ {x} = S \ R /\ S \ R \in SUBSET S
        BY <2>1
    <2>3. SumFunctionOnSet(f, S) = SumFunctionOnSet(f, P) + SumFunctionOnSet(f, S \ P)
        BY <2>1, <1>2
    <2>4. SumFunctionOnSet(f, R) = f[x] + SumFunctionOnSet(f, P)
        BY <2>1, <1>0, SumTake
    <2>5. SumFunctionOnSet(f, C) = f[x] + SumFunctionOnSet(f, S \ R)
        <3>1. IsFiniteSet(C) /\ \A y \in C : f[y] \in Int
            BY <1>0, <2>2
        <3>2. SumFunctionOnSet(f, C) = f[x] + SumFunctionOnSet(f, C \ {x})
            <4>. HIDE DEF C
            <4>. QED BY <3>1, <2>2, SumTake
        <3>. QED BY <3>2, <2>2
    <2>6. /\ SumFunctionOnSet(f, P) \in Nat /\ SumFunctionOnSet(f, S \ R) \in Nat /\ f[x] \in Nat
          /\ SumFunctionOnSet(f, R) \in Nat /\ SumFunctionOnSet(f, S) \in Nat
        BY <1>0, <2>1, <2>2
    <2>7. SumFunctionOnSet(f, S) = SumFunctionOnSet(f, R) + SumFunctionOnSet(f, S \ R)
        <3>. HIDE DEF P
        <3>. QED BY <2>3, <2>4, <2>5, <2>6
    <2>. QED BY <2>7
<1>3. \A R \in SUBSET S : R \in Q
    <2>. HIDE DEF Q
    <2>. QED BY <1>1, <1>2, SubsetInduction
<1>4. T \in Q /\ DOMAIN f = S /\ S \ T \in SUBSET S
    BY <1>3
<1>5. SumFunction(f) = SumFunctionOnSet(f, S)
    BY <1>4 DEF SumFunction
<1>. QED BY <1>0, <1>4, <1>5
=============================================================================
