--------------------------- MODULE OrderAmountsProofs ---------------------------
(***************************************************************************)
(* The amounts of an operation and of its orders add up, for any           *)
(* catalogue, forms, coupons and orders of the stores.  First what a sum   *)
(* over a finite set is (SumFunction is defined by recursion over sets, so *)
(* that every fact about it goes by induction over them), then the parts   *)
(* into which the code divides an amount, then the actions.                *)
(***************************************************************************)
EXTENDS OrderAmounts, FiniteSetTheorems, WellFoundedInduction, TLAPS

-----------------------------------------------------------------------------
(* Induction, with a set in the place of the statement.                    *)

LEMMA SetInduction ==
    ASSUME NEW S, 0 \in S, \A n \in Nat : n \in S => n + 1 \in S
    PROVE  Nat \subseteq S
<1> SUFFICES ASSUME Nat \ S # {} PROVE FALSE
    OBVIOUS
<1> DEFINE R == OpToRel(<, Nat)
<1>1. IsWellFoundedOn(R, Nat)
    BY NatLessThanWellFounded
<1>2. PICK x \in Nat \ S : \A y \in Nat \ S : ~(<<y, x>> \in R)
    <2> HIDE DEF R
    <2> QED BY <1>1, WFMin
<1>3. x # 0 /\ x - 1 \in Nat
    OBVIOUS
<1>4. <<x - 1, x>> \in R
    BY <1>3 DEF OpToRel
<1>5. x - 1 \in S
    BY <1>2, <1>3, <1>4
<1>6. (x - 1) + 1 = x
    BY <1>3
<1> QED BY <1>3, <1>5, <1>6

(* A finite set is reached from the empty one, element by element.         *)
LEMMA SmallerSet ==
    ASSUME NEW n \in Nat, NEW T, IsFiniteSet(T), Cardinality(T) = n + 1
    PROVE  T # {} /\ \A x \in T : Cardinality(T \ {x}) = n
<1>1. T # {}
    BY FS_EmptySet
<1>2. \A x \in T : Cardinality(T \ {x}) = n
    BY FS_RemoveElement
<1> QED BY <1>1, <1>2

LEMMA SubsetIsFinite ==
    ASSUME NEW S, IsFiniteSet(S)
    PROVE  \A T \in SUBSET S :
                IsFiniteSet(T) /\ Cardinality(T) \in Nat /\ Cardinality(T) <= Cardinality(S)
BY FS_Subset, FS_CardinalityType

LEMMA NoElements ==
    ASSUME NEW S, IsFiniteSet(S)
    PROVE  \A T \in SUBSET S : Cardinality(T) = 0 => T = {}
<1> SUFFICES ASSUME NEW T \in SUBSET S PROVE Cardinality(T) = 0 => T = {}
    OBVIOUS
<1>1. IsFiniteSet(T)
    BY FS_Subset
<1> QED BY <1>1, FS_EmptySet

LEMMA FiniteInduction ==
    ASSUME NEW S, IsFiniteSet(S), NEW Good, {} \in Good,
           \A T \in SUBSET S : \A x \in S \ T : T \in Good => T \cup {x} \in Good
    PROVE  S \in Good
<1> DEFINE N == {n \in Nat : \A T \in SUBSET S : Cardinality(T) = n => T \in Good}
<1>1. \A T \in SUBSET S : IsFiniteSet(T) /\ Cardinality(T) \in Nat
    BY SubsetIsFinite
<1>2. 0 \in N
    BY NoElements
<1>3. ASSUME NEW n \in Nat, n \in N PROVE n + 1 \in N
    <2> SUFFICES ASSUME NEW T \in SUBSET S, Cardinality(T) = n + 1 PROVE T \in Good
        OBVIOUS
    <2>1. T # {} /\ \A x \in T : Cardinality(T \ {x}) = n
        BY <1>1, SmallerSet
    <2>2. PICK x : x \in T
        BY <2>1
    <2>3. Cardinality(T \ {x}) = n
        BY <2>1, <2>2
    <2>4. T \ {x} \in Good
        BY <1>3, <2>3
    <2>5. (T \ {x}) \cup {x} = T
        BY <2>2
    <2> QED BY <2>2, <2>4, <2>5
<1>4. Nat \subseteq N
    <2> HIDE DEF N
    <2> QED BY <1>2, <1>3, SetInduction
<1> QED BY <1>1, <1>4

-----------------------------------------------------------------------------
(* SumFunctionOnSet: the recursive function of its definition exists.      *)

Pick(S) == CHOOSE x \in S : TRUE
Adds(f, S, sum) == sum = [T \in SUBSET S |->
    IF T = {} THEN 0 ELSE f[Pick(T)] + sum[T \ {Pick(T)}]]

LEMMA SumIsChosen ==
    ASSUME NEW f, NEW S
    PROVE  SumFunctionOnSet(f, S) = (CHOOSE sum : Adds(f, S, sum))[S]
BY DEF SumFunctionOnSet, FoldFunctionOnSet, MapThenFoldSet, Adds, Pick

LEMMA PickIsIn == ASSUME NEW S, S # {} PROVE Pick(S) \in S
BY DEF Pick

LEMMA SumExists ==
    ASSUME NEW f, NEW S, IsFiniteSet(S), \A x \in S : f[x] \in Int
    PROVE  \E sum \in [SUBSET S -> Int] : Adds(f, S, sum)
<1> DEFINE Small(n) == {T \in SUBSET S : Cardinality(T) <= n}
           Sums(n, g) == \A T \in Small(n) :
                g[T] = IF T = {} THEN 0 ELSE f[Pick(T)] + g[T \ {Pick(T)}]
           N == {n \in Nat : \E g \in [Small(n) -> Int] : Sums(n, g)}
<1>1. \A T \in SUBSET S : IsFiniteSet(T) /\ Cardinality(T) \in Nat
    BY SubsetIsFinite
<1>2. \A T \in SUBSET S : T # {} =>
        /\ Pick(T) \in T /\ f[Pick(T)] \in Int
        /\ T \ {Pick(T)} \in SUBSET S
        /\ Cardinality(T \ {Pick(T)}) = Cardinality(T) - 1
    BY <1>1, PickIsIn, FS_RemoveElement
<1>3. 0 \in N
    <2>1. \A T \in Small(0) : T = {}
        BY <1>1, NoElements
    <2>2. [T \in Small(0) |-> 0] \in [Small(0) -> Int] /\ Sums(0, [T \in Small(0) |-> 0])
        BY <2>1
    <2> QED BY <2>2
<1>4. ASSUME NEW n \in Nat, n \in N PROVE n + 1 \in N
    <2>1. PICK g \in [Small(n) -> Int] : Sums(n, g)
        BY <1>4
    <2> DEFINE h == [T \in Small(n + 1) |->
                        IF T = {} THEN 0 ELSE f[Pick(T)] + g[T \ {Pick(T)}]]
    <2>2. \A T \in Small(n + 1) : T # {} => T \ {Pick(T)} \in Small(n)
        BY <1>1, <1>2
    <2>3. h \in [Small(n + 1) -> Int]
        BY <1>2, <2>1, <2>2
    <2>4. \A T \in Small(n) : T \in Small(n + 1) /\ h[T] = g[T]
        BY <1>1, <2>1
    <2>5. Sums(n + 1, h)
        <3> SUFFICES ASSUME NEW T \in Small(n + 1)
                     PROVE  h[T] = IF T = {} THEN 0 ELSE f[Pick(T)] + h[T \ {Pick(T)}]
            OBVIOUS
        <3>1. CASE T = {}
            BY <3>1
        <3>2. CASE T # {}
            <4>1. h[T \ {Pick(T)}] = g[T \ {Pick(T)}]
                BY <3>2, <2>2, <2>4
            <4>2. h[T] = f[Pick(T)] + g[T \ {Pick(T)}]
                BY <3>2
            <4> QED BY <3>2, <4>1, <4>2
        <3> QED BY <3>1, <3>2
    <2> QED
        <3> HIDE DEF h, Small, Sums
        <3> QED BY <2>3, <2>5
<1>5. Cardinality(S) \in N
    <2>1. Nat \subseteq N
        <3> HIDE DEF N
        <3> QED BY <1>3, <1>4, SetInduction
    <2> QED BY <2>1, <1>1
<1>6. Small(Cardinality(S)) = SUBSET S
    BY <1>1, FS_Subset
<1>7. PICK sum \in [SUBSET S -> Int] : Sums(Cardinality(S), sum)
    BY <1>5, <1>6
<1>8. Adds(f, S, sum)
    BY <1>6, <1>7 DEF Adds
<1> QED BY <1>8

(* ... and there is only one.                                              *)
LEMMA SumIsUnique ==
    ASSUME NEW f, NEW S, IsFiniteSet(S), NEW g, NEW h, Adds(f, S, g), Adds(f, S, h)
    PROVE  g = h
<1> DEFINE N == {n \in Nat : \A T \in SUBSET S : Cardinality(T) = n => g[T] = h[T]}
           Rest(T) == T \ {Pick(T)}
<1>1. \A T \in SUBSET S : IsFiniteSet(T) /\ Cardinality(T) \in Nat
    BY SubsetIsFinite
<1>2. \A T \in SUBSET S :
        /\ g[T] = IF T = {} THEN 0 ELSE f[Pick(T)] + g[Rest(T)]
        /\ h[T] = IF T = {} THEN 0 ELSE f[Pick(T)] + h[Rest(T)]
    BY DEF Adds
<1>3. 0 \in N
    BY <1>2, NoElements
<1>4. ASSUME NEW n \in Nat, n \in N PROVE n + 1 \in N
    <2> SUFFICES ASSUME NEW T \in SUBSET S, Cardinality(T) = n + 1 PROVE g[T] = h[T]
        OBVIOUS
    <2>1. T # {} /\ \A x \in T : Cardinality(T \ {x}) = n
        BY <1>1, SmallerSet
    <2>2. Cardinality(Rest(T)) = n /\ Rest(T) \in SUBSET S
        BY <2>1, PickIsIn
    <2>3. g[Rest(T)] = h[Rest(T)]
        BY <1>4, <2>2
    <2> QED BY <1>2, <2>1, <2>3
<1>5. Nat \subseteq N
    <2> HIDE DEF N
    <2> QED BY <1>3, <1>4, SetInduction
<1>6. \A T \in SUBSET S : g[T] = h[T]
    BY <1>1, <1>5
<1> QED BY <1>6 DEF Adds

(* Each element that the definition chooses is added to the rest.          *)
LEMMA SumUnfolds ==
    ASSUME NEW f, NEW S, IsFiniteSet(S), \A x \in S : f[x] \in Int
    PROVE  /\ SumFunctionOnSet(f, S) \in Int
           /\ S = {} => SumFunctionOnSet(f, S) = 0
           /\ S # {} => SumFunctionOnSet(f, S) =
                            f[Pick(S)] + SumFunctionOnSet(f, S \ {Pick(S)})
<1>1. PICK sum \in [SUBSET S -> Int] : Adds(f, S, sum)
    BY SumExists
<1>2. Adds(f, S, CHOOSE g : Adds(f, S, g))
    BY <1>1
<1>3. SumFunctionOnSet(f, S) = sum[S]
    BY <1>1, <1>2, SumIsUnique, SumIsChosen
<1>4. S = {} => sum[S] = 0
    BY <1>1 DEF Adds
<1>5. ASSUME S # {} PROVE sum[S] = f[Pick(S)] + SumFunctionOnSet(f, S \ {Pick(S)})
    <2> DEFINE T == S \ {Pick(S)}
               part == [U \in SUBSET T |-> sum[U]]
    <2>1. IsFiniteSet(T) /\ T \subseteq S
        BY FS_Subset
    <2>2. \A U \in SUBSET T : U \in SUBSET S /\ U \ {Pick(U)} \in SUBSET T
        BY <2>1
    <2>3. Adds(f, T, part)
        <3>1. \A U \in SUBSET T :
                sum[U] = IF U = {} THEN 0 ELSE f[Pick(U)] + part[U \ {Pick(U)}]
            <4> SUFFICES ASSUME NEW U \in SUBSET T
                         PROVE  sum[U] = IF U = {} THEN 0 ELSE f[Pick(U)] + part[U \ {Pick(U)}]
                OBVIOUS
            <4>1. sum[U] = IF U = {} THEN 0 ELSE f[Pick(U)] + sum[U \ {Pick(U)}]
                BY <1>1, <2>2 DEF Adds
            <4>2. part[U \ {Pick(U)}] = sum[U \ {Pick(U)}]
                BY <2>2
            <4> QED BY <4>1, <4>2
        <3> HIDE DEF T
        <3> QED BY <3>1 DEF Adds
    <2>4. Adds(f, T, CHOOSE g : Adds(f, T, g))
        BY <2>3
    <2>5. SumFunctionOnSet(f, T) = part[T]
        <3> HIDE DEF T, part
        <3> QED BY <2>1, <2>3, <2>4, SumIsUnique, SumIsChosen
    <2>6. sum[S] = f[Pick(S)] + sum[T]
        BY <1>1, <1>5 DEF Adds
    <2> QED BY <2>5, <2>6
<1> QED BY <1>1, <1>3, <1>4, <1>5

-----------------------------------------------------------------------------
(* What a sum is, whichever elements its definition chooses first.         *)

LEMMA SumType ==
    ASSUME NEW f, NEW S, IsFiniteSet(S), \A x \in S : f[x] \in Int
    PROVE  SumFunctionOnSet(f, S) \in Int
BY SumUnfolds

LEMMA SumEmpty == ASSUME NEW f PROVE SumFunctionOnSet(f, {}) = 0
BY SumUnfolds, FS_EmptySet

LEMMA SumRemoves ==
    ASSUME NEW f, NEW S, IsFiniteSet(S), \A x \in S : f[x] \in Int, NEW x \in S
    PROVE  SumFunctionOnSet(f, S) = f[x] + SumFunctionOnSet(f, S \ {x})
<1> DEFINE N == {n \in Nat : \A T \in SUBSET S : Cardinality(T) = n => \A y \in T :
                    SumFunctionOnSet(f, T) = f[y] + SumFunctionOnSet(f, T \ {y})}
<1>1. \A T \in SUBSET S : IsFiniteSet(T) /\ Cardinality(T) \in Nat
    BY SubsetIsFinite
<1>2. \A T \in SUBSET S :
        /\ SumFunctionOnSet(f, T) \in Int
        /\ T # {} => SumFunctionOnSet(f, T) =
                            f[Pick(T)] + SumFunctionOnSet(f, T \ {Pick(T)})
    <2> TAKE T \in SUBSET S
    <2>1. IsFiniteSet(T) /\ \A y \in T : f[y] \in Int
        BY <1>1
    <2> QED BY <2>1, SumUnfolds
<1>3. 0 \in N
    BY NoElements
<1>4. ASSUME NEW n \in Nat, n \in N PROVE n + 1 \in N
    <2> SUFFICES ASSUME NEW T \in SUBSET S, Cardinality(T) = n + 1, NEW y \in T
                 PROVE  SumFunctionOnSet(f, T) = f[y] + SumFunctionOnSet(f, T \ {y})
        OBVIOUS
    <2> DEFINE p == Pick(T)
    <2>1. T # {} /\ \A z \in T : Cardinality(T \ {z}) = n
        BY <1>1, SmallerSet
    <2>2. p \in T
        BY <2>1, PickIsIn
    <2>3. SumFunctionOnSet(f, T) = f[p] + SumFunctionOnSet(f, T \ {p})
        BY <1>2, <2>1
    <2>4. CASE p = y
        BY <2>3, <2>4
    <2>5. CASE p # y
        <3> HIDE DEF p
        <3>1. y \in T \ {p} /\ p \in T \ {y}
            BY <2>2, <2>5
        <3>2. SumFunctionOnSet(f, T \ {p}) = f[y] + SumFunctionOnSet(f, (T \ {p}) \ {y})
            BY <1>4, <2>1, <2>2, <3>1
        <3>3. SumFunctionOnSet(f, T \ {y}) = f[p] + SumFunctionOnSet(f, (T \ {y}) \ {p})
            BY <1>4, <2>1, <2>2, <3>1
        <3>4. (T \ {p}) \ {y} = (T \ {y}) \ {p}
            OBVIOUS
        <3>5. SumFunctionOnSet(f, (T \ {y}) \ {p}) \in Int
            BY <1>2
        <3>6. f[p] \in Int /\ f[y] \in Int
            BY <2>2
        <3>7. SumFunctionOnSet(f, T \ {p}) = f[y] + SumFunctionOnSet(f, (T \ {y}) \ {p})
            BY <3>2, <3>4
        <3>8. \A a, b, c \in Int : a + (b + c) = b + (a + c)
            OBVIOUS
        <3>9. f[p] + SumFunctionOnSet(f, T \ {p}) = f[y] + SumFunctionOnSet(f, T \ {y})
            BY <3>3, <3>5, <3>6, <3>7, <3>8
        <3> QED BY <2>3, <3>9
    <2> QED BY <2>4, <2>5
<1>5. Nat \subseteq N
    <2> HIDE DEF N
    <2> QED BY <1>3, <1>4, SetInduction
<1> QED BY <1>1, <1>5

LEMMA SumAdds ==
    ASSUME NEW f, NEW S, IsFiniteSet(S), NEW x, x \notin S,
           \A y \in S \cup {x} : f[y] \in Int
    PROVE  SumFunctionOnSet(f, S \cup {x}) = f[x] + SumFunctionOnSet(f, S)
<1>1. IsFiniteSet(S \cup {x})
    BY FS_AddElement
<1>2. (S \cup {x}) \ {x} = S
    OBVIOUS
<1> QED BY <1>1, <1>2, SumRemoves

LEMMA SumOfOne ==
    ASSUME NEW f, NEW x, f[x] \in Int
    PROVE  SumFunctionOnSet(f, {x}) = f[x]
<1>1. SumFunctionOnSet(f, {} \cup {x}) = f[x] + SumFunctionOnSet(f, {})
    BY SumAdds, FS_EmptySet
<1>2. {} \cup {x} = {x}
    OBVIOUS
<1> QED BY <1>1, <1>2, SumEmpty

(* Sums are compared and combined element by element.                      *)
LEMMA SumAgrees ==
    ASSUME NEW f, NEW g, NEW S, IsFiniteSet(S),
           \A x \in S : f[x] \in Int /\ f[x] = g[x]
    PROVE  SumFunctionOnSet(f, S) = SumFunctionOnSet(g, S)
<1> DEFINE Good == {T \in SUBSET S : SumFunctionOnSet(f, T) = SumFunctionOnSet(g, T)}
<1>1. {} \in Good
    BY SumEmpty
<1>2. ASSUME NEW T \in SUBSET S, NEW x \in S \ T, T \in Good PROVE T \cup {x} \in Good
    <2>1. IsFiniteSet(T)
        BY SubsetIsFinite
    <2>2. /\ SumFunctionOnSet(f, T \cup {x}) = f[x] + SumFunctionOnSet(f, T)
          /\ SumFunctionOnSet(g, T \cup {x}) = g[x] + SumFunctionOnSet(g, T)
        BY <2>1, SumAdds
    <2> QED BY <1>2, <2>2
<1>3. S \in Good
    <2> HIDE DEF Good
    <2> QED BY <1>1, <1>2, FiniteInduction
<1> QED BY <1>3

LEMMA SumPlus ==
    ASSUME NEW f, NEW g, NEW h, NEW S, IsFiniteSet(S),
           \A x \in S : f[x] \in Int /\ g[x] \in Int /\ h[x] = f[x] + g[x]
    PROVE  SumFunctionOnSet(h, S) = SumFunctionOnSet(f, S) + SumFunctionOnSet(g, S)
<1> DEFINE Good == {T \in SUBSET S :
        SumFunctionOnSet(h, T) = SumFunctionOnSet(f, T) + SumFunctionOnSet(g, T)}
<1>1. {} \in Good
    BY SumEmpty
<1>2. ASSUME NEW T \in SUBSET S, NEW x \in S \ T, T \in Good PROVE T \cup {x} \in Good
    <2>1. IsFiniteSet(T)
        BY SubsetIsFinite
    <2>2. \A y \in T \cup {x} : f[y] \in Int /\ g[y] \in Int /\ h[y] \in Int
        OBVIOUS
    <2>3. /\ SumFunctionOnSet(f, T \cup {x}) = f[x] + SumFunctionOnSet(f, T)
          /\ SumFunctionOnSet(g, T \cup {x}) = g[x] + SumFunctionOnSet(g, T)
          /\ SumFunctionOnSet(h, T \cup {x}) = h[x] + SumFunctionOnSet(h, T)
        BY <2>1, <2>2, SumAdds
    <2>4. SumFunctionOnSet(f, T) \in Int /\ SumFunctionOnSet(g, T) \in Int
        BY <2>1, <2>2, SumType
    <2> QED BY <1>2, <2>2, <2>3, <2>4
<1>3. S \in Good
    <2> HIDE DEF Good
    <2> QED BY <1>1, <1>2, FiniteInduction
<1> QED BY <1>3

LEMMA SumTimes ==
    ASSUME NEW f, NEW h, NEW c \in Int, NEW S, IsFiniteSet(S),
           \A x \in S : f[x] \in Int /\ h[x] = c * f[x]
    PROVE  SumFunctionOnSet(h, S) = c * SumFunctionOnSet(f, S)
<1> DEFINE Good == {T \in SUBSET S : SumFunctionOnSet(h, T) = c * SumFunctionOnSet(f, T)}
<1>1. {} \in Good
    BY SumEmpty
<1>2. ASSUME NEW T \in SUBSET S, NEW x \in S \ T, T \in Good PROVE T \cup {x} \in Good
    <2>1. IsFiniteSet(T)
        BY SubsetIsFinite
    <2>2. \A y \in T \cup {x} : f[y] \in Int /\ h[y] \in Int
        OBVIOUS
    <2>3. /\ SumFunctionOnSet(f, T \cup {x}) = f[x] + SumFunctionOnSet(f, T)
          /\ SumFunctionOnSet(h, T \cup {x}) = h[x] + SumFunctionOnSet(h, T)
        BY <2>1, <2>2, SumAdds
    <2>4. SumFunctionOnSet(f, T) \in Int
        BY <2>1, <2>2, SumType
    <2>5. \A a, b \in Int : c * (a + b) = c * a + c * b
        OBVIOUS
    <2> QED BY <1>2, <2>2, <2>3, <2>4, <2>5
<1>3. S \in Good
    <2> HIDE DEF Good
    <2> QED BY <1>1, <1>2, FiniteInduction
<1> QED BY <1>3

LEMMA SumAtMost ==
    ASSUME NEW f, NEW g, NEW S, IsFiniteSet(S),
           \A x \in S : f[x] \in Int /\ g[x] \in Int /\ f[x] <= g[x]
    PROVE  SumFunctionOnSet(f, S) <= SumFunctionOnSet(g, S)
<1> DEFINE Good == {T \in SUBSET S : SumFunctionOnSet(f, T) <= SumFunctionOnSet(g, T)}
<1>1. {} \in Good
    BY SumEmpty
<1>2. ASSUME NEW T \in SUBSET S, NEW x \in S \ T, T \in Good PROVE T \cup {x} \in Good
    <2>1. IsFiniteSet(T)
        BY SubsetIsFinite
    <2>2. \A y \in T \cup {x} : f[y] \in Int /\ g[y] \in Int /\ f[y] <= g[y]
        OBVIOUS
    <2>3. /\ SumFunctionOnSet(f, T \cup {x}) = f[x] + SumFunctionOnSet(f, T)
          /\ SumFunctionOnSet(g, T \cup {x}) = g[x] + SumFunctionOnSet(g, T)
        BY <2>1, <2>2, SumAdds
    <2>4. SumFunctionOnSet(f, T) \in Int /\ SumFunctionOnSet(g, T) \in Int
        BY <2>1, <2>2, SumType
    <2> QED BY <1>2, <2>2, <2>3, <2>4
<1>3. S \in Good
    <2> HIDE DEF Good
    <2> QED BY <1>1, <1>2, FiniteInduction
<1> QED BY <1>3

LEMMA SumOfEqual ==
    ASSUME NEW f, NEW c \in Int, NEW S, IsFiniteSet(S), \A x \in S : f[x] = c
    PROVE  SumFunctionOnSet(f, S) = c * Cardinality(S)
<1> DEFINE Good == {T \in SUBSET S : SumFunctionOnSet(f, T) = c * Cardinality(T)}
<1>1. {} \in Good
    BY SumEmpty, FS_EmptySet
<1>2. ASSUME NEW T \in SUBSET S, NEW x \in S \ T, T \in Good PROVE T \cup {x} \in Good
    <2>1. IsFiniteSet(T) /\ Cardinality(T) \in Nat
        BY SubsetIsFinite
    <2>2. \A y \in T \cup {x} : f[y] \in Int
        OBVIOUS
    <2>3. SumFunctionOnSet(f, T \cup {x}) = c + SumFunctionOnSet(f, T)
        BY <2>1, <2>2, SumAdds
    <2>4. Cardinality(T \cup {x}) = Cardinality(T) + 1
        BY <2>1, FS_AddElement
    <2>5. \A b \in Int : c * (b + 1) = c + c * b
        OBVIOUS
    <2> QED BY <1>2, <2>1, <2>3, <2>4, <2>5
<1>3. S \in Good
    <2> HIDE DEF Good
    <2> QED BY <1>1, <1>2, FiniteInduction
<1> QED BY <1>3

LEMMA SumUnion ==
    ASSUME NEW f, NEW S, NEW U, IsFiniteSet(S), IsFiniteSet(U), S \cap U = {},
           \A x \in S \cup U : f[x] \in Int
    PROVE  SumFunctionOnSet(f, S \cup U) = SumFunctionOnSet(f, S) + SumFunctionOnSet(f, U)
<1> DEFINE Good == {T \in SUBSET S :
        SumFunctionOnSet(f, T \cup U) = SumFunctionOnSet(f, T) + SumFunctionOnSet(f, U)}
<1>0. SumFunctionOnSet(f, U) \in Int
    BY SumType
<1>1. {} \in Good
    <2>1. {} \cup U = U
        OBVIOUS
    <2> QED BY <1>0, <2>1, SumEmpty
<1>2. ASSUME NEW T \in SUBSET S, NEW x \in S \ T, T \in Good PROVE T \cup {x} \in Good
    <2>1. IsFiniteSet(T) /\ IsFiniteSet(T \cup U)
        BY SubsetIsFinite, FS_Union
    <2>2. x \notin T \cup U /\ (T \cup {x}) \cup U = (T \cup U) \cup {x}
        OBVIOUS
    <2>3. SumFunctionOnSet(f, T \cup {x}) = f[x] + SumFunctionOnSet(f, T)
        BY <2>1, SumAdds
    <2>4. SumFunctionOnSet(f, (T \cup U) \cup {x}) = f[x] + SumFunctionOnSet(f, T \cup U)
        BY <2>1, <2>2, SumAdds
    <2>5. SumFunctionOnSet(f, T) \in Int /\ f[x] \in Int
        BY <2>1, SumType
    <2>6. SumFunctionOnSet(f, (T \cup {x}) \cup U) =
            SumFunctionOnSet(f, T \cup {x}) + SumFunctionOnSet(f, U)
        <3>1. SumFunctionOnSet(f, T \cup U) =
                SumFunctionOnSet(f, T) + SumFunctionOnSet(f, U)
            BY <1>2
        <3>2. SumFunctionOnSet(f, (T \cup {x}) \cup U) = f[x] + SumFunctionOnSet(f, T \cup U)
            BY <2>2, <2>4
        <3>3. \A a, b, c \in Int : a + (b + c) = (a + b) + c
            OBVIOUS
        <3> QED BY <1>0, <2>3, <2>5, <3>1, <3>2, <3>3
    <2> QED BY <2>6
<1>3. S \in Good
    <2> HIDE DEF Good
    <2> QED BY <1>1, <1>2, FiniteInduction
<1> QED BY <1>3

(* A sum may be taken group by group ...                                   *)
LEMMA SumByGroup ==
    ASSUME NEW f, NEW S, IsFiniteSet(S), \A x \in S : f[x] \in Int,
           NEW G, IsFiniteSet(G), NEW group, \A x \in S : group[x] \in G,
           NEW sum, \A k \in G : sum[k] = SumFunctionOnSet(f, {x \in S : group[x] = k})
    PROVE  SumFunctionOnSet(f, S) = SumFunctionOnSet(sum, G)
<1> DEFINE In(H) == {x \in S : group[x] \in H}
           Good == {H \in SUBSET G : SumFunctionOnSet(f, In(H)) = SumFunctionOnSet(sum, H)}
<1>1. {} \in Good
    <2>1. In({}) = {}
        OBVIOUS
    <2> HIDE DEF In
    <2> QED BY <2>1, SumEmpty
<1>2. ASSUME NEW H \in SUBSET G, NEW k \in G \ H, H \in Good PROVE H \cup {k} \in Good
    <2> DEFINE K == {x \in S : group[x] = k}
    <2>1. In(H \cup {k}) = In(H) \cup K /\ In(H) \cap K = {}
        OBVIOUS
    <2>2. IsFiniteSet(In(H)) /\ IsFiniteSet(K) /\ In(H) \in SUBSET S /\ K \in SUBSET S
        BY SubsetIsFinite
    <2>3. \A j \in G : sum[j] \in Int
        <3> SUFFICES ASSUME NEW j \in G PROVE sum[j] \in Int
            OBVIOUS
        <3>1. IsFiniteSet({x \in S : group[x] = j})
            BY SubsetIsFinite
        <3> QED BY <3>1, SumType
    <2>4. SumFunctionOnSet(f, In(H \cup {k})) = SumFunctionOnSet(f, In(H)) + sum[k]
        <3>1. sum[k] = SumFunctionOnSet(f, K)
            OBVIOUS
        <3>2. \A x \in In(H) \cup K : f[x] \in Int
            BY <2>2
        <3> HIDE DEF In, K
        <3>3. SumFunctionOnSet(f, In(H) \cup K) =
                SumFunctionOnSet(f, In(H)) + SumFunctionOnSet(f, K)
            BY <2>1, <2>2, <3>2, SumUnion
        <3> QED BY <2>1, <3>1, <3>3
    <2>5. SumFunctionOnSet(sum, H \cup {k}) = sum[k] + SumFunctionOnSet(sum, H)
        <3>1. IsFiniteSet(H)
            BY SubsetIsFinite
        <3> QED BY <2>3, <3>1, SumAdds
    <2>6. SumFunctionOnSet(sum, H) \in Int /\ sum[k] \in Int
        <3>1. IsFiniteSet(H)
            BY SubsetIsFinite
        <3> QED BY <2>3, <3>1, SumType
    <2>7. SumFunctionOnSet(f, In(H)) = SumFunctionOnSet(sum, H)
        BY <1>2
    <2> HIDE DEF In
    <2> QED BY <2>4, <2>5, <2>6, <2>7
<1>3. G \in Good
    <2> HIDE DEF Good
    <2> QED BY <1>1, <1>2, FiniteInduction
<1>4. In(G) = S
    OBVIOUS
<1> QED BY <1>3, <1>4

(* ... or over other names of the same elements.                           *)
LEMMA SumRenamed ==
    ASSUME NEW f, NEW S, IsFiniteSet(S), NEW g, NEW name,
           \A x \in S : f[x] \in Int /\ f[x] = g[name[x]],
           \A x \in S : \A y \in S : name[x] = name[y] => x = y
    PROVE  SumFunctionOnSet(f, S) = SumFunctionOnSet(g, {name[x] : x \in S})
<1> DEFINE Names(T) == {name[x] : x \in T}
           Good == {T \in SUBSET S : IsFiniteSet(Names(T)) /\
                        SumFunctionOnSet(f, T) = SumFunctionOnSet(g, Names(T))}
<1>1. {} \in Good
    <2>1. Names({}) = {}
        OBVIOUS
    <2> HIDE DEF Names
    <2> QED BY <2>1, SumEmpty, FS_EmptySet
<1>2. ASSUME NEW T \in SUBSET S, NEW x \in S \ T, T \in Good PROVE T \cup {x} \in Good
    <2>1. IsFiniteSet(T) /\ IsFiniteSet(Names(T))
        BY <1>2, SubsetIsFinite
    <2>2. Names(T \cup {x}) = Names(T) \cup {name[x]} /\ name[x] \notin Names(T)
        OBVIOUS
    <2>3. \A y \in Names(T) \cup {name[x]} : g[y] \in Int
        OBVIOUS
    <2>4. SumFunctionOnSet(f, T \cup {x}) = f[x] + SumFunctionOnSet(f, T)
        BY <2>1, SumAdds
    <2>5. SumFunctionOnSet(f, T) = SumFunctionOnSet(g, Names(T)) /\ f[x] = g[name[x]]
        BY <1>2
    <2> HIDE DEF Names
    <2>6. SumFunctionOnSet(g, Names(T) \cup {name[x]}) =
            g[name[x]] + SumFunctionOnSet(g, Names(T))
        BY <2>1, <2>2, <2>3, SumAdds
    <2>7. IsFiniteSet(Names(T) \cup {name[x]})
        BY <2>1, FS_AddElement
    <2> QED BY <2>2, <2>4, <2>5, <2>6, <2>7
<1>3. S \in Good
    <2> HIDE DEF Good
    <2> QED BY <1>1, <1>2, FiniteInduction
<1> QED BY <1>3

-----------------------------------------------------------------------------
(* What the operators of the amounts return.                               *)

(* Half of the divisor, at most, is lost in a rounding.                    *)
LEMMA RoundedIsClose ==
    ASSUME NEW n \in Int, NEW d \in Nat, d > 0
    PROVE  /\ Rounded(n, d) \in Int
           /\ 2 * (d * Rounded(n, d) - n) <= d
           /\ 2 * (n - d * Rounded(n, d)) <= d
<1> DEFINE q == (2 * n + d) \div (2 * d)
<1>1. 2 * d \in Nat /\ 2 * d > 0 /\ 2 * n + d \in Int
    OBVIOUS
<1>2. /\ q \in Int
      /\ (2 * d) * q <= 2 * n + d
      /\ 2 * n + d < (2 * d) * q + 2 * d
    BY <1>1
<1>3. (2 * d) * q = 2 * (d * q)
    BY <1>2
<1>4. Rounded(n, d) = q
    BY DEF Rounded
<1> HIDE DEF q
<1> QED BY <1>2, <1>3, <1>4

LEMMA RoundedIsNat ==
    ASSUME NEW n \in Nat, NEW d \in Nat, d > 0
    PROVE  Rounded(n, d) \in Nat
<1>1. 2 * d \in Nat /\ 2 * d > 0 /\ 2 * n + d \in Nat
    OBVIOUS
<1>2. (2 * n + d) \div (2 * d) \in Nat
    BY <1>1
<1> QED BY <1>2 DEF Rounded

LEMMA Greatest ==
    ASSUME NEW S, IsFiniteSet(S), S # {}, S \subseteq Int
    PROVE  \E m \in S : \A x \in S : x <= m
<1> DEFINE Good == {T \in SUBSET S : T = {} \/ \E m \in T : \A x \in T : x <= m}
<1>1. {} \in Good
    OBVIOUS
<1>2. ASSUME NEW T \in SUBSET S, NEW x \in S \ T, T \in Good PROVE T \cup {x} \in Good
    <2>1. CASE T = {}
        BY <2>1
    <2>2. CASE T # {}
        <3>1. PICK m \in T : \A y \in T : y <= m
            BY <1>2, <2>2
        <3>2. CASE x <= m
            BY <3>1, <3>2
        <3>3. CASE ~(x <= m)
            BY <3>1, <3>3
        <3> QED BY <3>2, <3>3
    <2> QED BY <2>1, <2>2
<1>3. S \in Good
    <2> HIDE DEF Good
    <2> QED BY <1>1, <1>2, FiniteInduction
<1> QED BY <1>3

LEMMA Least ==
    ASSUME NEW S, IsFiniteSet(S), S # {}, S \subseteq Int
    PROVE  \E m \in S : \A x \in S : m <= x
<1> DEFINE Good == {T \in SUBSET S : T = {} \/ \E m \in T : \A x \in T : m <= x}
<1>1. {} \in Good
    OBVIOUS
<1>2. ASSUME NEW T \in SUBSET S, NEW x \in S \ T, T \in Good PROVE T \cup {x} \in Good
    <2>1. CASE T = {}
        BY <2>1
    <2>2. CASE T # {}
        <3>1. PICK m \in T : \A y \in T : m <= y
            BY <1>2, <2>2
        <3>2. CASE m <= x
            BY <3>1, <3>2
        <3>3. CASE ~(m <= x)
            BY <3>1, <3>3
        <3> QED BY <3>2, <3>3
    <2> QED BY <2>1, <2>2
<1>3. S \in Good
    <2> HIDE DEF Good
    <2> QED BY <1>1, <1>2, FiniteInduction
<1> QED BY <1>3

LEMMA ImageIsFinite ==
    ASSUME NEW f, NEW S, IsFiniteSet(S)
    PROVE  IsFiniteSet({f[x] : x \in S})
<1> DEFINE Good == {T \in SUBSET S : IsFiniteSet({f[x] : x \in T})}
<1>1. {} \in Good
    <2>1. {f[x] : x \in {}} = {}
        OBVIOUS
    <2> QED BY <2>1, FS_EmptySet
<1>2. ASSUME NEW T \in SUBSET S, NEW x \in S \ T, T \in Good PROVE T \cup {x} \in Good
    <2>1. {f[y] : y \in T \cup {x}} = {f[y] : y \in T} \cup {f[x]}
        OBVIOUS
    <2>2. IsFiniteSet({f[y] : y \in T} \cup {f[x]})
        BY <1>2, FS_AddElement
    <2> QED BY <2>1, <2>2
<1>3. S \in Good
    <2> HIDE DEF Good
    <2> QED BY <1>1, <1>2, FiniteInduction
<1> QED BY <1>3

LEMMA RanksDiffer ==
    ASSUME NEW S, IsFiniteSet(S), S \subseteq Int, NEW i \in S, NEW j \in S,
           Rank(i, S) = Rank(j, S)
    PROVE  i = j
<1> DEFINE Below(k) == {n \in S : n <= k}
<1>1. ASSUME NEW a \in S, NEW b \in S, a < b PROVE Rank(a, S) # Rank(b, S)
    <2>5. \A n \in S : n <= a => n <= b
        <3>1. a \in Int /\ b \in Int /\ \A n \in S : n \in Int
            OBVIOUS
        <3> QED BY <1>1, <3>1
    <2>1. Below(a) \in SUBSET Below(b)
        BY <2>5
    <2>4. IsFiniteSet(Below(b))
        BY SubsetIsFinite
    <2>2. b \in Below(b) /\ b \notin Below(a)
        BY <1>1
    <2>3. Cardinality(Below(a)) # Cardinality(Below(b))
        <3> HIDE DEF Below
        <3> QED BY <2>1, <2>2, <2>4, FS_Subset
    <2> QED BY <2>3 DEF Rank
<1> QED BY <1>1

LEMMA RankType ==
    ASSUME NEW S, IsFiniteSet(S), S \subseteq Int, NEW i \in S
    PROVE  Rank(i, S) \in 1..Cardinality(S)
<1> DEFINE Below == {n \in S : n <= i}
<1>1. Below \in SUBSET S /\ i \in Below
    OBVIOUS
<1>2. Cardinality(Below) \in Nat /\ Cardinality(Below) <= Cardinality(S) /\ IsFiniteSet(Below)
      /\ Cardinality(S) \in Nat
    BY <1>1, SubsetIsFinite
<1>3. Cardinality(Below) # 0
    BY <1>1, <1>2, FS_EmptySet
<1> QED BY <1>2, <1>3 DEF Rank

(* Items of a row and lines of a store's order.                            *)
Entry == [product : Product \cup {Foreign}, quantity : Nat, price : Nat, total : Int]
IsList(items) ==
    /\ DOMAIN items \in SUBSET Nat /\ IsFiniteSet(DOMAIN items)
    /\ \A i \in DOMAIN items : items[i] \in Entry

LEMMA SubtotalType == ASSUME NEW item, item.price \in Nat, item.quantity \in Nat
                      PROVE  Subtotal(item) \in Nat
BY DEF Subtotal

LEMMA EntryType ==
    ASSUME NEW item \in Entry
    PROVE  Subtotal(item) \in Nat /\ item.total \in Int
BY DEF Subtotal, Entry

LEMMA SumIsNat ==
    ASSUME NEW f, NEW S, IsFiniteSet(S), \A x \in S : f[x] \in Nat
    PROVE  SumFunctionOnSet(f, S) \in Nat
<1> DEFINE none == [x \in S |-> 0]
<1>1. SumFunctionOnSet(none, S) = 0 * Cardinality(S)
    <2>1. \A x \in S : none[x] = 0
        OBVIOUS
    <2> HIDE DEF none
    <2> QED BY <2>1, SumOfEqual
<1>2. SumFunctionOnSet(none, S) <= SumFunctionOnSet(f, S)
    <2>1. \A x \in S : none[x] \in Int /\ f[x] \in Int /\ none[x] <= f[x]
        OBVIOUS
    <2> HIDE DEF none
    <2> QED BY <2>1, SumAtMost
<1>3. SumFunctionOnSet(f, S) \in Int /\ Cardinality(S) \in Nat
    BY SumType, FS_CardinalityType
<1> HIDE DEF none
<1> QED BY <1>1, <1>2, <1>3

(* The parts of Cost and Charge.                                           *)
Costs(items) == [i \in DOMAIN items |-> Subtotal(items[i])]
Totals(items) == [i \in DOMAIN items |-> items[i].total]

LEMMA PartsType ==
    ASSUME NEW items, IsList(items)
    PROVE  /\ \A i \in DOMAIN items : Costs(items)[i] \in Nat /\ Totals(items)[i] \in Int
           /\ Cost(items) = SumFunctionOnSet(Costs(items), DOMAIN items)
           /\ Charge(items) = SumFunctionOnSet(Totals(items), DOMAIN items)
           /\ Cost(items) \in Nat /\ Charge(items) \in Int
<1>1. \A i \in DOMAIN items : Costs(items)[i] \in Nat /\ Totals(items)[i] \in Int
    BY EntryType DEF IsList, Costs, Totals
<1>2. Cost(items) = SumFunctionOnSet(Costs(items), DOMAIN items)
    BY DEF Cost, SumFunction, Costs
<1>3. Charge(items) = SumFunctionOnSet(Totals(items), DOMAIN items)
    BY DEF Charge, SumFunction, Totals
<1>4. Cost(items) \in Nat
    BY <1>1, <1>2, SumIsNat DEF IsList
<1>5. Charge(items) \in Int
    BY <1>1, <1>3, SumType DEF IsList
<1> QED BY <1>1, <1>2, <1>3, <1>4, <1>5

LEMMA RestrictedParts ==
    ASSUME NEW items, IsList(items), NEW S \in SUBSET DOMAIN items
    PROVE  /\ IsList(Restrict(items, S)) /\ DOMAIN Restrict(items, S) = S
           /\ Cost(Restrict(items, S)) = SumFunctionOnSet(Costs(items), S)
           /\ Charge(Restrict(items, S)) = SumFunctionOnSet(Totals(items), S)
<1> DEFINE part == Restrict(items, S)
<1>1. DOMAIN part = S /\ \A i \in S : part[i] = items[i]
    BY DEF Restrict
<1>2. IsFiniteSet(S) /\ S \in SUBSET Nat
    BY SubsetIsFinite DEF IsList
<1> HIDE DEF part
<1>3. IsList(part)
    BY <1>1, <1>2 DEF IsList
<1>4. \A i \in S : Costs(part)[i] = Costs(items)[i] /\ Totals(part)[i] = Totals(items)[i]
    BY <1>1 DEF Costs, Totals
<1>5. Cost(part) = SumFunctionOnSet(Costs(items), S)
    <2>1. \A i \in S : Costs(part)[i] \in Int
        BY <1>1, <1>3, PartsType
    <2>2. SumFunctionOnSet(Costs(part), S) = SumFunctionOnSet(Costs(items), S)
        BY <1>2, <1>4, <2>1, SumAgrees
    <2> QED BY <1>1, <1>3, <2>2, PartsType
<1>6. Charge(part) = SumFunctionOnSet(Totals(items), S)
    <2>1. \A i \in S : Totals(part)[i] \in Int
        BY <1>1, <1>3, PartsType
    <2>2. SumFunctionOnSet(Totals(part), S) = SumFunctionOnSet(Totals(items), S)
        BY <1>2, <1>4, <2>1, SumAgrees
    <2> QED BY <1>1, <1>3, <2>2, PartsType
<1> QED BY <1>1, <1>3, <1>5, <1>6 DEF part

(* Every cent of the discount goes to some line: the last of those that    *)
(* take part takes what the roundings left.                                *)
LineDiscounts(order) == [k \in DOMAIN order.items |-> LineDiscount(order, k)]
Unmodified(items) == {i \in DOMAIN items : ~Modified(items[i])}

LEMMA EligibleCost ==
    ASSUME NEW items, IsList(items)
    PROVE  /\ DOMAIN Eligible(items) = Unmodified(items)
           /\ Cost(Eligible(items)) = SumFunctionOnSet(Costs(items), Unmodified(items))
           /\ Cost(Eligible(items)) \in Nat
<1>1. Unmodified(items) \in SUBSET DOMAIN items /\
        Eligible(items) = Restrict(items, Unmodified(items))
    BY DEF Unmodified, Eligible
<1> QED BY <1>1, RestrictedParts, PartsType

LEMMA LineDiscountType ==
    ASSUME NEW order, IsList(order.items), order.discount \in Int, NEW k \in DOMAIN order.items
    PROVE  LineDiscount(order, k) \in Int
<1> DEFINE part == {i \in DOMAIN order.items : ~Modified(order.items[i])}
           whole == Cost(Eligible(order.items))
           Rounding(i) == Rounded(Subtotal(order.items[i]) * order.discount, whole)
           rest == [i \in part \ {k} |-> Rounding(i)]
<1>1. whole \in Nat
    BY EligibleCost
<1>2. ASSUME whole > 0, NEW i \in part PROVE Rounding(i) \in Int
    <2>1. Subtotal(order.items[i]) * order.discount \in Int
        BY EntryType DEF IsList
    <2> HIDE DEF whole
    <2> QED BY <1>1, <1>2, <2>1, RoundedIsClose
<1>3. ASSUME whole > 0 PROVE SumFunction(rest) \in Int
    <2>1. IsFiniteSet(part \ {k})
        BY SubsetIsFinite DEF IsList
    <2>2. \A i \in part \ {k} : rest[i] \in Int
        BY <1>2, <1>3
    <2>3. DOMAIN rest = part \ {k}
        OBVIOUS
    <2> HIDE DEF rest, part
    <2> QED BY <2>1, <2>2, <2>3, SumType DEF SumFunction
<1>4. LineDiscount(order, k) =
        IF order.discount <= 0 \/ whole <= 0 \/ k \notin part THEN 0
        ELSE IF \A i \in part : i <= k THEN order.discount - SumFunction(rest)
             ELSE Rounding(k)
    BY DEF LineDiscount
<1> HIDE DEF whole, part, Rounding, rest
<1> QED BY <1>1, <1>2, <1>3, <1>4

LEMMA DiscountIsDistributed ==
    ASSUME NEW order, IsList(order.items), order.discount \in Int
    PROVE  SumFunctionOnSet(LineDiscounts(order), Unmodified(order.items)) =
                IF order.discount <= 0 \/ Cost(Eligible(order.items)) = 0 THEN 0
                ELSE order.discount
<1> DEFINE part == Unmodified(order.items)
           whole == Cost(Eligible(order.items))
           d == LineDiscounts(order)
           Rounding(i) == Rounded(Subtotal(order.items[i]) * order.discount, whole)
<1>1. IsFiniteSet(part) /\ part \in SUBSET DOMAIN order.items
    BY SubsetIsFinite DEF IsList, Unmodified
<1>2. \A k \in part : d[k] \in Int
    BY <1>1, LineDiscountType DEF LineDiscounts
<1>3. whole \in Nat /\ whole = SumFunctionOnSet(Costs(order.items), part)
    BY EligibleCost
<1>4. CASE order.discount <= 0 \/ whole = 0
    <2>1. \A k \in part : d[k] = 0
        BY <1>1, <1>3, <1>4 DEF LineDiscounts, LineDiscount
    <2>2. SumFunctionOnSet(d, part) = 0 * Cardinality(part)
        BY <1>1, <2>1, SumOfEqual
    <2>3. Cardinality(part) \in Nat
        BY <1>1, FS_CardinalityType
    <2>4. SumFunctionOnSet(d, part) = 0
        BY <2>2, <2>3
    <2> QED
        <3> HIDE DEF d
        <3> QED BY <1>4, <2>4 DEF d
<1>6. \A k \in part : d[k] =
        IF order.discount <= 0 \/ whole <= 0 THEN 0
        ELSE IF \A i \in part : i <= k
             THEN order.discount - SumFunction([i \in part \ {k} |-> Rounding(i)])
             ELSE Rounding(k)
    <2> SUFFICES ASSUME NEW k \in part
                 PROVE  LineDiscount(order, k) =
            IF order.discount <= 0 \/ whole <= 0 THEN 0
            ELSE IF \A i \in part : i <= k
                 THEN order.discount - SumFunction([i \in part \ {k} |-> Rounding(i)])
                 ELSE Rounding(k)
        BY <1>1 DEF LineDiscounts
    <2>1. k \in {i \in DOMAIN order.items : ~Modified(order.items[i])}
        BY DEF Unmodified
    <2> QED BY <2>1 DEF LineDiscount, Unmodified
<1>5. CASE ~(order.discount <= 0 \/ whole = 0)
    <2>0. ~(order.discount <= 0 \/ whole <= 0)
        <3> HIDE DEF whole
        <3> QED BY <1>3, <1>5
    <2>1. part # {}
        BY <1>5, <1>3, SumEmpty
    <2>2. PICK last \in part : \A i \in part : i <= last
        <3>1. part \subseteq Int
            BY <1>1 DEF IsList
        <3> HIDE DEF part
        <3> QED BY <1>1, <2>1, <3>1, Greatest
    <2> DEFINE rest == [i \in part \ {last} |-> Rounding(i)]
    <2>3. d[last] = order.discount - SumFunction(rest)
        <3>1. d[last] = order.discount - SumFunction([i \in part \ {last} |-> Rounding(i)])
            <4> HIDE DEF d, part, whole, Rounding
            <4> QED BY <1>6, <2>0, <2>2
        <3> QED BY <3>1
    <2>4. \A i \in part \ {last} : d[i] = rest[i]
        <3> SUFFICES ASSUME NEW i \in part \ {last} PROVE d[i] = Rounding(i)
            OBVIOUS
        <3>1. i \in Int /\ last \in Int
            BY <1>1 DEF IsList
        <3>2. ~(\A j \in part : j <= i)
            BY <2>2, <3>1
        <3> HIDE DEF d, part, whole, Rounding
        <3> QED BY <1>6, <2>0, <3>2
    <2>5. SumFunction(rest) = SumFunctionOnSet(rest, part \ {last})
        BY DEF SumFunction
    <2>6. IsFiniteSet(part \ {last})
        BY <1>1, FS_RemoveElement
    <2> HIDE DEF part, d, rest
    <2>7. SumFunctionOnSet(d, part \ {last}) = SumFunctionOnSet(rest, part \ {last})
        BY <1>2, <2>4, <2>6, SumAgrees
    <2>8. SumFunctionOnSet(d, part \ {last}) \in Int
        BY <1>2, <2>6, SumType
    <2>9. SumFunctionOnSet(d, part) = d[last] + SumFunctionOnSet(d, part \ {last})
        BY <1>1, <1>2, <2>2, SumRemoves
    <2>10. SumFunctionOnSet(d, part) = order.discount
        BY <2>3, <2>5, <2>7, <2>8, <2>9
    <2> QED BY <1>5, <2>10 DEF d, part
<1> QED BY <1>3, <1>4, <1>5

LEMMA UndiscountedLines ==
    ASSUME NEW order, IsList(order.items), order.discount \in Int
    PROVE  /\ \A k \in DOMAIN order.items \ Unmodified(order.items) :
                    LineDiscounts(order)[k] = 0
           /\ SumFunctionOnSet(LineDiscounts(order), DOMAIN order.items) =
                SumFunctionOnSet(LineDiscounts(order), Unmodified(order.items))
<1> DEFINE all == DOMAIN order.items
           part == Unmodified(order.items)
           d == LineDiscounts(order)
<1>1. \A k \in all \ part : d[k] = 0
    BY DEF LineDiscounts, LineDiscount, Unmodified
<1>2. /\ IsFiniteSet(part) /\ IsFiniteSet(all \ part)
      /\ part \cup (all \ part) = all /\ part \cap (all \ part) = {}
    <2>1. part \in SUBSET all /\ all \ part \in SUBSET all
        BY DEF Unmodified
    <2> QED BY <2>1, SubsetIsFinite DEF IsList
<1>3. \A k \in all : d[k] \in Int
    BY LineDiscountType DEF LineDiscounts
<1>4. SumFunctionOnSet(d, all \ part) = 0
    <2>1. SumFunctionOnSet(d, all \ part) = 0 * Cardinality(all \ part)
        BY <1>1, <1>2, SumOfEqual
    <2> QED BY <1>2, <2>1, FS_CardinalityType
<1>5. SumFunctionOnSet(d, part \cup (all \ part)) =
            SumFunctionOnSet(d, part) + SumFunctionOnSet(d, all \ part)
    <2>1. \A k \in part \cup (all \ part) : d[k] \in Int
        BY <1>2, <1>3
    <2> HIDE DEF d, all, part
    <2> QED BY <1>2, <2>1, SumUnion
<1>6. SumFunctionOnSet(d, part) \in Int
    BY <1>2, <1>3, SumType
<1> HIDE DEF d, all, part
<1>7. SumFunctionOnSet(d, all) = SumFunctionOnSet(d, part)
    BY <1>2, <1>4, <1>5, <1>6
<1> QED BY <1>1, <1>7 DEF d, all, part

-----------------------------------------------------------------------------
(* What is sent to a store: a line for each item, whatever it had.         *)

(* No line of the store is taken by two items.                             *)
LEMMA MatchesDiffer ==
    ASSUME NEW order, IsList(order.items), NEW lines,
           NEW k \in DOMAIN order.items, NEW n \in DOMAIN order.items, NEW id,
           id \in Matches(order, lines, k), id \in Matches(order, lines, n)
    PROVE  k = n
<1> DEFINE product == lines[id].product
           mine == {j \in DOMAIN order.items : order.items[j].product = product}
           theirs == {i \in DOMAIN lines : lines[i].product = product}
<1>1. order.items[k].product = product /\ Rank(k, mine) = Rank(id, theirs)
    BY DEF Matches
<1>2. order.items[n].product = product /\ Rank(n, mine) = Rank(id, theirs)
    BY DEF Matches
<1>3. k \in mine /\ n \in mine /\ Rank(k, mine) = Rank(n, mine)
    BY <1>1, <1>2
<1>4. IsFiniteSet(mine) /\ mine \subseteq Int
    BY SubsetIsFinite DEF IsList
<1> HIDE DEF mine
<1> QED BY <1>3, <1>4, RanksDiffer

Numbers(order, lines, from) ==
    [k \in DOMAIN order.items |-> Number(order, lines, from, k)]
(* What is sent names lines of the store, none above its last number.      *)
NamesKnown(order, lines, from) ==
    from \in Nat /\ \A id \in Paired(order, lines) : id \in Nat /\ id <= from

LEMMA NumberCases ==
    ASSUME NEW order, IsList(order.items), NEW lines, NEW from,
           NamesKnown(order, lines, from), NEW k \in DOMAIN order.items
    PROVE  /\ Number(order, lines, from, k) \in 0..(from + Cardinality(DOMAIN order.items))
           /\ \/ Number(order, lines, from, k) \in Matches(order, lines, k)
              \/ /\ Number(order, lines, from, k) = from + Rank(k, DOMAIN order.items)
                 /\ Number(order, lines, from, k) > from
<1>1. Rank(k, DOMAIN order.items) \in 1..Cardinality(DOMAIN order.items)
    BY RankType DEF IsList
<1>2. Cardinality(DOMAIN order.items) \in Nat
    BY FS_CardinalityType DEF IsList
<1>3. CASE Matches(order, lines, k) = {}
    BY <1>1, <1>2, <1>3 DEF Number, NamesKnown
<1>4. CASE Matches(order, lines, k) # {}
    <2>1. Number(order, lines, from, k) \in Matches(order, lines, k)
        BY <1>4 DEF Number
    <2>2. Number(order, lines, from, k) \in Paired(order, lines)
        BY <2>1 DEF Paired
    <2>3. Number(order, lines, from, k) \in Nat /\ Number(order, lines, from, k) <= from
            /\ from \in Nat
        BY <2>2 DEF NamesKnown
    <2> QED BY <1>2, <2>1, <2>3
<1> QED BY <1>3, <1>4

LEMMA NumbersDiffer ==
    ASSUME NEW order, IsList(order.items), NEW lines, NEW from,
           NamesKnown(order, lines, from),
           NEW k \in DOMAIN order.items, NEW n \in DOMAIN order.items,
           Number(order, lines, from, k) = Number(order, lines, from, n)
    PROVE  k = n
<1> DEFINE N(j) == Number(order, lines, from, j)
           Old(j) == N(j) \in Matches(order, lines, j)
           New(j) == N(j) = from + Rank(j, DOMAIN order.items) /\ N(j) > from
<1>1. (Old(k) \/ New(k)) /\ (Old(n) \/ New(n))
    BY NumberCases
<1>2. \A j \in DOMAIN order.items : Old(j) => N(j) \in Nat /\ N(j) <= from /\ from \in Nat
    BY DEF Paired, NamesKnown
<1>3. CASE Old(k) /\ Old(n)
    BY <1>3, MatchesDiffer
<1>4. CASE New(k) /\ New(n)
    <2>1. Rank(k, DOMAIN order.items) \in Nat /\ Rank(n, DOMAIN order.items) \in Nat
        <3>1. \A j \in DOMAIN order.items :
                Rank(j, DOMAIN order.items) \in 1..Cardinality(DOMAIN order.items)
            BY RankType DEF IsList
        <3>2. Cardinality(DOMAIN order.items) \in Nat
            BY FS_CardinalityType DEF IsList
        <3> QED BY <3>1, <3>2
    <2>2. from \in Nat
        BY DEF NamesKnown
    <2>3. Rank(k, DOMAIN order.items) = Rank(n, DOMAIN order.items)
        <3>1. from + Rank(k, DOMAIN order.items) = from + Rank(n, DOMAIN order.items)
            BY <1>4
        <3>2. \A a, b, c \in Nat : a + b = a + c => b = c
            OBVIOUS
        <3> QED BY <2>1, <2>2, <3>1, <3>2
    <2> QED BY <2>3, RanksDiffer DEF IsList
<1>5. ~(Old(k) /\ New(n)) /\ ~(Old(n) /\ New(k))
    BY <1>2
<1> HIDE DEF Old, New
<1> QED BY <1>1, <1>3, <1>4, <1>5

(* The line number[k] is what is sent for the k-th item.                   *)
IsSent(sent, number, order) ==
    /\ IsList(sent)
    /\ DOMAIN sent = {number[k] : k \in DOMAIN order.items}
    /\ \A k \in DOMAIN order.items : \A n \in DOMAIN order.items :
            number[k] = number[n] => k = n
    /\ \A k \in DOMAIN order.items :
        /\ sent[number[k]].product = order.items[k].product
        /\ sent[number[k]].price = order.items[k].price
        /\ sent[number[k]].quantity = order.items[k].quantity
        /\ sent[number[k]].total = Subtotal(order.items[k]) - LineDiscounts(order)[k]

LEMMA SentItems ==
    ASSUME NEW order, IsList(order.items), order.discount \in Int, NEW lines, NEW from,
           NamesKnown(order, lines, from)
    PROVE  /\ IsSent(SentLines(order, lines, from), Numbers(order, lines, from), order)
           /\ \A id \in DOMAIN SentLines(order, lines, from) :
                    id <= from + Cardinality(DOMAIN order.items)
<1> DEFINE sent == SentLines(order, lines, from)
           number == Numbers(order, lines, from)
           items == order.items
<1>1. DOMAIN sent = {number[k] : k \in DOMAIN items}
    BY DEF SentLines, Numbers
<1>2. ASSUME NEW k \in DOMAIN items
      PROVE  sent[number[k]] = ResolvedLine(order, k)
    <2> DEFINE at == CHOOSE n \in DOMAIN items : Number(order, lines, from, n) = number[k]
    <2>1. number[k] = Number(order, lines, from, k)
        BY DEF Numbers
    <2>2. at \in DOMAIN items /\ Number(order, lines, from, at) = number[k]
        BY <2>1
    <2>3. at = k
        <3> HIDE DEF at
        <3> QED BY <2>1, <2>2, NumbersDiffer
    <2>4. sent[number[k]] = ResolvedLine(order, at)
        BY <2>1 DEF SentLines
    <2> QED BY <2>3, <2>4
<1>3. ASSUME NEW k \in DOMAIN items
      PROVE  /\ ResolvedLine(order, k) \in Entry
             /\ ResolvedLine(order, k).product = items[k].product
             /\ ResolvedLine(order, k).price = items[k].price
             /\ ResolvedLine(order, k).quantity = items[k].quantity
             /\ ResolvedLine(order, k).total = Subtotal(items[k]) - LineDiscounts(order)[k]
    <2>1. items[k] \in Entry
        BY DEF IsList
    <2>2. LineDiscount(order, k) \in Int /\ Subtotal(items[k]) \in Int
        BY <2>1, LineDiscountType, EntryType
    <2>3. LineDiscounts(order)[k] = LineDiscount(order, k)
        BY DEF LineDiscounts
    <2> QED BY <2>1, <2>2, <2>3 DEF ResolvedLine, Entry
<1>4. \A k \in DOMAIN items : number[k] \in 0..(from + Cardinality(DOMAIN items))
    BY NumberCases DEF Numbers
<1>5. from + Cardinality(DOMAIN items) \in Nat
    BY FS_CardinalityType DEF NamesKnown, IsList
<1>6. IsFiniteSet(DOMAIN sent)
    <2>1. IsFiniteSet(0..(from + Cardinality(DOMAIN items)))
        BY <1>5, FS_Interval
    <2>2. DOMAIN sent \in SUBSET (0..(from + Cardinality(DOMAIN items)))
        BY <1>1, <1>4
    <2> QED BY <2>1, <2>2, SubsetIsFinite
<1> HIDE DEF sent, number
<1>7. IsList(sent)
    BY <1>1, <1>2, <1>3, <1>4, <1>5, <1>6 DEF IsList
<1>8. \A id \in DOMAIN sent : id <= from + Cardinality(DOMAIN items)
    BY <1>1, <1>4, <1>5
<1>9. \A k \in DOMAIN items :
        /\ sent[number[k]].product = items[k].product
        /\ sent[number[k]].price = items[k].price
        /\ sent[number[k]].quantity = items[k].quantity
        /\ sent[number[k]].total = Subtotal(items[k]) - LineDiscounts(order)[k]
    BY <1>2, <1>3
<1>10. \A k \in DOMAIN items : \A n \in DOMAIN items : number[k] = number[n] => k = n
    BY NumbersDiffer DEF number, Numbers
<1>11. IsSent(sent, number, order)
    BY <1>1, <1>7, <1>9, <1>10 DEF IsSent
<1> QED BY <1>8, <1>11 DEF sent, number

(* The sums over some of the lines are those over their items.             *)
LEMMA SentSums ==
    ASSUME NEW order, IsList(order.items), order.discount \in Int,
           NEW sent, NEW number, IsSent(sent, number, order),
           NEW S \in SUBSET DOMAIN order.items, NEW T, T = {number[k] : k \in S}
    PROVE  /\ SumFunctionOnSet(Costs(sent), T) = SumFunctionOnSet(Costs(order.items), S)
           /\ SumFunctionOnSet(Totals(sent), T) =
                    SumFunctionOnSet(Costs(order.items), S)
                        - SumFunctionOnSet(LineDiscounts(order), S)
<1> DEFINE items == order.items
           net == [k \in DOMAIN items |-> Costs(items)[k] - LineDiscounts(order)[k]]
<1>1. \A k \in DOMAIN items :
            /\ number[k] \in DOMAIN sent
            /\ sent[number[k]].price = items[k].price
            /\ sent[number[k]].quantity = items[k].quantity
            /\ sent[number[k]].total = Subtotal(items[k]) - LineDiscounts(order)[k]
    BY DEF IsSent
<1>2. \A k \in S : \A n \in S : number[k] = number[n] => k = n
    BY DEF IsSent
<1>3. IsFiniteSet(S)
    BY SubsetIsFinite DEF IsList
<1>4. \A k \in S : Costs(items)[k] \in Int /\ LineDiscounts(order)[k] \in Int
    BY PartsType, LineDiscountType DEF LineDiscounts
<1>5. \A k \in S : Costs(items)[k] = Costs(sent)[number[k]]
    BY <1>1 DEF Costs, Subtotal
<1>6. \A k \in S : net[k] \in Int /\ net[k] = Totals(sent)[number[k]]
    <2> SUFFICES ASSUME NEW k \in S
                 PROVE  net[k] \in Int /\ net[k] = Totals(sent)[number[k]]
        OBVIOUS
    <2>1. Totals(sent)[number[k]] = Subtotal(items[k]) - LineDiscounts(order)[k]
        BY <1>1 DEF Totals
    <2>2. net[k] = Costs(items)[k] - LineDiscounts(order)[k]
        OBVIOUS
    <2>3. Costs(items)[k] = Subtotal(items[k])
        BY DEF Costs
    <2> HIDE DEF net
    <2> QED BY <1>4, <2>1, <2>2, <2>3
<1>7. SumFunctionOnSet(Costs(items), S) = SumFunctionOnSet(Costs(sent), T)
    BY <1>2, <1>3, <1>4, <1>5, SumRenamed
<1>8. SumFunctionOnSet(net, S) = SumFunctionOnSet(Totals(sent), T)
    <2> HIDE DEF net
    <2> QED BY <1>2, <1>3, <1>6, SumRenamed
<1>9. SumFunctionOnSet(Costs(items), S) =
        SumFunctionOnSet(net, S) + SumFunctionOnSet(LineDiscounts(order), S)
    <2>1. \A k \in S : Costs(items)[k] = net[k] + LineDiscounts(order)[k]
        BY <1>4
    <2> HIDE DEF net
    <2> QED BY <1>3, <1>4, <1>6, <2>1, SumPlus
<1>10. SumFunctionOnSet(net, S) \in Int /\ SumFunctionOnSet(LineDiscounts(order), S) \in Int
    <2> HIDE DEF net
    <2> QED BY <1>3, <1>4, <1>6, SumType
<1> HIDE DEF net
<1> QED BY <1>7, <1>8, <1>9, <1>10

(* What of an order's discount reaches its lines.                          *)
Distributed(order) ==
    IF order.discount <= 0 \/ Cost(Eligible(order.items)) = 0 THEN 0 ELSE order.discount

LEMMA SentCharge ==
    ASSUME NEW order, IsList(order.items), order.discount \in Int,
           NEW sent, NEW number, IsSent(sent, number, order)
    PROVE  Charge(sent) = Cost(order.items) - Distributed(order)
<1> DEFINE all == DOMAIN order.items
<1>1. /\ Charge(sent) = SumFunctionOnSet(Totals(sent), DOMAIN sent)
      /\ Cost(order.items) = SumFunctionOnSet(Costs(order.items), all)
    BY PartsType DEF IsSent
<1>2. all \in SUBSET all /\ DOMAIN sent = {number[k] : k \in all}
    BY DEF IsSent
<1>3. SumFunctionOnSet(Totals(sent), DOMAIN sent) =
        SumFunctionOnSet(Costs(order.items), all) - SumFunctionOnSet(LineDiscounts(order), all)
    <2> HIDE DEF all
    <2> QED BY <1>2, SentSums DEF all
<1>4. SumFunctionOnSet(LineDiscounts(order), all) = Distributed(order)
    BY UndiscountedLines, DiscountIsDistributed DEF Distributed
<1> QED BY <1>1, <1>3, <1>4

(* What is lowered is charged in full, and the rest bears the discount.    *)
LEMMA SentRule ==
    ASSUME NEW order, IsList(order.items), order.discount \in Int,
           NEW sent, NEW number, IsSent(sent, number, order)
    PROVE  LET lowered == Restrict(sent, {i \in DOMAIN sent : Modified(sent[i])})
               others == Restrict(sent, {i \in DOMAIN sent : ~Modified(sent[i])})
           IN  /\ Charge(lowered) = Cost(lowered)
               /\ Cost(others) = Cost(Eligible(order.items))
               /\ Cost(others) - Charge(others) = Distributed(order)
<1> DEFINE items == order.items
           low == {i \in DOMAIN sent : Modified(sent[i])}
           high == {i \in DOMAIN sent : ~Modified(sent[i])}
           part == Unmodified(items)
           full == DOMAIN items \ part
<1>1. \A k \in DOMAIN items : Modified(sent[number[k]]) <=> Modified(items[k])
    BY DEF Modified, IsSent
<1>2. low = {number[k] : k \in full} /\ high = {number[k] : k \in part}
    BY <1>1 DEF IsSent, Unmodified
<1>3. part \in SUBSET DOMAIN items /\ full \in SUBSET DOMAIN items
    BY DEF Unmodified
<1>4. low \in SUBSET DOMAIN sent /\ high \in SUBSET DOMAIN sent /\ IsList(sent)
    BY DEF IsSent
<1>5. /\ Cost(Restrict(sent, low)) = SumFunctionOnSet(Costs(sent), low)
      /\ Charge(Restrict(sent, low)) = SumFunctionOnSet(Totals(sent), low)
      /\ Cost(Restrict(sent, high)) = SumFunctionOnSet(Costs(sent), high)
      /\ Charge(Restrict(sent, high)) = SumFunctionOnSet(Totals(sent), high)
    <2> HIDE DEF low, high
    <2> QED BY <1>4, RestrictedParts
<1>6. /\ SumFunctionOnSet(Costs(sent), low) = SumFunctionOnSet(Costs(items), full)
      /\ SumFunctionOnSet(Totals(sent), low) = SumFunctionOnSet(Costs(items), full)
                - SumFunctionOnSet(LineDiscounts(order), full)
      /\ SumFunctionOnSet(Costs(sent), high) = SumFunctionOnSet(Costs(items), part)
      /\ SumFunctionOnSet(Totals(sent), high) = SumFunctionOnSet(Costs(items), part)
                - SumFunctionOnSet(LineDiscounts(order), part)
    <2> HIDE DEF low, high, part, full
    <2>1. /\ SumFunctionOnSet(Costs(sent), low) = SumFunctionOnSet(Costs(items), full)
          /\ SumFunctionOnSet(Totals(sent), low) = SumFunctionOnSet(Costs(items), full)
                - SumFunctionOnSet(LineDiscounts(order), full)
        BY <1>2, <1>3, SentSums
    <2>2. /\ SumFunctionOnSet(Costs(sent), high) = SumFunctionOnSet(Costs(items), part)
          /\ SumFunctionOnSet(Totals(sent), high) = SumFunctionOnSet(Costs(items), part)
                - SumFunctionOnSet(LineDiscounts(order), part)
        BY <1>2, <1>3, SentSums
    <2> QED BY <2>1, <2>2
<1>7. SumFunctionOnSet(LineDiscounts(order), full) = 0
    <2>1. \A k \in full : LineDiscounts(order)[k] = 0
        BY UndiscountedLines
    <2>2. IsFiniteSet(full)
        BY <1>3, SubsetIsFinite DEF IsList
    <2>3. SumFunctionOnSet(LineDiscounts(order), full) = 0 * Cardinality(full)
        <3> HIDE DEF full
        <3> QED BY <2>1, <2>2, SumOfEqual
    <2> QED BY <2>2, <2>3, FS_CardinalityType
<1>8. SumFunctionOnSet(LineDiscounts(order), part) = Distributed(order)
    BY DiscountIsDistributed DEF Distributed
<1>9. /\ SumFunctionOnSet(Costs(items), full) \in Int
      /\ SumFunctionOnSet(Costs(items), part) \in Int
      /\ SumFunctionOnSet(LineDiscounts(order), part) \in Int
    <2>1. IsFiniteSet(full) /\ IsFiniteSet(part)
        BY <1>3, SubsetIsFinite DEF IsList
    <2>2. \A k \in DOMAIN items : Costs(items)[k] \in Int /\ LineDiscounts(order)[k] \in Int
        BY PartsType, LineDiscountType DEF LineDiscounts
    <2> HIDE DEF full, part
    <2> QED BY <1>3, <2>1, <2>2, SumType
<1>10. Cost(Eligible(items)) = SumFunctionOnSet(Costs(items), part)
    BY EligibleCost
<1>11. Charge(Restrict(sent, low)) = Cost(Restrict(sent, low))
    <2> HIDE DEF low, high, part, full
    <2> QED BY <1>5, <1>6, <1>7, <1>9
<1>12. /\ Cost(Restrict(sent, high)) = Cost(Eligible(items))
       /\ Cost(Restrict(sent, high)) - Charge(Restrict(sent, high)) = Distributed(order)
    <2> HIDE DEF low, high, part, full
    <2>1. \A a, b \in Int : a - (a - b) = b
        OBVIOUS
    <2> QED BY <1>5, <1>6, <1>8, <1>9, <1>10, <2>1
<1> QED BY <1>11, <1>12

-----------------------------------------------------------------------------
(* A form: its items and its shipping are divided among the stores.        *)

IsForm(form) ==
    /\ DOMAIN form \in SUBSET Nat /\ IsFiniteSet(DOMAIN form) /\ DOMAIN form # {}
    /\ \A i \in DOMAIN form :
        form[i] \in [product : Product, quantity : Nat, price : Nat]

LEMMA FormsAreForms == ASSUME NEW form \in Forms PROVE IsForm(form)
<1> DEFINE Asked == [product : Product, quantity : Nat, price : Nat]
<1>1. form \in Seq(Asked) /\ form # << >>
    BY AmountsAssumption
<1>2. DOMAIN form = 1..Len(form) /\ Len(form) \in Nat /\ Len(form) # 0
        /\ \A i \in DOMAIN form : form[i] \in Asked
    <2> HIDE DEF Asked
    <2> QED BY <1>1
<1>3. IsFiniteSet(1..Len(form))
    BY <1>2, FS_Interval
<1>4. 1 \in DOMAIN form /\ DOMAIN form \in SUBSET Nat
    BY <1>2
<1> QED BY <1>2, <1>3, <1>4 DEF IsForm

LEMMA StoresAreFinite ==
    /\ IsFiniteSet(Stores) /\ Cardinality(Stores) \in Nat /\ Cardinality(Stores) <= 2
<1>1. IsFiniteSet(Product)
    BY AmountsAssumption
<1>2. IsFiniteSet({StoreOf[p] : p \in Product})
    BY <1>1, ImageIsFinite
<1> QED BY <1>2, FS_CardinalityType, AmountsAssumption DEF Stores

LEMMA FirstIsOfStore ==
    ASSUME NEW form, IsForm(form), NEW s \in StoresIn(form)
    PROVE  First(form, s) \in DOMAIN form /\ StoreOf[form[First(form, s)].product] = s
<1> DEFINE mine == ItemsIn(form, s)
<1>1. mine # {} /\ mine \in SUBSET DOMAIN form
    BY DEF StoresIn, ItemsIn
<1>2. IsFiniteSet(mine) /\ mine \subseteq Int
    BY <1>1, SubsetIsFinite DEF IsForm
<1>3. \E i \in mine : \A j \in mine : i <= j
    <2> HIDE DEF mine
    <2> QED BY <1>1, <1>2, Least
<1>4. First(form, s) \in mine
    BY <1>3 DEF First
<1> QED BY <1>4 DEF ItemsIn

LEMMA OneIsLast ==
    ASSUME NEW form, IsForm(form)
    PROVE  /\ StoresIn(form) # {} /\ IsFiniteSet(StoresIn(form))
           /\ \E s \in StoresIn(form) :
                /\ IsLast(form, s)
                /\ \A t \in StoresIn(form) \ {s} : ~IsLast(form, t)
<1> DEFINE in == StoresIn(form)
           firsts == {First(form, s) : s \in in}
<1>1. IsFiniteSet(in)
    BY StoresAreFinite, SubsetIsFinite DEF StoresIn
<1>2. in # {}
    <2>1. PICK i : i \in DOMAIN form
        BY DEF IsForm
    <2>2. StoreOf[form[i].product] \in Stores
        BY <2>1 DEF IsForm, Stores
    <2> QED BY <2>1, <2>2 DEF StoresIn, ItemsIn
<1>3. \A s \in in : First(form, s) \in Int /\ \A t \in in : First(form, s) = First(form, t) => s = t
    BY FirstIsOfStore DEF IsForm
<1>4. firsts # {} /\ firsts \subseteq Int
    BY <1>2, <1>3
<1>5. IsFiniteSet(firsts)
    <2> DEFINE f == [s \in in |-> First(form, s)]
    <2>1. {f[s] : s \in in} = firsts
        OBVIOUS
    <2> HIDE DEF f
    <2> QED BY <1>1, <2>1, ImageIsFinite
<1>6. PICK m \in firsts : \A x \in firsts : x <= m
    <2> HIDE DEF firsts
    <2> QED BY <1>4, <1>5, Greatest
<1>7. PICK s \in in : m = First(form, s)
    OBVIOUS
<1>8. IsLast(form, s)
    BY <1>6, <1>7 DEF IsLast
<1>9. ASSUME NEW t \in in \ {s} PROVE ~IsLast(form, t)
    <2>1. First(form, t) <= First(form, s) /\ First(form, t) # First(form, s)
        BY <1>3, <1>6, <1>7
    <2> QED BY <1>3, <2>1 DEF IsLast
<1> QED BY <1>1, <1>2, <1>8, <1>9

LEMMA SharesAddUp ==
    ASSUME NEW form, IsForm(form), NEW total \in Nat,
           NEW share, \A s \in StoresIn(form) :
                share[s] = Share(total, Cardinality(StoresIn(form)), IsLast(form, s))
    PROVE  /\ SumFunctionOnSet(share, StoresIn(form)) = total
           /\ \A s \in StoresIn(form) : share[s] \in Nat
<1> DEFINE in == StoresIn(form)
           n == Cardinality(in)
           r == Rounded(total, n)
<1>1. in # {} /\ IsFiniteSet(in)
    BY OneIsLast
<1>2. n \in Nat /\ n > 0
    BY <1>1, FS_CardinalityType, FS_EmptySet
<1>3. n <= 2
    <2>1. in \in SUBSET Stores
        BY DEF StoresIn
    <2>2. n <= Cardinality(Stores)
        <3> HIDE DEF in
        <3> QED BY <2>1, StoresAreFinite, SubsetIsFinite
    <2> HIDE DEF n
    <2> QED BY <1>2, <2>2, StoresAreFinite
<1>4. r \in Nat
    <2> HIDE DEF n
    <2> QED BY <1>2, RoundedIsNat
<1>5. PICK last \in in : IsLast(form, last) /\ \A t \in in \ {last} : ~IsLast(form, t)
    BY OneIsLast
<1>6. share[last] = total - (n - 1) * r
    BY <1>5 DEF Share
<1>7. \A t \in in \ {last} : share[t] = r
    BY <1>5 DEF Share
<1> HIDE DEF in, n, r
<1>8. (n - 1) * r \in Int /\ (n - 1) * r = r * (n - 1)
    BY <1>2, <1>4
<1>9. \A t \in in : share[t] \in Int
    <2>1. share[last] \in Int
        BY <1>6, <1>8
    <2> QED BY <1>4, <1>5, <1>7, <2>1
<1>10. IsFiniteSet(in \ {last}) /\ Cardinality(in \ {last}) = n - 1
    BY <1>1, <1>5, FS_RemoveElement DEF n
<1>11. SumFunctionOnSet(share, in \ {last}) = r * (n - 1)
    BY <1>4, <1>7, <1>10, SumOfEqual
<1>12. SumFunctionOnSet(share, in) = share[last] + SumFunctionOnSet(share, in \ {last})
    BY <1>1, <1>5, <1>9, SumRemoves
<1>13. SumFunctionOnSet(share, in) = total
    <2>1. \A a, b \in Int : (a - b) + b = a
        OBVIOUS
    <2> QED BY <1>6, <1>8, <1>11, <1>12, <2>1
<1>14. share[last] \in Nat
    <2>1. CASE n = 1
        <3>1. (n - 1) * r = 0
            BY <1>4, <2>1
        <3> QED BY <1>6, <3>1
    <2>2. CASE n = 2
        <3>1. (n - 1) * r = r
            BY <1>4, <2>2
        <3>2. 2 * (2 * r - total) <= 2
            BY <2>2, RoundedIsClose DEF r
        <3>3. r <= total
            BY <1>4, <3>2
        <3> QED BY <1>4, <1>6, <3>1, <3>3
    <2> QED BY <1>2, <1>3, <2>1, <2>2
<1>15. \A s \in in : share[s] \in Nat
    BY <1>4, <1>7, <1>14
<1> QED BY <1>13, <1>15 DEF in

-----------------------------------------------------------------------------
(* The invariant.                                                          *)

(* A row adds up, and knows where its discount comes from: from the coupon *)
(* of the operation, on items that are sold at their prices, or from what  *)
(* the store charged for each.                                             *)
FromCoupon(row, percent) ==
    /\ row.coupons = {percent} /\ percent \in Nat
    /\ row.discount = Discount(row.items, percent)
    /\ \A i \in DOMAIN row.items : row.items[i].total = Subtotal(row.items[i])
FromStore(row) ==
    /\ row.coupons = {}
    /\ row.discount = Cost(row.items) - Charge(row.items)
IsRow(row) ==
    /\ IsList(row.items)
    /\ \A i \in DOMAIN row.items : row.items[i].total \in Nat
    /\ row.discount \in Nat /\ row.shipping \in Nat
    /\ row.total = Cost(row.items) - row.discount + row.shipping
    /\ FromStore(row) \/ \E percent \in Nat : FromCoupon(row, percent)

(* A store numbers its lines in the order in which they come.              *)
IsShelf(order) ==
    /\ order = [lines |-> order.lines, shippings |-> order.shippings, lastId |-> order.lastId]
    /\ IsList(order.lines) /\ order.shippings \in Seq(Int) /\ order.lastId \in Nat
    /\ \A id \in DOMAIN order.lines : id <= order.lastId

-----------------------------------------------------------------------------
(* A form that is saved: its rows, and the operation that they add up to.  *)

LEMMA DiscountType ==
    ASSUME NEW items, IsList(items), NEW percent \in Nat
    PROVE  Discount(items, percent) \in Nat
<1> DEFINE whole == Cost(Eligible(items))
<1>1. whole \in Nat
    BY EligibleCost
<1>2. whole * percent \in Nat
    <2> HIDE DEF whole
    <2> QED BY <1>1
<1>3. Rounded(whole * percent, 100) \in Nat
    <2> HIDE DEF whole
    <2> QED BY <1>2, RoundedIsNat
<1> QED BY <1>3 DEF Discount

LEMMA PreparedRowIsRow ==
    ASSUME NEW form, IsForm(form), NEW percent \in Nat, NEW total \in Nat,
           NEW s \in StoresIn(form), NEW row, row = PreparedRow(form, percent, total, s)
    PROVE  /\ IsRow(row) /\ FromCoupon(row, percent) /\ row # NoOrder
           /\ DOMAIN row.items = ItemsIn(form, s)
           /\ \A i \in ItemsIn(form, s) : Costs(row.items)[i] = Subtotal(form[i])
           /\ row.shipping = Share(total, Cardinality(StoresIn(form)), IsLast(form, s))
<1> DEFINE mine == ItemsIn(form, s)
           items == [i \in mine |-> PreparedItem(form[i])]
           share == [t \in StoresIn(form) |->
                        Share(total, Cardinality(StoresIn(form)), IsLast(form, t))]
           amount == Cost(items) - Discount(items, percent) + share[s]
<1>1. mine \in SUBSET DOMAIN form
    BY DEF ItemsIn
<1>2. mine \in SUBSET Nat /\ IsFiniteSet(mine)
    BY <1>1, SubsetIsFinite DEF IsForm
<1>3. ASSUME NEW i \in mine
      PROVE  /\ items[i] \in Entry /\ items[i].total = Subtotal(items[i])
             /\ Subtotal(items[i]) = Subtotal(form[i]) /\ items[i].total \in Nat
    <2>1. form[i] \in [product : Product, quantity : Nat, price : Nat]
        BY <1>1 DEF IsForm
    <2>2. items[i] = [product |-> form[i].product, quantity |-> form[i].quantity,
                      price |-> form[i].price, total |-> Subtotal(form[i])]
        BY DEF PreparedItem
    <2>3. Subtotal(form[i]) \in Nat
        BY <2>1, SubtotalType
    <2>4. Subtotal(items[i]) = Subtotal(form[i])
        BY <2>2 DEF Subtotal
    <2>5. items[i] \in Entry
        BY <2>1, <2>2, <2>3 DEF Entry
    <2> QED BY <2>2, <2>3, <2>4, <2>5
<1>4. DOMAIN items = mine
    OBVIOUS
<1>5. IsList(items)
    <2> HIDE DEF items, mine
    <2> QED BY <1>2, <1>3, <1>4 DEF IsList
<1>6. Discount(items, percent) \in Nat
    <2> HIDE DEF items
    <2> QED BY <1>5, DiscountType
<1>7. share[s] \in Nat
    <2>1. \A t \in StoresIn(form) :
            share[t] = Share(total, Cardinality(StoresIn(form)), IsLast(form, t))
        OBVIOUS
    <2> HIDE DEF share
    <2> QED BY <2>1, SharesAddUp
<1>8. share[s] = Share(total, Cardinality(StoresIn(form)), IsLast(form, s))
    OBVIOUS
<1>9. row = [items |-> items, discount |-> Discount(items, percent), shipping |-> share[s],
             total |-> amount, coupons |-> {percent}]
    BY <1>8 DEF PreparedRow, RowTotal
<1> HIDE DEF items, share
<1>10. /\ row.items = items /\ row.discount = Discount(items, percent)
       /\ row.shipping = share[s] /\ row.total = amount /\ row.coupons = {percent}
    BY <1>9
<1>11. row # NoOrder
    BY <1>9 DEF NoOrder
<1> HIDE DEF amount, mine
<1>12. FromCoupon(row, percent)
    BY <1>3, <1>4, <1>10 DEF FromCoupon
<1>13. row.total = Cost(row.items) - row.discount + row.shipping
    BY <1>10 DEF amount
<1>14. IsRow(row)
    <2>1. \A i \in DOMAIN items : items[i].total \in Nat
        BY <1>3, <1>4
    <2> HIDE DEF FromCoupon
    <2> QED BY <1>5, <1>6, <1>7, <1>10, <1>12, <1>13, <2>1 DEF IsRow
<1>15. \A i \in mine : Costs(items)[i] = Subtotal(form[i])
    BY <1>3, <1>4 DEF Costs
<1> QED BY <1>4, <1>8, <1>10, <1>11, <1>12, <1>14, <1>15 DEF mine

(* What the items of a form cost is what those of its rows cost.           *)
IsCostIn(form, s, cost) ==
    \E items :
        /\ IsList(items) /\ DOMAIN items = ItemsIn(form, s)
        /\ \A i \in ItemsIn(form, s) : Costs(items)[i] = Subtotal(form[i])
        /\ cost = Cost(items)

LEMMA CostByStore ==
    ASSUME NEW form, IsForm(form), NEW cost,
           \A s \in StoresIn(form) : IsCostIn(form, s, cost[s])
    PROVE  Cost(form) = SumFunctionOnSet(cost, StoresIn(form))
<1> DEFINE f == Costs(form)
           all == DOMAIN form
           store == [i \in all |-> StoreOf[form[i].product]]
           in == StoresIn(form)
<1>1. \A i \in all : f[i] = Subtotal(form[i]) /\ f[i] \in Int
    <2> SUFFICES ASSUME NEW i \in all PROVE f[i] = Subtotal(form[i]) /\ f[i] \in Int
        OBVIOUS
    <2>1. f[i] = Subtotal(form[i])
        BY DEF Costs
    <2> QED BY <2>1, SubtotalType DEF IsForm
<1>2. IsFiniteSet(all) /\ IsFiniteSet(in)
    BY OneIsLast DEF IsForm
<1>3. \A i \in all : store[i] \in in
    <2> SUFFICES ASSUME NEW i \in all PROVE store[i] \in in
        OBVIOUS
    <2>1. store[i] = StoreOf[form[i].product] /\ form[i].product \in Product
        BY DEF IsForm
    <2>2. store[i] \in Stores /\ i \in ItemsIn(form, store[i])
        BY <2>1 DEF Stores, ItemsIn
    <2> HIDE DEF store
    <2> QED BY <2>2 DEF StoresIn
<1>4. ASSUME NEW s \in in
      PROVE  cost[s] = SumFunctionOnSet(f, {i \in all : store[i] = s})
    <2> DEFINE mine == {i \in all : store[i] = s}
    <2>1. mine = ItemsIn(form, s)
        BY DEF ItemsIn
    <2>2. PICK items : /\ IsList(items) /\ DOMAIN items = mine
                       /\ \A i \in mine : Costs(items)[i] = Subtotal(form[i])
                       /\ cost[s] = Cost(items)
        BY <2>1 DEF IsCostIn
    <2>3. cost[s] = SumFunctionOnSet(Costs(items), mine)
        BY <2>2, PartsType
    <2>4. IsFiniteSet(mine) /\ mine \in SUBSET all
        BY <1>2, SubsetIsFinite
    <2>5. \A i \in mine : Costs(items)[i] \in Int /\ Costs(items)[i] = f[i]
        <3> HIDE DEF f
        <3> QED BY <1>1, <2>2, <2>4
    <2>6. SumFunctionOnSet(Costs(items), mine) = SumFunctionOnSet(f, mine)
        <3> HIDE DEF f, mine
        <3> QED BY <2>4, <2>5, SumAgrees
    <2> QED BY <2>3, <2>6
<1>5. SumFunctionOnSet(f, all) = SumFunctionOnSet(cost, in)
    <2> HIDE DEF f, all, store, in
    <2> QED BY <1>1, <1>2, <1>3, <1>4, SumByGroup
<1>6. Cost(form) = SumFunctionOnSet(f, all)
    BY DEF Cost, Costs, SumFunction
<1> QED BY <1>5, <1>6

LEMMA FormCost == ASSUME NEW form, IsForm(form) PROVE Cost(form) \in Nat
<1>1. \A i \in DOMAIN form : Costs(form)[i] \in Nat
    <2> SUFFICES ASSUME NEW i \in DOMAIN form PROVE Costs(form)[i] \in Nat
        OBVIOUS
    <2>1. Costs(form)[i] = Subtotal(form[i])
        BY DEF Costs
    <2> QED BY <2>1, SubtotalType DEF IsForm
<1>2. SumFunctionOnSet(Costs(form), DOMAIN form) \in Nat
    BY <1>1, SumIsNat DEF IsForm
<1>3. Cost(form) = SumFunctionOnSet(Costs(form), DOMAIN form)
    BY DEF Cost, Costs, SumFunction
<1> QED BY <1>2, <1>3

(* The rows of a form add up to the operation, to the cent.                *)
LEMMA FormAddsUp ==
    ASSUME NEW form, IsForm(form), NEW percent \in Nat, NEW total \in Nat,
           NEW rows, \A s \in StoresIn(form) : rows[s] = PreparedRow(form, percent, total, s),
           NEW discounts, discounts = SumFunction([s \in StoresIn(form) |-> rows[s].discount])
    PROVE  /\ SumFunction([s \in StoresIn(form) |-> rows[s].shipping]) = total
           /\ SumFunction([s \in StoresIn(form) |-> rows[s].total]) =
                    Cost(form) + total - discounts
           /\ Cost(form) + total - discounts \in Int
<1> DEFINE in == StoresIn(form)
           d == [s \in in |-> rows[s].discount]
           h == [s \in in |-> rows[s].shipping]
           a == [s \in in |-> rows[s].total]
           cost == [s \in in |-> Cost(rows[s].items)]
           net == [s \in in |-> rows[s].total + rows[s].discount]
<1>1. IsFiniteSet(in)
    BY OneIsLast
<1>2. ASSUME NEW s \in in
      PROVE  /\ IsRow(rows[s])
             /\ IsCostIn(form, s, cost[s])
             /\ h[s] = Share(total, Cardinality(in), IsLast(form, s))
    <2>1. rows[s] = PreparedRow(form, percent, total, s)
        OBVIOUS
    <2>2. /\ IsRow(rows[s]) /\ DOMAIN rows[s].items = ItemsIn(form, s)
          /\ \A i \in ItemsIn(form, s) : Costs(rows[s].items)[i] = Subtotal(form[i])
          /\ rows[s].shipping = Share(total, Cardinality(in), IsLast(form, s))
        BY <2>1, PreparedRowIsRow
    <2>3. cost[s] = Cost(rows[s].items) /\ h[s] = rows[s].shipping
        OBVIOUS
    <2>4. IsList(rows[s].items)
        BY <2>2 DEF IsRow
    <2> HIDE DEF cost, h
    <2>5. IsCostIn(form, s, cost[s])
        BY <2>2, <2>3, <2>4 DEF IsCostIn
    <2> QED BY <2>2, <2>3, <2>5
<1>3. ASSUME NEW s \in in
      PROVE  /\ d[s] \in Int /\ h[s] \in Int /\ a[s] \in Int /\ cost[s] \in Int
             /\ net[s] = cost[s] + h[s] /\ net[s] = a[s] + d[s]
    <2>1. d[s] = rows[s].discount /\ h[s] = rows[s].shipping /\ a[s] = rows[s].total
            /\ cost[s] = Cost(rows[s].items) /\ net[s] = rows[s].total + rows[s].discount
        OBVIOUS
    <2>2. rows[s].discount \in Nat /\ rows[s].shipping \in Nat /\ IsList(rows[s].items)
            /\ rows[s].total = Cost(rows[s].items) - rows[s].discount + rows[s].shipping
        BY <1>2 DEF IsRow
    <2>3. Cost(rows[s].items) \in Nat
        BY <2>2, PartsType
    <2> HIDE DEF d, h, a, cost, net
    <2> QED BY <2>1, <2>2, <2>3
<1> HIDE DEF d, h, a, cost, net
<1>4. SumFunctionOnSet(h, in) = total
    BY <1>2, SharesAddUp DEF in
<1>5. Cost(form) = SumFunctionOnSet(cost, in)
    BY <1>2, CostByStore DEF in
<1>6. SumFunctionOnSet(net, in) = SumFunctionOnSet(cost, in) + SumFunctionOnSet(h, in)
    BY <1>1, <1>3, SumPlus
<1>7. SumFunctionOnSet(net, in) = SumFunctionOnSet(a, in) + SumFunctionOnSet(d, in)
    BY <1>1, <1>3, SumPlus
<1>8. /\ SumFunctionOnSet(a, in) \in Int /\ SumFunctionOnSet(d, in) \in Int
      /\ SumFunctionOnSet(cost, in) \in Int
    BY <1>1, <1>3, SumType
<1>9. /\ discounts = SumFunctionOnSet(d, in)
      /\ SumFunction([s \in in |-> rows[s].total]) = SumFunctionOnSet(a, in)
      /\ SumFunction([s \in in |-> rows[s].shipping]) = SumFunctionOnSet(h, in)
    BY DEF SumFunction, a, d, h
<1>10. \A x, y, c \in Int : \A t \in Nat : c + t = x + y => x = c + t - y /\ c + t - y \in Int
    OBVIOUS
<1>11. SumFunctionOnSet(cost, in) + total = SumFunctionOnSet(a, in) + SumFunctionOnSet(d, in)
    BY <1>4, <1>6, <1>7
<1>12. SumFunctionOnSet(a, in) = Cost(form) + total - discounts
        /\ Cost(form) + total - discounts \in Int
    BY <1>5, <1>8, <1>9, <1>10, <1>11
<1> QED BY <1>4, <1>9, <1>12 DEF in

-----------------------------------------------------------------------------
(* What a store holds.                                                     *)

(* The shipping of an order reaches the store whole, unless it had split   *)
(* its own over several lines.                                             *)
LEMMA ShippingArrives ==
    ASSUME NEW order, order.shipping \in Nat, NEW shippings \in Seq(Int),
           NEW lines, lines = ShippingLines(order, shippings)
    PROVE  /\ lines \in Seq(Int)
           /\ Len(lines) <= 1 => SumFunction(lines) = order.shipping
<1> DEFINE n == Len(shippings)
<1>1. n \in Nat /\ DOMAIN shippings = 1..n
    OBVIOUS
<1>2. CASE shippings # << >>
    <2>1. lines = [shippings EXCEPT ![1] = order.shipping]
        BY <1>2 DEF ShippingLines
    <2>2. n > 0 /\ 1 \in DOMAIN shippings
        BY <1>1, <1>2
    <2>3. lines \in Seq(Int) /\ Len(lines) = n /\ lines[1] = order.shipping
            /\ DOMAIN lines = 1..n
        BY <2>1, <2>2
    <2>4. ASSUME n <= 1 PROVE SumFunction(lines) = order.shipping
        <3>1. n = 1
            BY <1>1, <2>2, <2>4
        <3>2. DOMAIN lines = {1}
            BY <2>3, <3>1
        <3>3. lines[1] \in Int
            BY <2>3
        <3>4. SumFunctionOnSet(lines, {1}) = lines[1]
            BY <3>3, SumOfOne
        <3> QED BY <2>3, <3>2, <3>4 DEF SumFunction
    <2> QED BY <2>3, <2>4
<1>3. CASE shippings = << >> /\ order.shipping > 0
    <2>1. lines = <<order.shipping>>
        BY <1>3 DEF ShippingLines
    <2>2. lines \in Seq(Int) /\ DOMAIN lines = {1} /\ lines[1] = order.shipping
        BY <2>1
    <2>3. SumFunctionOnSet(lines, {1}) = lines[1]
        BY <2>2, SumOfOne
    <2> QED BY <2>2, <2>3 DEF SumFunction
<1>4. CASE shippings = << >> /\ ~(order.shipping > 0)
    <2>1. lines = << >> /\ order.shipping = 0
        BY <1>4 DEF ShippingLines
    <2>2. lines \in Seq(Int) /\ DOMAIN lines = {}
        BY <2>1
    <2> QED BY <2>1, <2>2, SumEmpty DEF SumFunction
<1> QED BY <1>2, <1>3, <1>4

LEMMA SumIsZero ==
    ASSUME NEW f, NEW S, IsFiniteSet(S), \A x \in S : f[x] \in Nat,
           SumFunctionOnSet(f, S) = 0, NEW x \in S
    PROVE  f[x] = 0
<1>1. \A y \in S : f[y] \in Int
    OBVIOUS
<1>2. SumFunctionOnSet(f, S) = f[x] + SumFunctionOnSet(f, S \ {x})
    BY <1>1, SumRemoves
<1>3. IsFiniteSet(S \ {x}) /\ \A y \in S \ {x} : f[y] \in Nat
    BY FS_RemoveElement
<1>4. SumFunctionOnSet(f, S \ {x}) \in Nat
    BY <1>3, SumIsNat
<1>5. f[x] \in Nat
    OBVIOUS
<1> QED BY <1>2, <1>4, <1>5

(* A store whose every item was lowered, or costs nothing, has no line     *)
(* that its discount could be taken from.                                  *)
NothingToDiscount(row) ==
    /\ row.coupons = {}
    /\ \A i \in DOMAIN row.items :
        LET item == row.items[i] IN Modified(item) \/ Subtotal(item) = 0

LEMMA DiscountArrives ==
    ASSUME NEW row, IsRow(row)
    PROVE  Distributed(row) = row.discount \/ NothingToDiscount(row)
<1> DEFINE items == row.items
           whole == Cost(Eligible(items))
<1>1. IsList(items) /\ row.discount \in Nat
    BY DEF IsRow
<1>2. CASE row.discount <= 0
    BY <1>1, <1>2 DEF Distributed
<1>3. CASE whole # 0
    BY <1>1, <1>3 DEF Distributed
<1>4. CASE whole = 0 /\ \E percent \in Nat : FromCoupon(row, percent)
    <2>1. PICK percent \in Nat : row.discount = Rounded(whole * percent, 100)
        BY <1>4 DEF FromCoupon, Discount
    <2>2. whole * percent = 0
        BY <1>4, <2>1
    <2>3. Rounded(0, 100) = 0
        BY DEF Rounded
    <2>4. row.discount = 0
        BY <2>1, <2>2, <2>3
    <2> QED BY <2>4 DEF Distributed
<1>5. CASE whole = 0 /\ FromStore(row)
    <2>1. SumFunctionOnSet(Costs(items), Unmodified(items)) = 0
        BY <1>1, <1>5, EligibleCost
    <2>2. Unmodified(items) \in SUBSET DOMAIN items /\ IsFiniteSet(Unmodified(items))
        BY <1>1, SubsetIsFinite DEF Unmodified, IsList
    <2>3. \A i \in Unmodified(items) : Costs(items)[i] \in Nat
        BY <1>1, <2>2, PartsType
    <2>4. \A i \in Unmodified(items) : Costs(items)[i] = 0
        BY <2>1, <2>2, <2>3, SumIsZero
    <2>5. \A i \in DOMAIN items : Modified(items[i]) \/ Subtotal(items[i]) = 0
        BY <2>4 DEF Unmodified, Costs
    <2> QED BY <1>5, <2>5 DEF FromStore, NothingToDiscount
<1>6. FromStore(row) \/ \E percent \in Nat : FromCoupon(row, percent)
    BY DEF IsRow
<1> QED BY <1>2, <1>3, <1>4, <1>5, <1>6

(* What a store charges and what the CRM shows; the rule of the coupon.    *)
Agrees(order, row) ==
    \/ ShelfTotal(order) = row.total
    \/ Len(order.shippings) > 1
    \/ NothingToDiscount(row)
CouponRule(lines, percent) ==
    LET lowered == Restrict(lines, {i \in DOMAIN lines : Modified(lines[i])})
        others == Restrict(lines, {i \in DOMAIN lines : ~Modified(lines[i])})
    IN  /\ Charge(lowered) = Cost(lowered)
        /\ Cost(others) - Charge(others) = Rounded(Cost(others) * percent, 100)

(* A store that holds what was sent agrees with the row it was sent from.  *)
LEMMA SentAgrees ==
    ASSUME NEW row, IsRow(row), NEW sent, NEW number, IsSent(sent, number, row),
           NEW order, order.lines = sent, order.shippings \in Seq(Int),
           Len(order.shippings) <= 1 => SumFunction(order.shippings) = row.shipping
    PROVE  Agrees(order, row)
<1>1. IsList(row.items) /\ row.discount \in Nat /\ row.shipping \in Nat
        /\ row.total = Cost(row.items) - row.discount + row.shipping
    BY DEF IsRow
<1>2. Charge(sent) = Cost(row.items) - Distributed(row)
    BY <1>1, SentCharge
<1>3. ASSUME Distributed(row) = row.discount, ~(Len(order.shippings) > 1)
      PROVE  ShelfTotal(order) = row.total
    <2>1. SumFunction(order.shippings) = row.shipping
        BY <1>3
    <2>2. ShelfTotal(order) = Charge(sent) + row.shipping
        BY <2>1 DEF ShelfTotal
    <2> QED BY <1>1, <1>2, <1>3, <2>2
<1> QED BY <1>3, DiscountArrives DEF Agrees

LEMMA SentFollowsCoupon ==
    ASSUME NEW row, IsRow(row), NEW sent, NEW number, IsSent(sent, number, row),
           NEW percent, row.coupons = {percent}
    PROVE  CouponRule(sent, percent)
<1> DEFINE whole == Cost(Eligible(row.items))
<1>1. IsList(row.items) /\ row.discount \in Nat
    BY DEF IsRow
<1>2. percent \in Nat /\ row.discount = Rounded(whole * percent, 100)
    BY DEF IsRow, FromStore, FromCoupon, Discount
<1>3. Distributed(row) = row.discount
    BY DiscountArrives DEF NothingToDiscount
<1> DEFINE lowered == Restrict(sent, {i \in DOMAIN sent : Modified(sent[i])})
           others == Restrict(sent, {i \in DOMAIN sent : ~Modified(sent[i])})
<1>4. /\ Charge(lowered) = Cost(lowered)
      /\ Cost(others) = whole
      /\ Cost(others) - Charge(others) = Distributed(row)
    BY <1>1, SentRule
<1>5. Cost(others) - Charge(others) = Rounded(Cost(others) * percent, 100)
    <2> HIDE DEF whole, others, lowered
    <2> QED BY <1>2, <1>3, <1>4
<1> QED BY <1>4, <1>5 DEF CouponRule

-----------------------------------------------------------------------------
(* The invariant of a state: of the operation, of every store, and of the  *)
(* stores that changed neither side since they last met.                   *)

(* A job exists only once the operation is complete, and its row with it;  *)
(* what it creates is the row as it is, for only a webhook of that very    *)
(* order could change the row.                                             *)
IsDelivery(job, row, order) ==
    \/ job.at = "none"
    \/ row # NoOrder /\ job.at \in {"load", "failed"}
    \/ row # NoOrder /\ job.at = "post" /\ order = NoOrder /\ job.order = row
    \/ row # NoOrder /\ job.at = "get" /\ order # NoOrder /\ IsRow(job.order)
    \/ /\ row # NoOrder /\ job.at = "put" /\ order # NoOrder /\ IsRow(job.order)
       /\ IsList(job.seen.lines) /\ job.seen.shippings \in Seq(Int)

StoreInv(op, row, order, job) ==
    /\ row # NoOrder =>
        IsRow(row) /\ row.coupons \in {{}, {op.coupon}} /\ op.state # "NONE"
    /\ order # NoOrder => IsShelf(order)
    /\ IsDelivery(job, row, order)
    /\ op.state # "COMPLETED" => job.at = "none"

Met(order, row) ==
    /\ Agrees(order, row)
    /\ \A percent \in Percent : row.coupons = {percent} => CouponRule(order.lines, percent)

OperationType ==
    operation \in [state : {"NONE", "PENDING", "COMPLETED"}, coupon : Nat,
                   shipping : Int, total : Int]
Domains ==
    /\ storeOrder = [s \in Stores |-> storeOrder[s]]
    /\ shelf = [s \in Stores |-> shelf[s]]
    /\ delivery = [s \in Stores |-> delivery[s]]
    /\ agreed \in SUBSET Stores /\ retouches \in 0..MaxRetouches
StoresHold == \A s \in Stores : StoreInv(operation, storeOrder[s], shelf[s], delivery[s])
MetHold == \A s \in agreed : Met(shelf[s], storeOrder[s])
SumsHold == operation.state = "NONE" \/ reported \/ IsTheSum

AmountsInv == OperationType /\ Domains /\ StoresHold /\ MetHold /\ SumsHold

LEMMA Updated ==
    ASSUME NEW f, f = [t \in Stores |-> f[t]], NEW s \in Stores, NEW v,
           NEW g, g = [f EXCEPT ![s] = v]
    PROVE  /\ g = [t \in Stores |-> g[t]] /\ g[s] = v
           /\ \A t \in Stores \ {s} : g[t] = f[t]
OBVIOUS

(* The operation keeps its coupon, and is not empty again.                 *)
Follows(next, op) ==
    /\ next.coupon = op.coupon
    /\ next.state = op.state \/ (op.state = "NONE" /\ next.state = "PENDING")

LEMMA OthersHold ==
    ASSUME NEW op, NEW next, Follows(next, op), NEW row, NEW order, NEW job,
           StoreInv(op, row, order, job)
    PROVE  StoreInv(next, row, order, job)
BY DEF StoreInv, Follows

(* A step of one store.                                                    *)
LEMMA OneStore ==
    ASSUME AmountsInv, NEW s \in Stores, OperationType', Domains', SumsHold',
           Follows(operation', operation),
           \A t \in Stores \ {s} : /\ storeOrder'[t] = storeOrder[t]
                                   /\ shelf'[t] = shelf[t] /\ delivery'[t] = delivery[t],
           StoreInv(operation', storeOrder'[s], shelf'[s], delivery'[s]),
           agreed' \ {s} \subseteq agreed,
           s \in agreed' => Met(shelf'[s], storeOrder'[s])
    PROVE  AmountsInv'
<1>1. StoresHold'
    <2>1. \A t \in Stores \ {s} :
            StoreInv(operation', storeOrder'[t], shelf'[t], delivery'[t])
        BY OthersHold DEF AmountsInv, StoresHold
    <2> QED BY <2>1 DEF StoresHold
<1>2. MetHold'
    <2>1. \A t \in agreed' \ {s} : t \in agreed /\ t \in Stores \ {s}
        BY DEF Domains
    <2>2. \A t \in agreed' \ {s} : Met(shelf'[t], storeOrder'[t])
        BY <2>1 DEF AmountsInv, MetHold
    <2> QED BY <2>2 DEF MetHold
<1> QED BY <1>1, <1>2 DEF AmountsInv

(* A step of one job alone.                                                *)
LEMMA OneJob ==
    ASSUME AmountsInv, NEW s \in Stores, NEW job, delivery' = [delivery EXCEPT ![s] = job],
           UNCHANGED <<operation, storeOrder, shelf, retouches, agreed, reported>>,
           delivery[s].at # "none", IsDelivery(job, storeOrder[s], shelf[s])
    PROVE  AmountsInv'
<1>1. /\ delivery' = [t \in Stores |-> delivery'[t]] /\ delivery'[s] = job
      /\ \A t \in Stores \ {s} : delivery'[t] = delivery[t]
    BY Updated DEF AmountsInv, Domains
<1>2. OperationType' /\ Domains' /\ SumsHold'
    BY <1>1 DEF AmountsInv, OperationType, Domains, SumsHold, IsTheSum, Rows
<1>3. StoreInv(operation', storeOrder'[s], shelf'[s], delivery'[s])
    <2>1. StoreInv(operation, storeOrder[s], shelf[s], delivery[s])
        BY DEF AmountsInv, StoresHold
    <2> QED BY <1>1, <2>1 DEF StoreInv
<1>4. s \in agreed' => Met(shelf'[s], storeOrder'[s])
    BY DEF AmountsInv, MetHold
<1>5. Follows(operation', operation)
    BY DEF Follows
<1>6. \A t \in Stores \ {s} : /\ storeOrder'[t] = storeOrder[t]
                              /\ shelf'[t] = shelf[t] /\ delivery'[t] = delivery[t]
    BY <1>1
<1>7. agreed' \ {s} \subseteq agreed
    OBVIOUS
<1> QED BY <1>2, <1>3, <1>4, <1>5, <1>6, <1>7, OneStore

LEMMA AmountsLoad ==
    ASSUME AmountsInv, NEW s \in Stores, LoadOrder(s)
    PROVE  AmountsInv'
<1> DEFINE job == [at |-> IF shelf[s] = NoOrder THEN "post" ELSE "get",
                   order |-> storeOrder[s]]
<1>1. /\ delivery' = [delivery EXCEPT ![s] = job] /\ delivery[s].at = "load"
      /\ UNCHANGED <<operation, storeOrder, shelf, retouches, agreed, reported>>
    BY DEF LoadOrder
<1>2. storeOrder[s] # NoOrder /\ IsRow(storeOrder[s])
    BY <1>1 DEF AmountsInv, StoresHold, StoreInv, IsDelivery
<1>3. IsDelivery(job, storeOrder[s], shelf[s])
    BY <1>2 DEF IsDelivery
<1> HIDE DEF job
<1> QED BY <1>1, <1>3, OneJob

LEMMA AmountsFails ==
    ASSUME AmountsInv, NEW s \in Stores, DeliveryFails(s) \/ Retry(s)
    PROVE  AmountsInv'
<1>1. PICK at \in {"failed", "load"} :
        /\ delivery' = [delivery EXCEPT ![s] = [at |-> at]] /\ delivery[s].at # "none"
        /\ UNCHANGED <<operation, storeOrder, shelf, retouches, agreed, reported>>
    BY DEF DeliveryFails, Retry
<1>2. storeOrder[s] # NoOrder
    BY <1>1 DEF AmountsInv, StoresHold, StoreInv, IsDelivery
<1>3. IsDelivery([at |-> at], storeOrder[s], shelf[s])
    BY <1>2 DEF IsDelivery
<1> QED BY <1>1, <1>3, OneJob

LEMMA AmountsSnapshot ==
    ASSUME AmountsInv, NEW s \in Stores, SnapshotRead(s)
    PROVE  AmountsInv'
<1> DEFINE job == [at |-> "put", order |-> delivery[s].order, seen |-> shelf[s]]
<1>1. /\ delivery' = [delivery EXCEPT ![s] = job] /\ delivery[s].at = "get"
      /\ UNCHANGED <<operation, storeOrder, shelf, retouches, agreed, reported>>
    BY DEF SnapshotRead
<1>2. storeOrder[s] # NoOrder /\ shelf[s] # NoOrder /\ IsRow(delivery[s].order)
        /\ IsShelf(shelf[s])
    BY <1>1 DEF AmountsInv, StoresHold, StoreInv, IsDelivery
<1>3. IsDelivery(job, storeOrder[s], shelf[s])
    BY <1>2 DEF IsDelivery, IsShelf
<1> HIDE DEF job
<1> QED BY <1>1, <1>3, OneJob

LEMMA AmountsComplete ==
    ASSUME AmountsInv, Complete
    PROVE  AmountsInv'
<1>1. /\ operation.state = "PENDING"
      /\ operation' = [operation EXCEPT !.state = "COMPLETED"]
      /\ delivery' = [s \in Stores |->
            IF storeOrder[s] = NoOrder THEN NoDelivery ELSE [at |-> "load"]]
      /\ UNCHANGED <<storeOrder, shelf, retouches, agreed, reported>>
    BY DEF Complete
<1>2. OperationType' /\ Domains'
    BY <1>1 DEF AmountsInv, OperationType, Domains
<1>3. SumsHold' /\ operation'.coupon = operation.coupon /\ operation'.state = "COMPLETED"
    BY <1>1 DEF AmountsInv, OperationType, SumsHold, IsTheSum, Rows
<1>4. MetHold'
    BY <1>1 DEF AmountsInv, MetHold
<1>5. ASSUME NEW s \in Stores
      PROVE  StoreInv(operation', storeOrder'[s], shelf'[s], delivery'[s])
    <2>1. StoreInv(operation, storeOrder[s], shelf[s], delivery[s])
        BY DEF AmountsInv, StoresHold
    <2>2. delivery'[s] = IF storeOrder[s] = NoOrder THEN NoDelivery ELSE [at |-> "load"]
        BY <1>1
    <2>3. IsDelivery(delivery'[s], storeOrder[s], shelf[s])
        BY <2>2 DEF IsDelivery, NoDelivery
    <2> QED BY <1>1, <1>3, <2>1, <2>3 DEF StoreInv
<1> QED BY <1>2, <1>3, <1>4, <1>5 DEF AmountsInv, StoresHold

LEMMA AmountsSave ==
    ASSUME AmountsInv, NEW form \in Forms, NEW percent \in Percent,
           NEW shippingTotal \in ShippingTotals(form), SaveForm(form, percent, shippingTotal)
    PROVE  AmountsInv'
<1> DEFINE in == StoresIn(form)
           rows == [s \in Stores |-> IF s \in in
                        THEN PreparedRow(form, percent, shippingTotal, s) ELSE NoOrder]
           discounts == SumFunction([s \in in |-> rows[s].discount])
<1>1. /\ operation.state \in {"NONE", "PENDING"}
      /\ storeOrder' = rows
      /\ operation' = [state |-> "PENDING", coupon |-> percent, shipping |-> shippingTotal,
                       total |-> Cost(form) + shippingTotal - discounts]
      /\ agreed' = {} /\ reported' = FALSE
      /\ UNCHANGED <<shelf, delivery, retouches>>
    BY DEF SaveForm
<1>2. IsForm(form) /\ percent \in Nat /\ shippingTotal \in Nat
    BY FormsAreForms, AmountsAssumption DEF ShippingTotals
<1>3. in \in SUBSET Stores
    BY DEF StoresIn
<1>4. \A s \in in : rows[s] = PreparedRow(form, percent, shippingTotal, s)
    BY <1>3
<1>5. /\ \A s \in in : IsRow(rows[s]) /\ rows[s] # NoOrder /\ rows[s].coupons = {percent}
      /\ \A s \in Stores \ in : rows[s] = NoOrder
      /\ rows = [s \in Stores |-> rows[s]]
    <2>1. ASSUME NEW s \in in
          PROVE  IsRow(rows[s]) /\ rows[s] # NoOrder /\ rows[s].coupons = {percent}
        <3>1. rows[s] = PreparedRow(form, percent, shippingTotal, s)
            BY <1>4
        <3> HIDE DEF rows
        <3>2. IsRow(rows[s]) /\ FromCoupon(rows[s], percent) /\ rows[s] # NoOrder
            BY <1>2, <3>1, PreparedRowIsRow
        <3> QED BY <3>2 DEF FromCoupon
    <2>2. \A s \in Stores \ in : rows[s] = NoOrder
        OBVIOUS
    <2>3. rows = [s \in Stores |-> rows[s]]
        OBVIOUS
    <2> HIDE DEF rows, in
    <2> QED BY <2>1, <2>2, <2>3
<1>6. /\ SumFunction([s \in in |-> rows[s].shipping]) = shippingTotal
      /\ SumFunction([s \in in |-> rows[s].total]) = Cost(form) + shippingTotal - discounts
      /\ Cost(form) + shippingTotal - discounts \in Int
    <2> HIDE DEF rows
    <2> QED BY <1>2, <1>4, FormAddsUp
<1> HIDE DEF rows, discounts
<1>7. Rows' = in
    BY <1>1, <1>3, <1>5 DEF Rows
<1>8. IsTheSum'
    <2>1. [s \in Rows |-> storeOrder[s].shipping]' = [s \in in |-> rows[s].shipping]
        BY <1>1, <1>7
    <2>2. [s \in Rows |-> storeOrder[s].total]' = [s \in in |-> rows[s].total]
        BY <1>1, <1>7
    <2>3. /\ operation'.shipping = shippingTotal
          /\ operation'.total = Cost(form) + shippingTotal - discounts
        BY <1>1
    <2> HIDE DEF in
    <2> QED BY <1>6, <2>1, <2>2, <2>3 DEF IsTheSum
<1>9. OperationType'
    BY <1>1, <1>2, <1>6 DEF OperationType
<1>10. Domains'
    BY <1>1, <1>5 DEF Domains, AmountsInv
<1>11. ASSUME NEW s \in Stores
       PROVE  StoreInv(operation', storeOrder'[s], shelf'[s], delivery'[s])
    <2>1. StoreInv(operation, storeOrder[s], shelf[s], delivery[s])
        BY DEF AmountsInv, StoresHold
    <2>2. delivery[s].at = "none"
        BY <1>1, <2>1 DEF StoreInv
    <2>3. operation'.state = "PENDING" /\ operation'.coupon = percent
        BY <1>1
    <2> QED BY <1>1, <1>5, <2>1, <2>2, <2>3 DEF StoreInv, IsDelivery
<1>12. MetHold' /\ SumsHold'
    BY <1>1, <1>8 DEF MetHold, SumsHold
<1> QED BY <1>9, <1>10, <1>11, <1>12 DEF AmountsInv, StoresHold

LEMMA SentIsHeld ==
    ASSUME NEW row, IsRow(row), NEW lines, NEW from, NamesKnown(row, lines, from),
           NEW order, order.lines = SentLines(row, lines, from),
           order.shippings \in Seq(Int),
           Len(order.shippings) <= 1 => SumFunction(order.shippings) = row.shipping
    PROVE  /\ Met(order, row) /\ IsList(order.lines)
           /\ \A id \in DOMAIN order.lines : id <= from + Cardinality(DOMAIN row.items)
<1> DEFINE sent == SentLines(row, lines, from)
           number == Numbers(row, lines, from)
<1>1. IsList(row.items) /\ row.discount \in Int
    BY DEF IsRow
<1>2. /\ IsSent(sent, number, row)
      /\ \A id \in DOMAIN sent : id <= from + Cardinality(DOMAIN row.items)
    BY <1>1, SentItems
<1>3. IsList(sent)
    BY <1>2 DEF IsSent
<1> HIDE DEF sent, number
<1>4. order.lines = sent
    BY DEF sent
<1>5. Agrees(order, row)
    BY <1>2, <1>4, SentAgrees
<1>6. \A percent \in Percent : row.coupons = {percent} => CouponRule(sent, percent)
    BY <1>2, SentFollowsCoupon
<1> QED BY <1>2, <1>3, <1>4, <1>5, <1>6 DEF Met

(* What a store answers: only its order and the job change.                *)
LEMMA OneAnswer ==
    ASSUME AmountsInv, NEW s \in Stores, NEW order, IsShelf(order), order # NoOrder,
           shelf' = [shelf EXCEPT ![s] = order],
           delivery' = [delivery EXCEPT ![s] = NoDelivery],
           UNCHANGED <<operation, storeOrder, retouches, reported>>,
           agreed' \in {agreed \cup {s}, agreed \ {s}},
           s \in agreed' => Met(order, storeOrder[s])
    PROVE  AmountsInv'
<1>1. /\ shelf' = [t \in Stores |-> shelf'[t]] /\ shelf'[s] = order
      /\ \A t \in Stores \ {s} : shelf'[t] = shelf[t]
    BY Updated DEF AmountsInv, Domains
<1>2. /\ delivery' = [t \in Stores |-> delivery'[t]] /\ delivery'[s] = NoDelivery
      /\ \A t \in Stores \ {s} : delivery'[t] = delivery[t]
    BY Updated DEF AmountsInv, Domains
<1>3. agreed' \in SUBSET Stores /\ agreed' \ {s} \subseteq agreed
    BY DEF AmountsInv, Domains
<1>4. OperationType' /\ Domains' /\ SumsHold'
    BY <1>1, <1>2, <1>3 DEF AmountsInv, OperationType, Domains, SumsHold, IsTheSum, Rows
<1>5. StoreInv(operation', storeOrder'[s], shelf'[s], delivery'[s])
    <2>1. StoreInv(operation, storeOrder[s], shelf[s], delivery[s])
        BY DEF AmountsInv, StoresHold
    <2> QED BY <1>1, <1>2, <2>1 DEF StoreInv, IsDelivery, NoDelivery
<1>6. s \in agreed' => Met(shelf'[s], storeOrder'[s])
    BY <1>1
<1>7. Follows(operation', operation)
    BY DEF Follows
<1>8. \A t \in Stores \ {s} : /\ storeOrder'[t] = storeOrder[t]
                              /\ shelf'[t] = shelf[t] /\ delivery'[t] = delivery[t]
    BY <1>1, <1>2
<1> QED BY <1>3, <1>4, <1>5, <1>6, <1>7, <1>8, OneStore

LEMMA AmountsCreates ==
    ASSUME AmountsInv, NEW s \in Stores, StoreCreates(s)
    PROVE  AmountsInv'
<1> DEFINE row == delivery[s].order
           n == Cardinality(DOMAIN row.items)
           order == [lines |-> SentLines(row, << >>, 0), shippings |-> <<row.shipping>>,
                     lastId |-> n]
<1>1. /\ delivery[s].at = "post"
      /\ shelf' = [shelf EXCEPT ![s] = order]
      /\ delivery' = [delivery EXCEPT ![s] = NoDelivery]
      /\ agreed' = agreed \cup {s}
      /\ UNCHANGED <<operation, storeOrder, retouches, reported>>
    BY DEF StoreCreates
<1>2. row = storeOrder[s] /\ IsRow(row)
    BY <1>1 DEF AmountsInv, StoresHold, StoreInv, IsDelivery
<1>3. NamesKnown(row, << >>, 0)
    BY DEF NamesKnown, Paired, Matches
<1>4. row.shipping \in Nat /\ IsFiniteSet(DOMAIN row.items)
    BY <1>2 DEF IsRow, IsList
<1>5. n \in Nat
    BY <1>4, FS_CardinalityType
<1>6. <<row.shipping>> \in Seq(Int) /\ SumFunction(<<row.shipping>>) = row.shipping
    <2> DEFINE one == <<row.shipping>>
    <2>1. one \in Seq(Int) /\ DOMAIN one = {1} /\ one[1] = row.shipping
        BY <1>4
    <2>2. SumFunctionOnSet(one, {1}) = one[1]
        <3> HIDE DEF one
        <3> QED BY <1>4, <2>1, SumOfOne
    <2> QED BY <2>1, <2>2 DEF SumFunction
<1>7. /\ order.lines = SentLines(row, << >>, 0) /\ order.shippings = <<row.shipping>>
      /\ order.lastId = n /\ order # NoOrder
      /\ order = [lines |-> order.lines, shippings |-> order.shippings,
                  lastId |-> order.lastId]
    BY DEF NoOrder
<1> HIDE DEF order, n
<1>8. /\ Met(order, row) /\ IsList(order.lines)
      /\ \A id \in DOMAIN order.lines : id <= 0 + n
    BY <1>2, <1>3, <1>6, <1>7, SentIsHeld DEF n
<1>9. \A id \in DOMAIN order.lines : id <= order.lastId
    BY <1>5, <1>7, <1>8
<1>10. IsShelf(order)
    BY <1>5, <1>6, <1>7, <1>8, <1>9 DEF IsShelf
<1> QED BY <1>1, <1>2, <1>7, <1>8, <1>10, OneAnswer

(* Lines of both lists, those of the second where the first has none.      *)
LEMMA ListUnion ==
    ASSUME NEW first, IsList(first), NEW second, IsList(second),
           NEW kept \in SUBSET DOMAIN first, NEW from,
           \A id \in kept \cup DOMAIN second : id <= from,
           NEW lines, lines = [id \in kept \cup DOMAIN second |->
                                IF id \in kept THEN first[id] ELSE second[id]]
    PROVE  IsList(lines) /\ \A id \in DOMAIN lines : id <= from
<1>1. DOMAIN lines = kept \cup DOMAIN second
    OBVIOUS
<1>2. IsFiniteSet(kept) /\ IsFiniteSet(DOMAIN second)
    BY SubsetIsFinite DEF IsList
<1>3. IsFiniteSet(kept \cup DOMAIN second)
    BY <1>2, FS_Union
<1>4. \A id \in DOMAIN lines : lines[id] \in Entry
    BY DEF IsList
<1>5. DOMAIN lines \in SUBSET Nat
    BY <1>1 DEF IsList
<1> QED BY <1>1, <1>3, <1>4, <1>5 DEF IsList

LEMMA AmountsUpdates ==
    ASSUME AmountsInv, NEW s \in Stores, StoreUpdates(s)
    PROVE  AmountsInv'
<1> DEFINE row == delivery[s].order
           seen == delivery[s].seen
           lines == shelf[s].lines
           last == shelf[s].lastId
           n == Cardinality(DOMAIN row.items)
           sent == SentLines(row, seen.lines, last)
           named == Paired(row, seen.lines) \cup LeftOver(row, seen.lines)
           kept == DOMAIN lines \ named
           held == [id \in kept \cup DOMAIN sent |->
                        IF id \in kept THEN lines[id] ELSE sent[id]]
           shippings == ShippingLines(row, seen.shippings)
           order == [lines |-> held, shippings |-> shippings, lastId |-> last + n]
<1>1. /\ delivery[s].at = "put" /\ named \subseteq DOMAIN lines
      /\ shelf' = [shelf EXCEPT ![s] = order]
      /\ delivery' = [delivery EXCEPT ![s] = NoDelivery]
      /\ agreed' = IF storeOrder[s] = row /\ seen.lines = lines
                   THEN agreed \cup {s} ELSE agreed \ {s}
      /\ UNCHANGED <<operation, storeOrder, retouches, reported>>
    BY DEF StoreUpdates
<1>2. /\ storeOrder[s] # NoOrder /\ IsRow(row) /\ IsShelf(shelf[s])
      /\ IsList(seen.lines) /\ seen.shippings \in Seq(Int)
    BY <1>1 DEF AmountsInv, StoresHold, StoreInv, IsDelivery
<1>3. /\ IsList(lines) /\ last \in Nat /\ \A id \in DOMAIN lines : id <= last
      /\ row.shipping \in Nat /\ IsFiniteSet(DOMAIN row.items)
    BY <1>2 DEF IsShelf, IsRow, IsList
<1>4. n \in Nat
    BY <1>3, FS_CardinalityType
<1>5. NamesKnown(row, seen.lines, last)
    <2>1. \A id \in Paired(row, seen.lines) : id \in DOMAIN lines
        BY <1>1
    <2> QED BY <1>3, <2>1 DEF NamesKnown, IsList
<1>6. shippings \in Seq(Int) /\ (Len(shippings) <= 1 => SumFunction(shippings) = row.shipping)
    BY <1>2, <1>3, ShippingArrives
<1> DEFINE fresh == [lines |-> sent, shippings |-> shippings]
<1>7. /\ Met(fresh, row) /\ IsList(sent)
      /\ \A id \in DOMAIN sent : id <= last + n
    <2>1. fresh.lines = SentLines(row, seen.lines, last) /\ fresh.shippings = shippings
        OBVIOUS
    <2> HIDE DEF fresh, shippings, row, seen, last, n
    <2> QED BY <1>2, <1>5, <1>6, <2>1, SentIsHeld DEF n
<1>8. IsList(held) /\ \A id \in DOMAIN held : id <= last + n
    <2>1. kept \in SUBSET DOMAIN lines
        OBVIOUS
    <2>2. ASSUME NEW id \in kept \cup DOMAIN sent PROVE id <= last + n
        <3>1. CASE id \in DOMAIN sent
            BY <1>7, <3>1
        <3>2. CASE id \in kept
            <4>1. id \in DOMAIN lines /\ id \in Nat /\ id <= last
                BY <1>3, <3>2 DEF IsList
            <4> HIDE DEF last, n
            <4> QED BY <1>3, <1>4, <4>1
        <3> QED BY <2>2, <3>1, <3>2
    <2>3. held = [id \in kept \cup DOMAIN sent |->
                        IF id \in kept THEN lines[id] ELSE sent[id]]
        OBVIOUS
    <2>4. IsList(sent) /\ IsList(lines)
        BY <1>3, <1>7
    <2> DEFINE top == last + n
    <2>5. \A id \in kept \cup DOMAIN sent : id <= top
        BY <2>2
    <2> HIDE DEF top, held, kept, lines, sent, last, n
    <2>6. IsList(held) /\ \A id \in DOMAIN held : id <= top
        BY <2>1, <2>3, <2>4, <2>5, ListUnion
    <2> QED BY <2>6 DEF top
<1>9. /\ order.lines = held /\ order.shippings = shippings /\ order.lastId = last + n
      /\ order # NoOrder
      /\ order = [lines |-> order.lines, shippings |-> order.shippings,
                  lastId |-> order.lastId]
    BY DEF NoOrder
<1>10. last + n \in Nat
    <2> HIDE DEF last, n
    <2> QED BY <1>3, <1>4
<1>11. IsShelf(order)
    <2> HIDE DEF order, held, shippings, last, n
    <2> QED BY <1>6, <1>8, <1>9, <1>10 DEF IsShelf
<1>12. ASSUME storeOrder[s] = row, seen.lines = lines
       PROVE  Met(order, storeOrder[s])
    <2>1. kept = {}
        BY <1>12 DEF LeftOver
    <2>2. held = [id \in DOMAIN sent |-> sent[id]]
        BY <2>1
    <2>3. sent = [id \in DOMAIN sent |-> sent[id]]
        BY DEF SentLines
    <2>4. order.lines = sent
        BY <1>9, <2>2, <2>3
    <2>5. /\ fresh.lines = sent /\ fresh.shippings = shippings
        OBVIOUS
    <2> HIDE DEF fresh, order, sent, held, shippings, row
    <2>6. ShelfTotal(order) = ShelfTotal(fresh)
        BY <1>9, <2>4, <2>5 DEF ShelfTotal
    <2> QED BY <1>7, <1>9, <1>12, <2>4, <2>5, <2>6 DEF Met, Agrees
<1>13. agreed' \in {agreed \cup {s}, agreed \ {s}}
    BY <1>1
<1>14. s \in agreed' => Met(order, storeOrder[s])
    <2>1. s \in agreed' => storeOrder[s] = row /\ seen.lines = lines
        BY <1>1
    <2> QED BY <1>12, <2>1
<1> HIDE DEF order
<1> QED BY <1>1, <1>9, <1>11, <1>13, <1>14, OneAnswer

(* The lines that somebody may leave in a store.                           *)
LEMMA RetouchedLists ==
    ASSUME NEW lines, IsList(lines), NEW last \in Nat, \A id \in DOMAIN lines : id <= last,
           NEW next \in Retouched(lines, last + 1)
    PROVE  IsList(next) /\ \A id \in DOMAIN next : id <= last + 1
<1> DEFINE new == last + 1
<1>1. \A id \in DOMAIN lines : id \in Nat /\ id <= new /\ lines[id] \in Entry
    BY DEF IsList
<1>2. CASE next \in {Restrict(lines, DOMAIN lines \ {k}) : k \in DOMAIN lines}
    <2>1. PICK k \in DOMAIN lines : next = Restrict(lines, DOMAIN lines \ {k})
        BY <1>2
    <2>2. DOMAIN lines \ {k} \in SUBSET DOMAIN lines
        OBVIOUS
    <2>3. IsList(next) /\ DOMAIN next = DOMAIN lines \ {k}
        BY <2>1, <2>2, RestrictedParts
    <2> QED BY <1>1, <2>3
<1>3. CASE next \in {[lines EXCEPT ![k].quantity = 3, ![k].total = 3 * lines[k].price] :
                        k \in DOMAIN lines}
    <2>1. PICK k \in DOMAIN lines :
            next = [lines EXCEPT ![k].quantity = 3, ![k].total = 3 * lines[k].price]
        BY <1>3
    <2>2. DOMAIN next = DOMAIN lines
        BY <2>1
    <2>3. 3 * lines[k].price \in Int
        BY <1>1 DEF Entry
    <2>4. next[k] \in Entry
        BY <1>1, <2>1, <2>3 DEF Entry
    <2>5. \A id \in DOMAIN lines \ {k} : next[id] = lines[id]
        BY <2>1
    <2>6. \A id \in DOMAIN next : next[id] \in Entry
        BY <1>1, <2>2, <2>4, <2>5
    <2> QED BY <1>1, <2>2, <2>6 DEF IsList
<1>4. CASE next \in {[k \in DOMAIN lines \cup {new} |-> IF k # new THEN lines[k] ELSE
                        [product |-> p, quantity |-> 1, price |-> PriceOf[p],
                         total |-> PriceOf[p]]] : p \in Product}
    <2>1. PICK p \in Product :
            next = [k \in DOMAIN lines \cup {new} |-> IF k # new THEN lines[k] ELSE
                        [product |-> p, quantity |-> 1, price |-> PriceOf[p],
                         total |-> PriceOf[p]]]
        BY <1>4
    <2>2. DOMAIN next = DOMAIN lines \cup {new}
        BY <2>1
    <2>3. PriceOf[p] \in Nat
        BY AmountsAssumption
    <2>4. [product |-> p, quantity |-> 1, price |-> PriceOf[p], total |-> PriceOf[p]]
            \in Entry
        BY <2>3 DEF Entry
    <2>5. \A id \in DOMAIN next : next[id] \in Entry
        BY <1>1, <2>1, <2>4
    <2>6. IsFiniteSet(DOMAIN next)
        BY <2>2, FS_AddElement DEF IsList
    <2>7. new \in Nat /\ new <= new
        OBVIOUS
    <2> QED BY <1>1, <2>2, <2>5, <2>6, <2>7 DEF IsList
<1> QED BY <1>2, <1>3, <1>4 DEF Retouched

LEMMA Relined ==
    ASSUME NEW order, NEW lines, NEW shippings, NEW last,
           order = [lines |-> lines, shippings |-> shippings, lastId |-> last],
           NEW others, NEW new, NEW next, next = [order EXCEPT !.lines = others, !.lastId = new]
    PROVE  next = [lines |-> others, shippings |-> shippings, lastId |-> new]
<1>1. next \in [lines : {lines, others}, shippings : {shippings}, lastId : {last, new}]
    OBVIOUS
<1>2. next.lines = others /\ next.shippings = shippings /\ next.lastId = new
    OBVIOUS
<1> QED BY <1>1, <1>2

LEMMA AmountsRetouch ==
    ASSUME AmountsInv, NEW s \in Stores, RetouchOrder(s)
    PROVE  AmountsInv'
<1>1. /\ shelf[s] # NoOrder /\ retouches < MaxRetouches /\ retouches' = retouches + 1
      /\ agreed' = agreed \ {s}
      /\ UNCHANGED <<operation, storeOrder, delivery, reported>>
    BY DEF RetouchOrder
<1>2. PICK lines \in Retouched(shelf[s].lines, shelf[s].lastId + 1) :
        shelf' = [shelf EXCEPT ![s].lines = lines, ![s].lastId = shelf[s].lastId + 1]
    BY DEF RetouchOrder
<1>3. IsShelf(shelf[s])
    BY <1>1 DEF AmountsInv, StoresHold, StoreInv
<1>4. /\ IsList(shelf[s].lines) /\ shelf[s].lastId \in Nat
      /\ \A id \in DOMAIN shelf[s].lines : id <= shelf[s].lastId
    BY <1>3 DEF IsShelf
<1>5. IsList(lines) /\ \A id \in DOMAIN lines : id <= shelf[s].lastId + 1
    BY <1>4, RetouchedLists
<1> DEFINE order == [shelf[s] EXCEPT !.lines = lines, !.lastId = shelf[s].lastId + 1]
<1>6. shelf' = [shelf EXCEPT ![s] = order]
    BY <1>2
<1>7. /\ order.lines = lines /\ order.shippings = shelf[s].shippings
      /\ order.lastId = shelf[s].lastId + 1 /\ order # NoOrder
      /\ order = [lines |-> order.lines, shippings |-> order.shippings,
                  lastId |-> order.lastId]
    <2>1. order = [lines |-> lines, shippings |-> shelf[s].shippings,
                   lastId |-> shelf[s].lastId + 1]
        <3> DEFINE a == shelf[s].lines
                   b == shelf[s].shippings
                   c == shelf[s].lastId
                   e == shelf[s].lastId + 1
                   x == shelf[s]
        <3>1. x = [lines |-> a, shippings |-> b, lastId |-> c]
            BY <1>3 DEF IsShelf
        <3>2. order = [x EXCEPT !.lines = lines, !.lastId = e]
            OBVIOUS
        <3> HIDE DEF a, b, c, e, x, order
        <3>3. order = [lines |-> lines, shippings |-> b, lastId |-> e]
            BY <3>1, <3>2, Relined
        <3> QED BY <3>3 DEF b, e
    <2> HIDE DEF order
    <2> QED BY <2>1 DEF NoOrder
<1> HIDE DEF order
<1>8. IsShelf(order)
    <2>1. shelf[s].lastId + 1 \in Nat /\ shelf[s].shippings \in Seq(Int)
        BY <1>3, <1>4 DEF IsShelf
    <2> QED BY <1>5, <1>7, <2>1 DEF IsShelf
<1>9. /\ shelf' = [t \in Stores |-> shelf'[t]] /\ shelf'[s] = order
      /\ \A t \in Stores \ {s} : shelf'[t] = shelf[t]
    BY <1>6, Updated DEF AmountsInv, Domains
<1>10. retouches' \in 0..MaxRetouches
    BY <1>1, AmountsAssumption DEF AmountsInv, Domains
<1>11. OperationType' /\ Domains' /\ SumsHold'
    BY <1>1, <1>9, <1>10
       DEF AmountsInv, OperationType, Domains, SumsHold, IsTheSum, Rows
<1>12. StoreInv(operation', storeOrder'[s], shelf'[s], delivery'[s])
    <2>1. StoreInv(operation, storeOrder[s], shelf[s], delivery[s])
        BY DEF AmountsInv, StoresHold
    <2> QED BY <1>1, <1>7, <1>8, <1>9, <2>1 DEF StoreInv, IsDelivery
<1>13. Follows(operation', operation)
    BY <1>1 DEF Follows
<1>14. agreed' \ {s} \subseteq agreed /\ s \notin agreed'
    BY <1>1
<1>15. \A t \in Stores \ {s} : /\ storeOrder'[t] = storeOrder[t]
                               /\ shelf'[t] = shelf[t] /\ delivery'[t] = delivery[t]
    BY <1>1, <1>9
<1> QED BY <1>11, <1>12, <1>13, <1>14, <1>15, OneStore

(* An import writes what the store charges on the row, whose items are the *)
(* lines, and on the operation.                                            *)
ImportedRow(order) ==
    [items |-> order.lines, discount |-> Cost(order.lines) - Charge(order.lines),
     shipping |-> SumFunction(order.shippings), total |-> ShelfTotal(order), coupons |-> {}]

LEMMA SeqSum == ASSUME NEW q \in Seq(Int) PROVE SumFunction(q) \in Int
<1>1. DOMAIN q = 1..Len(q) /\ Len(q) \in Nat /\ \A i \in DOMAIN q : q[i] \in Int
    OBVIOUS
<1>2. IsFiniteSet(DOMAIN q)
    BY <1>1, FS_Interval
<1> QED BY <1>1, <1>2, SumType DEF SumFunction

LEMMA ImportedIsRow ==
    ASSUME NEW order, IsShelf(order), Acceptable(order), NEW row, row = ImportedRow(order)
    PROVE  /\ IsRow(row) /\ row.coupons = {} /\ row # NoOrder
           /\ row.total = ShelfTotal(order) /\ row.total \in Int
           /\ row.shipping = SumFunction(order.shippings) /\ row.shipping \in Int
<1>1. /\ row.items = order.lines /\ row.discount = Cost(order.lines) - Charge(order.lines)
      /\ row.shipping = SumFunction(order.shippings)
      /\ row.total = Charge(order.lines) + SumFunction(order.shippings)
      /\ row.coupons = {} /\ row # NoOrder
    BY DEF ImportedRow, ShelfTotal, NoOrder
<1>2. IsList(order.lines) /\ SumFunction(order.shippings) \in Int
    BY SeqSum DEF IsShelf
<1>3. Cost(order.lines) \in Nat /\ Charge(order.lines) \in Int
    BY <1>2, PartsType
<1>4. Charge(order.lines) <= Cost(order.lines) /\ SumFunction(order.shippings) >= 0
    BY DEF Acceptable
<1>5. \A i \in DOMAIN order.lines : order.lines[i].total \in Nat
    BY <1>2 DEF Acceptable, IsList, Entry
<1>6. /\ row.discount \in Nat /\ row.shipping \in Nat
      /\ row.total = Cost(order.lines) - row.discount + row.shipping /\ row.total \in Int
    BY <1>1, <1>2, <1>3, <1>4
<1>7. FromStore(row)
    BY <1>1 DEF FromStore
<1>8. IsRow(row)
    BY <1>1, <1>2, <1>5, <1>6, <1>7 DEF IsRow
<1> QED BY <1>1, <1>6, <1>8 DEF ShelfTotal

LEMMA AmountsImport ==
    ASSUME AmountsInv, NEW s \in Stores, ImportOrder(s)
    PROVE  AmountsInv'
<1> DEFINE order == shelf[s]
           row == ImportedRow(order)
           job == IF delivery[s].at = "failed" THEN NoDelivery ELSE delivery[s]
           state == IF operation.state = "NONE" THEN "PENDING" ELSE operation.state
<1>1. /\ order # NoOrder /\ Acceptable(order)
      /\ storeOrder' = [storeOrder EXCEPT ![s] = row]
      /\ delivery' = [delivery EXCEPT ![s] = job]
      /\ agreed' = agreed \cup {s}
      /\ UNCHANGED <<shelf, retouches>>
    BY DEF ImportOrder, ImportedRow
<1>2. /\ operation' = [coupon |-> operation.coupon, shipping |-> SumFunction(order.shippings),
                       total |-> ShelfTotal(order), state |-> state]
      /\ reported' = (reported \/ \E t \in Stores \ {s} : storeOrder[t] # NoOrder)
    BY DEF ImportOrder
<1>3. StoreInv(operation, storeOrder[s], shelf[s], delivery[s]) /\ IsShelf(order)
    BY <1>1 DEF AmountsInv, StoresHold, StoreInv
<1>4. /\ IsRow(row) /\ row.coupons = {} /\ row # NoOrder
      /\ row.total = ShelfTotal(order) /\ row.total \in Int
      /\ row.shipping = SumFunction(order.shippings) /\ row.shipping \in Int
    BY <1>1, <1>3, ImportedIsRow
<1> HIDE DEF row
<1>5. /\ storeOrder' = [t \in Stores |-> storeOrder'[t]] /\ storeOrder'[s] = row
      /\ \A t \in Stores \ {s} : storeOrder'[t] = storeOrder[t]
    BY <1>1, Updated DEF AmountsInv, Domains
<1>6. /\ delivery' = [t \in Stores |-> delivery'[t]] /\ delivery'[s] = job
      /\ \A t \in Stores \ {s} : delivery'[t] = delivery[t]
    <2> HIDE DEF job
    <2> QED BY <1>1, Updated DEF AmountsInv, Domains
<1>7. /\ operation'.shipping = row.shipping /\ operation'.total = row.total
      /\ operation'.coupon = operation.coupon /\ operation'.state = state
      /\ OperationType'
    BY <1>2, <1>4 DEF AmountsInv, OperationType
<1>8. Domains'
    BY <1>1, <1>5, <1>6 DEF AmountsInv, Domains
<1>9. SumsHold'
    <2>1. CASE \E t \in Stores \ {s} : storeOrder[t] # NoOrder
        BY <1>2, <2>1 DEF SumsHold
    <2>2. CASE \A t \in Stores \ {s} : storeOrder[t] = NoOrder
        <3>1. Rows' = {s}
            BY <1>4, <1>5, <2>2 DEF Rows
        <3> DEFINE shippings == [t \in {s} |-> row.shipping]
                   totals == [t \in {s} |-> row.total]
        <3>2. /\ [t \in Rows |-> storeOrder[t].shipping]' = shippings
              /\ [t \in Rows |-> storeOrder[t].total]' = totals
            BY <1>5, <3>1
        <3>3. /\ shippings[s] = row.shipping /\ totals[s] = row.total
              /\ DOMAIN shippings = {s} /\ DOMAIN totals = {s}
            OBVIOUS
        <3> HIDE DEF shippings, totals
        <3>4. /\ SumFunction(shippings) = row.shipping /\ SumFunction(totals) = row.total
            BY <1>4, <3>3, SumOfOne DEF SumFunction
        <3> QED BY <1>7, <3>2, <3>4 DEF SumsHold, IsTheSum
    <2> QED BY <2>1, <2>2
<1>10. StoreInv(operation', storeOrder'[s], shelf'[s], delivery'[s])
    <2>1. IsDelivery(job, row, order)
        BY <1>1, <1>3, <1>4 DEF StoreInv, IsDelivery, NoDelivery
    <2>2. state # "NONE" /\ (state # "COMPLETED" => job.at = "none")
        BY <1>3 DEF StoreInv, NoDelivery
    <2> HIDE DEF job, state, order
    <2>3. shelf'[s] = order
        BY <1>1 DEF order
    <2> QED BY <1>3, <1>4, <1>5, <1>6, <1>7, <2>1, <2>2, <2>3 DEF StoreInv, order
<1>11. Met(shelf'[s], storeOrder'[s])
    BY <1>1, <1>4, <1>5 DEF Met, Agrees
<1>12. Follows(operation', operation)
    BY <1>7 DEF Follows
<1>13. \A t \in Stores \ {s} : /\ storeOrder'[t] = storeOrder[t]
                               /\ shelf'[t] = shelf[t] /\ delivery'[t] = delivery[t]
    BY <1>1, <1>5, <1>6
<1>14. agreed' \ {s} \subseteq agreed
    BY <1>1
<1> QED BY <1>7, <1>8, <1>9, <1>10, <1>11, <1>12, <1>13, <1>14, OneStore

(* What a store sold by itself is an order with all its lines.             *)
LEMMA SoldIsShelf ==
    ASSUME NEW order \in Sold
    PROVE  IsShelf(order) /\ order # NoOrder
<1> DEFINE Line == [product : Product \cup {Foreign}, quantity : Nat, price : Nat, total : Nat]
<1>1. /\ order \in [lines : Seq(Line), shippings : Seq(Nat), lastId : Nat]
      /\ order.lastId = Len(order.lines)
    BY AmountsAssumption
<1>2. /\ DOMAIN order.lines = 1..order.lastId /\ order.lastId \in Nat
      /\ \A i \in DOMAIN order.lines : order.lines[i] \in Line
    <2> HIDE DEF Line
    <2> QED BY <1>1
<1>3. IsFiniteSet(DOMAIN order.lines)
    BY <1>2, FS_Interval
<1>4. \A i \in DOMAIN order.lines : order.lines[i] \in Entry
    BY <1>2 DEF Entry
<1>5. order.shippings \in Seq(Int)
    <2> HIDE DEF Line
    <2> QED BY <1>1
<1>6. /\ order = [lines |-> order.lines, shippings |-> order.shippings,
                  lastId |-> order.lastId]
      /\ order # NoOrder
    <2> HIDE DEF Line
    <2> QED BY <1>1 DEF NoOrder
<1> QED BY <1>2, <1>3, <1>4, <1>5, <1>6 DEF IsShelf, IsList

LEMMA AmountsStart == AmountsInit => AmountsInv
<1> SUFFICES ASSUME AmountsInit PROVE AmountsInv
    OBVIOUS
<1>1. shelf = [s \in Stores |-> shelf[s]] /\ \A s \in Stores : shelf[s] = NoOrder \/ shelf[s] \in Sold
    BY DEF AmountsInit
<1>2. OperationType /\ Domains /\ MetHold /\ SumsHold
    BY <1>1, AmountsAssumption
       DEF AmountsInit, OperationType, Domains, MetHold, SumsHold
<1>3. StoresHold
    BY <1>1, SoldIsShelf
       DEF AmountsInit, StoresHold, StoreInv, IsDelivery, NoDelivery
<1> QED BY <1>2, <1>3 DEF AmountsInv

LEMMA AmountsStep == AmountsInv /\ [AmountsNext]_amountVars => AmountsInv'
<1> SUFFICES ASSUME AmountsInv, [AmountsNext]_amountVars PROVE AmountsInv'
    OBVIOUS
<1>1. ASSUME NEW form \in Forms, NEW percent \in Percent,
             NEW shippingTotal \in ShippingTotals(form), SaveForm(form, percent, shippingTotal)
      PROVE  AmountsInv'
    BY <1>1, AmountsSave
<1>2. CASE Complete
    BY <1>2, AmountsComplete
<1>3. ASSUME NEW s \in Stores, LoadOrder(s) PROVE AmountsInv'
    BY <1>3, AmountsLoad
<1>4. ASSUME NEW s \in Stores, DeliveryFails(s) \/ Retry(s) PROVE AmountsInv'
    BY <1>4, AmountsFails
<1>5. ASSUME NEW s \in Stores, StoreCreates(s) PROVE AmountsInv'
    BY <1>5, AmountsCreates
<1>6. ASSUME NEW s \in Stores, SnapshotRead(s) PROVE AmountsInv'
    BY <1>6, AmountsSnapshot
<1>7. ASSUME NEW s \in Stores, StoreUpdates(s) PROVE AmountsInv'
    BY <1>7, AmountsUpdates
<1>8. ASSUME NEW s \in Stores, ImportOrder(s) PROVE AmountsInv'
    BY <1>8, AmountsImport
<1>9. ASSUME NEW s \in Stores, RetouchOrder(s) PROVE AmountsInv'
    BY <1>9, AmountsRetouch
<1>10. CASE UNCHANGED amountVars
    BY <1>10 DEF amountVars, AmountsInv, OperationType, Domains, StoresHold, MetHold,
                 SumsHold, IsTheSum, Rows
<1> QED BY <1>1, <1>2, <1>3, <1>4, <1>5, <1>6, <1>7, <1>8, <1>9, <1>10 DEF AmountsNext

-----------------------------------------------------------------------------
(* What a quotation asks for.                                              *)

(* What is lost in a sum is at most what may be lost in its parts.         *)
LEMMA SumIsClose ==
    ASSUME NEW e, NEW b, NEW S, IsFiniteSet(S),
           \A x \in S : e[x] \in Int /\ b[x] \in Int /\ 2 * e[x] <= b[x] /\ -(2 * e[x]) <= b[x]
    PROVE  /\ SumFunctionOnSet(e, S) \in Int /\ SumFunctionOnSet(b, S) \in Int
           /\ 2 * SumFunctionOnSet(e, S) <= SumFunctionOnSet(b, S)
           /\ -(2 * SumFunctionOnSet(e, S)) <= SumFunctionOnSet(b, S)
<1> DEFINE more == [x \in S |-> 2 * e[x]]
           less == [x \in S |-> (-2) * e[x]]
<1>1. \A x \in S : /\ e[x] \in Int /\ b[x] \in Int /\ more[x] \in Int /\ less[x] \in Int
                   /\ more[x] = 2 * e[x] /\ less[x] = (-2) * e[x]
                   /\ more[x] <= b[x] /\ less[x] <= b[x]
    OBVIOUS
<1> HIDE DEF more, less
<1>2. SumFunctionOnSet(e, S) \in Int /\ SumFunctionOnSet(b, S) \in Int
    BY <1>1, SumType
<1>3. SumFunctionOnSet(more, S) = 2 * SumFunctionOnSet(e, S)
    <2>1. \A x \in S : e[x] \in Int /\ more[x] = 2 * e[x]
        BY <1>1
    <2> DEFINE two == 2
    <2>2. two \in Int /\ \A x \in S : e[x] \in Int /\ more[x] = two * e[x]
        BY <2>1
    <2> HIDE DEF two
    <2>3. SumFunctionOnSet(more, S) = two * SumFunctionOnSet(e, S)
        BY <2>2, SumTimes
    <2> QED BY <2>3 DEF two
<1>4. SumFunctionOnSet(less, S) = (-2) * SumFunctionOnSet(e, S)
    BY <1>1, SumTimes
<1>5. SumFunctionOnSet(more, S) <= SumFunctionOnSet(b, S)
    BY <1>1, SumAtMost
<1>6. SumFunctionOnSet(less, S) <= SumFunctionOnSet(b, S)
    BY <1>1, SumAtMost
<1> QED BY <1>2, <1>3, <1>4, <1>5, <1>6

LEMMA PercentType ==
    ASSUME operation.coupon \in Nat, NEW item \in Entry
    PROVE  PercentOf(item) \in Int
<1>1. Subtotal(item) \in Nat /\ item.total \in Int
    BY EntryType
<1>2. 10000 * Taken(item) \in Int
    BY <1>1 DEF Taken
<1>3. ASSUME Subtotal(item) > 0 PROVE Rounded(10000 * Taken(item), Subtotal(item)) \in Int
    BY <1>1, <1>2, <1>3, RoundedIsClose
<1> QED BY <1>3 DEF PercentOf

(* Without a coupon: the discount of a line, as a percentage of its cost.  *)
LEMMA LineIsQuoted ==
    ASSUME operation.coupon = 0, NEW item \in Entry, item.total \in Nat,
           item.total <= Subtotal(item), Modified(item) => Taken(item) = 0,
           NEW off, off = Subtotal(item) * (10000 - PercentOf(item)) - 10000 * item.total
    PROVE  off \in Int /\ 2 * off <= Subtotal(item) /\ -(2 * off) <= Subtotal(item)
<1> DEFINE cost == Subtotal(item)
           asked == PercentOf(item)
           taken == Taken(item)
<1>1. cost \in Nat /\ asked \in Int /\ item.total \in Nat /\ item.total <= cost
    BY EntryType, PercentType
<1>2. taken = cost - item.total /\ taken \in Nat
    BY <1>1 DEF Taken
<1>3. \A a, b, c, d \in Int : d = a - c => a * (10000 - b) - 10000 * c = 10000 * d - a * b
    OBVIOUS
<1>4. off = 10000 * taken - cost * asked
    <2> HIDE DEF cost, asked, taken
    <2>1. off = cost * (10000 - asked) - 10000 * item.total
        BY DEF cost, asked
    <2> QED BY <1>1, <1>2, <1>3, <2>1
<1>5. CASE Modified(item)
    <2>1. asked = 0 /\ taken = 0
        BY <1>5 DEF PercentOf
    <2> HIDE DEF cost, asked, taken
    <2> QED BY <1>1, <1>4, <2>1 DEF cost
<1>6. CASE ~Modified(item) /\ cost = 0
    <2>1. asked = 0
        BY <1>6 DEF PercentOf
    <2> HIDE DEF cost, asked, taken
    <2>2. taken = 0
        BY <1>1, <1>2, <1>6
    <2> QED BY <1>1, <1>4, <2>1, <2>2 DEF cost
<1>7. CASE ~Modified(item) /\ cost > 0
    <2>1. asked = Rounded(10000 * taken, cost)
        BY <1>7 DEF PercentOf
    <2> HIDE DEF cost, asked, taken
    <2>2. 10000 * taken \in Int
        BY <1>2
    <2>3. /\ 2 * (cost * asked - 10000 * taken) <= cost
          /\ 2 * (10000 * taken - cost * asked) <= cost
        BY <1>1, <1>7, <2>1, <2>2, RoundedIsClose
    <2>4. cost * asked \in Int
        BY <1>1
    <2>5. \A a, b, c \in Int : 2 * (a - b) <= c /\ 2 * (b - a) <= c =>
                2 * (b - a) <= c /\ -(2 * (b - a)) <= c
        OBVIOUS
    <2> QED BY <1>1, <1>4, <2>2, <2>3, <2>4, <2>5 DEF cost
<1> QED BY <1>1, <1>5, <1>6, <1>7

LEMMA QuotedType ==
    ASSUME operation.coupon \in Nat, NEW items, IsList(items)
    PROVE  /\ Quoted(items) \in Int
           /\ \A i \in DOMAIN items :
                Subtotal(items[i]) * (10000 - PercentOf(items[i])) \in Int
<1> DEFINE q == [i \in DOMAIN items |-> Subtotal(items[i]) * (10000 - PercentOf(items[i]))]
<1>1. ASSUME NEW i \in DOMAIN items
      PROVE  Subtotal(items[i]) * (10000 - PercentOf(items[i])) \in Int
    <2>1. items[i] \in Entry
        BY DEF IsList
    <2>2. Subtotal(items[i]) \in Int /\ PercentOf(items[i]) \in Int
        BY <2>1, EntryType, PercentType
    <2> QED BY <2>2
<1>2. \A i \in DOMAIN items : q[i] \in Int
    BY <1>1
<1>3. Quoted(items) = SumFunctionOnSet(q, DOMAIN items)
    BY DEF Quoted, SumFunction
<1>4. SumFunctionOnSet(q, DOMAIN items) \in Int
    <2> HIDE DEF q
    <2> QED BY <1>2, SumType DEF IsList
<1> QED BY <1>1, <1>3, <1>4

LEMMA ChargedRowIsQuoted ==
    ASSUME operation.coupon = 0, NEW items, IsList(items),
           \A i \in DOMAIN items :
                /\ items[i].total \in Nat /\ items[i].total <= Subtotal(items[i])
                /\ Modified(items[i]) => Taken(items[i]) = 0,
           NEW off, off = Quoted(items) - 10000 * Charge(items)
    PROVE  off \in Int /\ 2 * off <= Cost(items) /\ -(2 * off) <= Cost(items)
<1> DEFINE all == DOMAIN items
           q == [i \in all |-> Subtotal(items[i]) * (10000 - PercentOf(items[i]))]
           t == [i \in all |-> 10000 * items[i].total]
           e == [i \in all |-> q[i] - t[i]]
<1>1. IsFiniteSet(all) /\ operation.coupon \in Nat
    BY DEF IsList
<1>2. /\ Cost(items) = SumFunctionOnSet(Costs(items), all)
      /\ Charge(items) = SumFunctionOnSet(Totals(items), all)
      /\ Charge(items) \in Int /\ Cost(items) \in Nat
      /\ \A i \in all : Totals(items)[i] \in Int /\ Costs(items)[i] \in Int
    BY PartsType
<1>3. ASSUME NEW i \in all
      PROVE  /\ q[i] \in Int /\ t[i] \in Int /\ e[i] \in Int /\ q[i] = e[i] + t[i]
             /\ t[i] = 10000 * Totals(items)[i]
             /\ 2 * e[i] <= Costs(items)[i] /\ -(2 * e[i]) <= Costs(items)[i]
    <2>1. items[i] \in Entry /\ items[i].total \in Nat /\ items[i].total <= Subtotal(items[i])
            /\ (Modified(items[i]) => Taken(items[i]) = 0)
        BY DEF IsList
    <2>2. /\ e[i] = Subtotal(items[i]) * (10000 - PercentOf(items[i])) - 10000 * items[i].total
          /\ Costs(items)[i] = Subtotal(items[i]) /\ Totals(items)[i] = items[i].total
          /\ t[i] = 10000 * items[i].total /\ e[i] = q[i] - t[i]
          /\ q[i] = Subtotal(items[i]) * (10000 - PercentOf(items[i]))
        BY DEF Costs, Totals
    <2>3. q[i] \in Int
        BY <1>1, <2>2, QuotedType
    <2> HIDE DEF e, q, t
    <2>4. /\ 2 * e[i] <= Subtotal(items[i]) /\ -(2 * e[i]) <= Subtotal(items[i])
          /\ e[i] \in Int
        BY <2>1, <2>2, LineIsQuoted
    <2>5. t[i] \in Int
        BY <2>1, <2>2
    <2> QED BY <2>2, <2>3, <2>4, <2>5
<1>4. Quoted(items) = SumFunctionOnSet(q, all)
    BY DEF Quoted, SumFunction
<1> HIDE DEF q, t, e, all
<1>5. SumFunctionOnSet(q, all) = SumFunctionOnSet(e, all) + SumFunctionOnSet(t, all)
    BY <1>1, <1>3, SumPlus
<1>6. SumFunctionOnSet(t, all) = 10000 * SumFunctionOnSet(Totals(items), all)
    BY <1>1, <1>2, <1>3, SumTimes
<1>7. /\ SumFunctionOnSet(e, all) \in Int
      /\ 2 * SumFunctionOnSet(e, all) <= SumFunctionOnSet(Costs(items), all)
      /\ -(2 * SumFunctionOnSet(e, all)) <= SumFunctionOnSet(Costs(items), all)
    BY <1>1, <1>2, <1>3, SumIsClose
<1>8. off = SumFunctionOnSet(e, all)
    <2>1. \A a, b \in Int : (a + b) - b = a
        OBVIOUS
    <2>2. off = (SumFunctionOnSet(e, all) + 10000 * Charge(items)) - 10000 * Charge(items)
        BY <1>2, <1>4, <1>5, <1>6
    <2>3. 10000 * Charge(items) \in Int
        BY <1>2
    <2> QED BY <1>7, <2>1, <2>2, <2>3
<1> QED BY <1>2, <1>7, <1>8

(* With a coupon: its percentage of what the items that take part cost.    *)
Beyond(items, amount) == Quoted(items) - 10000 * amount

LEMMA CouponRowIsQuoted ==
    ASSUME operation.coupon \in Nat \ {0}, NEW items, IsList(items),
           NEW off, off = Beyond(items, Cost(items) - Discount(items, operation.coupon))
    PROVE  off \in Int /\ 2 * off <= 10000 /\ -(2 * off) <= 10000
<1> DEFINE all == DOMAIN items
           part == Unmodified(items)
           c == operation.coupon
           whole == SumFunctionOnSet(Costs(items), part)
           q == [i \in all |-> Subtotal(items[i]) * (10000 - PercentOf(items[i]))]
           g == [i \in all |-> 10000 * Costs(items)[i]]
           f == [i \in all |-> IF i \in part THEN Costs(items)[i] ELSE 0]
           h == [i \in all |-> (100 * c) * f[i]]
<1>1. /\ IsFiniteSet(all) /\ part \in SUBSET all /\ IsFiniteSet(part)
      /\ IsFiniteSet(all \ part) /\ c \in Nat /\ c # 0
    BY SubsetIsFinite DEF IsList, Unmodified
<1>2. /\ Cost(items) = SumFunctionOnSet(Costs(items), all) /\ Cost(items) \in Nat
      /\ \A i \in all : Costs(items)[i] \in Nat
    BY PartsType
<1>3. whole \in Nat /\ Discount(items, c) = Rounded(whole * c, 100)
    BY EligibleCost DEF Discount
<1>4. Quoted(items) = SumFunctionOnSet(q, all)
    BY DEF Quoted, SumFunction
<1>5. ASSUME NEW i \in all
      PROVE  /\ f[i] \in Int /\ h[i] \in Int /\ g[i] \in Int /\ q[i] \in Int
             /\ h[i] = (100 * c) * f[i] /\ g[i] = 10000 * Costs(items)[i]
             /\ g[i] = q[i] + h[i]
    <2>1. /\ q[i] = Subtotal(items[i]) * (10000 - PercentOf(items[i]))
          /\ f[i] = IF i \in part THEN Costs(items)[i] ELSE 0
          /\ h[i] = (100 * c) * f[i] /\ g[i] = 10000 * Costs(items)[i]
          /\ Costs(items)[i] = Subtotal(items[i])
        BY DEF Costs
    <2>2. PercentOf(items[i]) = IF i \in part THEN 100 * c ELSE 0
        BY <1>1 DEF PercentOf, Unmodified
    <2>3. Costs(items)[i] \in Nat
        BY <1>2
    <2> HIDE DEF q, f, h, g, c, part, all
    <2>4. \A a, b \in Int : 10000 * a = a * (10000 - 100 * b) + (100 * b) * a
                /\ a * (10000 - 100 * b) \in Int /\ (100 * b) * a \in Int
        OBVIOUS
    <2>5. CASE i \in part
        <3>1. q[i] = Costs(items)[i] * (10000 - 100 * c) /\ h[i] = (100 * c) * Costs(items)[i]
                /\ f[i] = Costs(items)[i]
            BY <2>1, <2>2, <2>5
        <3> QED BY <1>1, <2>1, <2>3, <2>4, <3>1
    <2>6. CASE i \notin part
        <3>1. q[i] = Costs(items)[i] * (10000 - 0) /\ f[i] = 0 /\ h[i] = (100 * c) * 0
            BY <2>1, <2>2, <2>6
        <3>2. (100 * c) * 0 = 0
            BY <1>1
        <3> QED BY <1>1, <2>1, <2>3, <3>1, <3>2
    <2> QED BY <2>5, <2>6
<1>6. SumFunctionOnSet(f, all) = whole
    <2>1. \A i \in part : f[i] = Costs(items)[i]
        BY <1>1
    <2>2. \A i \in all \ part : f[i] = 0
        OBVIOUS
    <2> HIDE DEF f, q, h, g, whole, part, all, c
    <2>3. all = part \cup (all \ part) /\ part \cap (all \ part) = {}
        BY <1>1
    <2>4. \A i \in part \cup (all \ part) : f[i] \in Int
        BY <1>5, <2>3
    <2>5. SumFunctionOnSet(f, part \cup (all \ part)) =
            SumFunctionOnSet(f, part) + SumFunctionOnSet(f, all \ part)
        BY <1>1, <2>3, <2>4, SumUnion
    <2>6. SumFunctionOnSet(f, part) = SumFunctionOnSet(Costs(items), part)
        BY <1>1, <2>1, <2>4, SumAgrees
    <2>7. SumFunctionOnSet(f, all \ part) = 0 * Cardinality(all \ part)
        BY <1>1, <2>2, SumOfEqual
    <2>8. Cardinality(all \ part) \in Nat /\ SumFunctionOnSet(f, part) \in Int
        BY <1>1, <2>4, FS_CardinalityType, SumType
    <2>9. 0 * Cardinality(all \ part) = 0
        BY <2>8
    <2>10. SumFunctionOnSet(f, all) = SumFunctionOnSet(f, part) + 0
        BY <2>3, <2>5, <2>7, <2>9
    <2> QED BY <2>6, <2>8, <2>10 DEF whole
<1> HIDE DEF f, q, h, g, whole, part, all
<1>7. SumFunctionOnSet(g, all) = SumFunctionOnSet(q, all) + SumFunctionOnSet(h, all)
    BY <1>1, <1>5, SumPlus
<1>8. SumFunctionOnSet(g, all) = 10000 * Cost(items)
    <2> DEFINE many == 10000
    <2>1. many \in Int /\ \A i \in all : Costs(items)[i] \in Int /\ g[i] = many * Costs(items)[i]
        BY <1>2, <1>5
    <2> HIDE DEF many
    <2>2. SumFunctionOnSet(g, all) = many * SumFunctionOnSet(Costs(items), all)
        BY <1>1, <2>1, SumTimes
    <2> QED BY <1>2, <2>2 DEF many
<1>9. SumFunctionOnSet(h, all) = (100 * c) * whole
    <2> DEFINE many == 100 * c
    <2>1. many \in Int
        BY <1>1
    <2>2. \A i \in all : f[i] \in Int /\ h[i] = many * f[i]
        BY <1>5
    <2> HIDE DEF many
    <2>3. SumFunctionOnSet(h, all) = many * SumFunctionOnSet(f, all)
        <3>1. IsFiniteSet(all)
            BY <1>1
        <3> QED BY <2>1, <2>2, <3>1, SumTimes
    <2> QED BY <1>6, <2>3 DEF many
<1>10. SumFunctionOnSet(q, all) \in Int
    BY <1>1, <1>5, SumType
<1> DEFINE n == whole * c
           d == Rounded(n, 100)
<1>11. n \in Nat /\ (100 * c) * whole = 100 * n
    <2>1. \A a, b \in Nat : a * b \in Nat /\ (100 * b) * a = 100 * (a * b)
        OBVIOUS
    <2> HIDE DEF c
    <2> QED BY <1>1, <1>3, <2>1
<1> HIDE DEF n
<1>12. d \in Int /\ 2 * (100 * d - n) <= 100 /\ 2 * (n - 100 * d) <= 100
    <2>1. n \in Int
        BY <1>11
    <2> QED BY <2>1, RoundedIsClose
<1>13. off = Quoted(items) - 10000 * (Cost(items) - d)
    BY <1>3 DEF n, Beyond
<1> HIDE DEF d, c
<1>14. 10000 * Cost(items) = Quoted(items) + 100 * n /\ Quoted(items) \in Int
    BY <1>4, <1>7, <1>8, <1>9, <1>10, <1>11
<1>15. off = 100 * (100 * d - n)
    BY <1>2, <1>11, <1>12, <1>13, <1>14
<1> QED BY <1>11, <1>12, <1>15

(* A row, which asks for what it comes to but its shipping.                *)
LEMMA RowIsQuoted ==
    ASSUME operation.coupon \in Nat, NEW row, IsRow(row),
           row.coupons \in {{}, {operation.coupon}},
           operation.coupon # 0 => row.coupons = {operation.coupon},
           \A i \in DOMAIN row.items :
                /\ row.items[i].total <= Subtotal(row.items[i])
                /\ Modified(row.items[i]) => Taken(row.items[i]) = 0,
           NEW off, off = Quoted(row.items) - 10000 * (row.total - row.shipping)
    PROVE  /\ Quoted(row.items) \in Int /\ off \in Int
           /\ 2 * off <= 10000 + Cost(row.items) /\ -(2 * off) <= 10000 + Cost(row.items)
<1>1. /\ IsList(row.items) /\ row.discount \in Nat /\ row.shipping \in Nat
      /\ row.total = Cost(row.items) - row.discount + row.shipping
      /\ \A i \in DOMAIN row.items : row.items[i].total \in Nat
    BY DEF IsRow
<1>2. Quoted(row.items) \in Int /\ Cost(row.items) \in Nat /\ Charge(row.items) \in Int
    BY <1>1, QuotedType, PartsType
<1>3. off = Quoted(row.items) - 10000 * (Cost(row.items) - row.discount)
    <2>1. row.total - row.shipping = Cost(row.items) - row.discount
        BY <1>1, <1>2
    <2> QED BY <2>1
<1>4. CASE operation.coupon # 0
    <2>1. row.discount = Discount(row.items, operation.coupon)
        BY <1>4 DEF IsRow, FromStore, FromCoupon
    <2>2. off = Beyond(row.items, Cost(row.items) - Discount(row.items, operation.coupon))
        BY <1>3, <2>1 DEF Beyond
    <2>3. off \in Int /\ 2 * off <= 10000 /\ -(2 * off) <= 10000
        BY <1>1, <1>4, <2>2, CouponRowIsQuoted
    <2> QED BY <1>2, <2>3
<1>5. CASE operation.coupon = 0
    <2>1. row.discount = Cost(row.items) - Charge(row.items)
        <3>1. CASE FromStore(row)
            BY <3>1 DEF FromStore
        <3>2. CASE FromCoupon(row, 0)
            <4>1. Cost(Eligible(row.items)) \in Nat
                BY <1>1, EligibleCost
            <4>2. Cost(Eligible(row.items)) * 0 = 0 /\ Rounded(0, 100) = 0
                BY <4>1 DEF Rounded
            <4>3. row.discount = 0
                BY <3>2, <4>2 DEF FromCoupon, Discount
            <4>4. \A i \in DOMAIN row.items :
                    Totals(row.items)[i] \in Int /\ Totals(row.items)[i] = Costs(row.items)[i]
                BY <1>1, <3>2 DEF FromCoupon, Totals, Costs
            <4>5. IsFiniteSet(DOMAIN row.items)
                BY <1>1 DEF IsList
            <4>6. Charge(row.items) = Cost(row.items)
                BY <1>1, <4>4, <4>5, PartsType, SumAgrees
            <4> QED BY <1>2, <4>3, <4>6
        <3> QED BY <1>5, <3>1, <3>2 DEF IsRow, FromCoupon
    <2>2. off = Quoted(row.items) - 10000 * Charge(row.items)
        <3>1. Cost(row.items) - row.discount = Charge(row.items)
            BY <1>2, <2>1
        <3> QED BY <1>3, <3>1
    <2>3. off \in Int /\ 2 * off <= Cost(row.items) /\ -(2 * off) <= Cost(row.items)
        BY <1>1, <1>5, <2>2, ChargedRowIsQuoted
    <2> QED BY <1>2, <2>3
<1> QED BY <1>4, <1>5

LEMMA QuotationHolds == AmountsInv => QuotationAgrees
<1> SUFFICES ASSUME AmountsInv, Rows # {}, ~reported,
                    operation.coupon # 0 =>
                        \A s \in Rows : storeOrder[s].coupons = {operation.coupon},
                    \A s \in Rows : \A i \in DOMAIN storeOrder[s].items :
                        LET item == storeOrder[s].items[i]
                        IN  ~(item.total > Subtotal(item)) /\ ~(Modified(item) /\ Taken(item) # 0)
             PROVE  LET cost == SumFunction([s \in Rows |-> Cost(storeOrder[s].items)])
                        off == 2 * (QuotedTotal - 10000 * operation.total)
                        bound == 10000 * Cardinality(Rows) + cost
                    IN  off \in (-bound)..bound
    BY DEF QuotationAgrees, Quotable
<1> DEFINE q == [s \in Rows |-> Quoted(storeOrder[s].items)]
           ship == [s \in Rows |-> storeOrder[s].shipping]
           total == [s \in Rows |-> storeOrder[s].total]
           net == [s \in Rows |-> total[s] - ship[s]]
           nets == [s \in Rows |-> 10000 * net[s]]
           e == [s \in Rows |-> q[s] - nets[s]]
           cost == [s \in Rows |-> Cost(storeOrder[s].items)]
           half == [s \in Rows |-> 10000]
           b == [s \in Rows |-> half[s] + cost[s]]
<1>1. operation.coupon \in Nat
    BY DEF AmountsInv, OperationType
<1>2. ASSUME NEW s \in Rows
      PROVE  /\ IsRow(storeOrder[s]) /\ storeOrder[s].coupons \in {{}, {operation.coupon}}
             /\ operation.state # "NONE"
    BY DEF AmountsInv, StoresHold, StoreInv, Rows
<1>3. IsTheSum
    BY <1>2 DEF AmountsInv, SumsHold
<1>4. IsFiniteSet(Rows) /\ Cardinality(Rows) \in Nat
    <2>1. Rows \in SUBSET Stores
        BY DEF Rows
    <2> QED BY <2>1, StoresAreFinite, SubsetIsFinite, FS_CardinalityType
<1>5. ASSUME NEW s \in Rows
      PROVE  /\ q[s] \in Int /\ ship[s] \in Int /\ total[s] \in Int /\ net[s] \in Int
             /\ nets[s] \in Int /\ e[s] \in Int /\ cost[s] \in Int /\ half[s] = 10000
             /\ b[s] \in Int
             /\ total[s] = net[s] + ship[s] /\ nets[s] = 10000 * net[s]
             /\ q[s] = e[s] + nets[s] /\ b[s] = half[s] + cost[s]
             /\ 2 * e[s] <= b[s] /\ -(2 * e[s]) <= b[s]
    <2> DEFINE row == storeOrder[s]
    <2>1. IsRow(row) /\ row.coupons \in {{}, {operation.coupon}}
            /\ (operation.coupon # 0 => row.coupons = {operation.coupon})
        BY <1>2
    <2>2. /\ q[s] = Quoted(row.items) /\ ship[s] = row.shipping /\ total[s] = row.total
          /\ net[s] = total[s] - ship[s] /\ nets[s] = 10000 * net[s] /\ e[s] = q[s] - nets[s]
          /\ cost[s] = Cost(row.items) /\ half[s] = 10000 /\ b[s] = half[s] + cost[s]
        OBVIOUS
    <2>3. \A i \in DOMAIN row.items :
            /\ row.items[i].total <= Subtotal(row.items[i])
            /\ Modified(row.items[i]) => Taken(row.items[i]) = 0
        <3> SUFFICES ASSUME NEW i \in DOMAIN row.items
                     PROVE  /\ row.items[i].total <= Subtotal(row.items[i])
                            /\ Modified(row.items[i]) => Taken(row.items[i]) = 0
            OBVIOUS
        <3>1. row.items[i] \in Entry
            BY <2>1 DEF IsRow, IsList
        <3>2. row.items[i].total \in Int /\ Subtotal(row.items[i]) \in Nat
            BY <3>1, EntryType
        <3> QED BY <3>2
    <2>4. /\ row.shipping \in Nat /\ row.discount \in Nat /\ Cost(row.items) \in Nat
          /\ row.total = Cost(row.items) - row.discount + row.shipping
        BY <2>1, PartsType DEF IsRow
    <2> HIDE DEF q, ship, total, net, nets, e, cost, half, b, row
    <2>5. /\ ship[s] \in Int /\ total[s] \in Int /\ cost[s] \in Int /\ net[s] \in Int
          /\ nets[s] \in Int /\ total[s] = net[s] + ship[s] /\ b[s] \in Int
        BY <2>2, <2>4
    <2>6. e[s] = Quoted(row.items) - 10000 * (row.total - row.shipping)
        BY <2>2
    <2>7. /\ Quoted(row.items) \in Int /\ e[s] \in Int
          /\ 2 * e[s] <= 10000 + Cost(row.items) /\ -(2 * e[s]) <= 10000 + Cost(row.items)
        BY <1>1, <2>1, <2>3, <2>6, RowIsQuoted
    <2>8. q[s] = e[s] + nets[s]
        BY <2>2, <2>5, <2>7
    <2> QED BY <2>2, <2>5, <2>7, <2>8
<1>6. /\ QuotedTotal = SumFunctionOnSet(q, Rows) + 10000 * operation.shipping
      /\ operation.shipping = SumFunctionOnSet(ship, Rows)
      /\ operation.total = SumFunctionOnSet(total, Rows)
      /\ SumFunction([s \in Rows |-> Cost(storeOrder[s].items)]) = SumFunctionOnSet(cost, Rows)
    BY <1>3 DEF QuotedTotal, IsTheSum, SumFunction
<1> HIDE DEF q, ship, total, net, nets, e, cost, half, b
<1>7. SumFunctionOnSet(total, Rows) = SumFunctionOnSet(net, Rows) + SumFunctionOnSet(ship, Rows)
    BY <1>4, <1>5, SumPlus
<1>8. SumFunctionOnSet(q, Rows) = SumFunctionOnSet(e, Rows) + SumFunctionOnSet(nets, Rows)
    BY <1>4, <1>5, SumPlus
<1>9. SumFunctionOnSet(nets, Rows) = 10000 * SumFunctionOnSet(net, Rows)
    <2> DEFINE many == 10000
    <2>1. many \in Int /\ \A s \in Rows : net[s] \in Int /\ nets[s] = many * net[s]
        BY <1>5
    <2> HIDE DEF many
    <2>2. SumFunctionOnSet(nets, Rows) = many * SumFunctionOnSet(net, Rows)
        BY <1>4, <2>1, SumTimes
    <2> QED BY <2>2 DEF many
<1>10. SumFunctionOnSet(b, Rows) = SumFunctionOnSet(half, Rows) + SumFunctionOnSet(cost, Rows)
    <2>1. \A s \in Rows : half[s] \in Int /\ cost[s] \in Int /\ b[s] = half[s] + cost[s]
        BY <1>5
    <2> QED BY <1>4, <2>1, SumPlus
<1>11. SumFunctionOnSet(half, Rows) = 10000 * Cardinality(Rows)
    <2> DEFINE many == 10000
    <2>1. many \in Int /\ \A s \in Rows : half[s] = many
        BY <1>5
    <2> HIDE DEF many
    <2>2. SumFunctionOnSet(half, Rows) = many * Cardinality(Rows)
        BY <1>4, <2>1, SumOfEqual
    <2> QED BY <2>2 DEF many
<1>12. /\ SumFunctionOnSet(e, Rows) \in Int /\ SumFunctionOnSet(b, Rows) \in Int
       /\ 2 * SumFunctionOnSet(e, Rows) <= SumFunctionOnSet(b, Rows)
       /\ -(2 * SumFunctionOnSet(e, Rows)) <= SumFunctionOnSet(b, Rows)
    <2>1. \A s \in Rows : e[s] \in Int /\ b[s] \in Int /\ 2 * e[s] <= b[s] /\ -(2 * e[s]) <= b[s]
        BY <1>5
    <2> QED BY <1>4, <2>1, SumIsClose
<1>13. /\ SumFunctionOnSet(net, Rows) \in Int /\ SumFunctionOnSet(ship, Rows) \in Int
       /\ SumFunctionOnSet(cost, Rows) \in Int
    BY <1>4, <1>5, SumType
<1>14. \A x, n, h, t, Q : x \in Int /\ n \in Int /\ h \in Int /\ t = n + h
            /\ Q = x + 10000 * n + 10000 * h => 2 * (Q - 10000 * t) = 2 * x
    OBVIOUS
<1>15. 2 * (QuotedTotal - 10000 * operation.total) = 2 * SumFunctionOnSet(e, Rows)
    <2>1. QuotedTotal = SumFunctionOnSet(e, Rows) + 10000 * SumFunctionOnSet(net, Rows)
                            + 10000 * SumFunctionOnSet(ship, Rows)
        BY <1>6, <1>8, <1>9
    <2> QED BY <1>6, <1>7, <1>12, <1>13, <1>14, <2>1
<1>16. \A x, y \in Int : 2 * x <= y /\ -(2 * x) <= y => 2 * x \in (-y)..y
    OBVIOUS
<1>17. 10000 * Cardinality(Rows) + SumFunction([s \in Rows |-> Cost(storeOrder[s].items)])
            = SumFunctionOnSet(b, Rows)
    BY <1>6, <1>10, <1>11
<1>18. 2 * (QuotedTotal - 10000 * operation.total)
            \in (-SumFunctionOnSet(b, Rows))..SumFunctionOnSet(b, Rows)
    BY <1>12, <1>15, <1>16
<1> QED BY <1>17, <1>18

-----------------------------------------------------------------------------
(* What holds of every state.                                              *)

LEMMA AmountsAlways == AmountsSpec => []AmountsInv
BY AmountsStart, AmountsStep, PTL DEF AmountsSpec

(* The operation and its jobs are in a state the code knows, and every row *)
(* adds up, whatever forms, webhooks and deliveries made of it.            *)
THEOREM AmountsTypes == AmountsSpec => []AmountsTypeOK
<1>1. AmountsInv => AmountsTypeOK
    BY DEF AmountsInv, OperationType, Domains, StoresHold, StoreInv, IsDelivery, IsRow,
           AmountsTypeOK, Rows
<1> QED BY <1>1, AmountsAlways, PTL

(* The rows add up to the operation, to the cent, until a store writes its *)
(* amounts on an operation of two; and after a delivery the store charges  *)
(* what the CRM shows, whatever lines the store had and whatever happened  *)
(* in between (prepare, WooOrderOutboundService and the webhooks).         *)
THEOREM AmountsDoAgree == AmountsSpec => []AmountsAgree
<1>1. AmountsInv => AmountsAgree
    BY DEF AmountsInv, SumsHold, MetHold, Met, Agrees, NothingToDiscount, AmountsAgree
<1> QED BY <1>1, AmountsAlways, PTL

(* A quotation asks for what the operation shows, but for half a cent per  *)
(* store and half a hundredth of a percent of a line (buildQuotation).     *)
THEOREM QuotationsAgree == AmountsSpec => []QuotationAgrees
BY QuotationHolds, AmountsAlways, PTL

(* What a store charges follows the rule of the coupon: lowered prices are *)
(* charged in full, the others bear the percentage, rounded once           *)
(* (resolvedLines and distributedDiscounts).                               *)
THEOREM LoweredPricesDoKeepOut == AmountsSpec => []LoweredPricesKeepOut
<1>1. AmountsInv => LoweredPricesKeepOut
    BY DEF AmountsInv, MetHold, Met, CouponRule, LoweredPricesKeepOut
<1> QED BY <1>1, AmountsAlways, PTL
=============================================================================
