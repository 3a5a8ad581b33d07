------------------------------ MODULE SumLemmas ------------------------------
(***************************************************************************)
(* What a sum over a finite set is, whatever element is taken first:       *)
(* SumFunctionOnSet of the community modules, which the ledger, the run    *)
(* budgets and the response cache add up with.  The induction theorems of  *)
(* the library cannot be instantiated here, so induction is stated for a   *)
(* set of numbers and for a set of sets.                                   *)
(***************************************************************************)
EXTENDS Integers, Functions, FiniteSetTheorems, WellFoundedInduction, TLAPS

-----------------------------------------------------------------------------
(* Induction. *)

(* Every set of numbers has a smallest.                                    *)
LEMMA SmallestOfNaturals ==
  ASSUME NEW S \in SUBSET Nat, S # {}
  PROVE  \E s \in S : \A d \in S : ~(d < s)
<1> DEFINE Below == OpToRel(<, Nat)
<1>1. IsWellFoundedOn(Below, Nat)
  BY NatLessThanWellFounded
<1>2. \A x, y \in Nat : x < y => <<x, y>> \in Below
  BY DEF OpToRel
<1> HIDE DEF Below
<1>3. \E s \in S : \A d \in S : <<d, s>> \notin Below
  BY <1>1, WFMin
<1> QED BY <1>2, <1>3

(* A set of numbers that holds 0 and with a number the next holds all.     *)
LEMMA EveryNatural ==
  ASSUME NEW G, 0 \in G, \A n \in Nat : n \in G => n + 1 \in G
  PROVE  Nat \subseteq G
<1> SUFFICES ASSUME Nat \ G # {} PROVE FALSE
  OBVIOUS
<1>1. PICK s \in Nat \ G : \A d \in Nat \ G : ~(d < s)
  BY SmallestOfNaturals
<1>2. s - 1 \in Nat /\ s - 1 < s
  BY <1>1
<1>3. s - 1 \in G
  BY <1>1, <1>2
<1> QED BY <1>1, <1>2, <1>3

(* A set of sets that holds the empty set and, with a part of S, that part *)
(* and one more element, holds every part of a finite S.                   *)
LEMMA EveryPart ==
  ASSUME NEW S, IsFiniteSet(S), NEW G, {} \in G,
         \A T \in SUBSET S, x \in S : T \in G /\ x \notin T => T \cup {x} \in G
  PROVE  SUBSET S \subseteq G
<1> DEFINE Sizes == {n \in Nat : \A T \in SUBSET S : Cardinality(T) = n => T \in G}
<1>0. \A T \in SUBSET S : IsFiniteSet(T) /\ Cardinality(T) \in Nat
  BY FS_Subset, FS_CardinalityType
<1>1. 0 \in Sizes
  BY <1>0, FS_EmptySet
<1>2. ASSUME NEW n \in Nat, n \in Sizes PROVE n + 1 \in Sizes
  <2> SUFFICES ASSUME NEW T \in SUBSET S, Cardinality(T) = n + 1 PROVE T \in G
    OBVIOUS
  <2>0. T # {}
    <3>1. Cardinality({}) = 0 /\ n + 1 # 0
      BY FS_EmptySet
    <3> QED BY <3>1
  <2>1. PICK x : x \in T
    BY <2>0
  <2>2. IsFiniteSet(T) /\ Cardinality(T \ {x}) = n
    BY <1>0, <2>1, FS_RemoveElement
  <2>3. T \ {x} \in G
    BY <1>2, <2>2
  <2>4. T = (T \ {x}) \cup {x} /\ T \ {x} \in SUBSET S /\ x \in S /\ x \notin T \ {x}
    BY <2>1
  <2> QED BY <2>3, <2>4
<1>3. Nat \subseteq Sizes
  <2> HIDE DEF Sizes
  <2> QED BY <1>1, <1>2, EveryNatural
<1> QED BY <1>0, <1>3

-----------------------------------------------------------------------------
(* The recursion of the sum. *)

Chosen(s) == CHOOSE x \in s : TRUE
Step(g, it, s) == IF s = {} THEN 0 ELSE g[Chosen(s)] + it[s \ {Chosen(s)}]
Adder(g, S) == CHOOSE it : it = [s \in SUBSET S |-> Step(g, it, s)]

(* The sum is defined by recursion over the parts of the set.              *)
LEMMA SumIsAdder ==
  ASSUME NEW g, NEW S
  PROVE  SumFunctionOnSet(g, S) = Adder(g, S)[S]
BY DEF SumFunctionOnSet, FoldFunctionOnSet, MapThenFoldSet, Adder, Step, Chosen

(* The element taken first is one of the set.                              *)
LEMMA ChosenIn == ASSUME NEW s, s # {} PROVE Chosen(s) \in s
BY DEF Chosen

(* There is such a function: for the parts of up to n elements, and so for *)
(* all.                                                                    *)
LEMMA AdderExists ==
  ASSUME NEW g, NEW S, IsFiniteSet(S)
  PROVE  \A s \in SUBSET S : Adder(g, S)[s] = Step(g, Adder(g, S), s)
<1> DEFINE Upto(n) == {s \in SUBSET S : Cardinality(s) <= n}
           Good == {n \in Nat : \E it : it = [s \in Upto(n) |-> Step(g, it, s)]}
<1>0. \A T \in SUBSET S : IsFiniteSet(T) /\ Cardinality(T) \in Nat
  BY FS_Subset, FS_CardinalityType
<1>1. 0 \in Good
  <2>1. Upto(0) = {{}}
    BY <1>0, FS_EmptySet
  <2> DEFINE it == [s \in Upto(0) |-> 0]
  <2>2. it = [s \in Upto(0) |-> Step(g, it, s)]
    BY <2>1 DEF Step
  <2> QED BY <2>2
<1>2. ASSUME NEW n \in Nat, n \in Good PROVE n + 1 \in Good
  <2>1. PICK it : it = [s \in Upto(n) |-> Step(g, it, s)]
    BY <1>2
  <2> DEFINE more == [s \in Upto(n + 1) |-> Step(g, it, s)]
  <2>2. \A s \in Upto(n) : s \in Upto(n + 1) /\ more[s] = it[s]
    <3> SUFFICES ASSUME NEW s \in Upto(n) PROVE s \in Upto(n + 1) /\ more[s] = it[s]
      OBVIOUS
    <3>1. s \in Upto(n + 1)
      BY <1>0
    <3>2. it[s] = Step(g, it, s)
      BY <2>1
    <3> QED BY <3>1, <3>2
  <2>3. ASSUME NEW s \in Upto(n + 1) PROVE Step(g, it, s) = Step(g, more, s)
    <3>1. CASE s = {}
      BY <3>1 DEF Step
    <3>2. CASE s # {}
      <4>1. Chosen(s) \in s
        BY <3>2, ChosenIn
      <4>2. Cardinality(s \ {Chosen(s)}) = Cardinality(s) - 1
        BY <1>0, <4>1, FS_RemoveElement
      <4>3. s \ {Chosen(s)} \in Upto(n)
        BY <1>0, <4>2
      <4> QED BY <2>2, <3>2, <4>3 DEF Step
    <3> QED BY <3>1, <3>2
  <2>4. more = [s \in Upto(n + 1) |-> Step(g, more, s)]
    BY <2>3
  <2> HIDE DEF more, Upto
  <2> QED BY <2>4
<1>3. Nat \subseteq Good
  <2> HIDE DEF Good
  <2> QED BY <1>1, <1>2, EveryNatural
<1>4. Upto(Cardinality(S)) = SUBSET S
  BY <1>0, FS_Subset
<1>5. \E it : it = [s \in SUBSET S |-> Step(g, it, s)]
  <2>1. Cardinality(S) \in Nat
    BY <1>0
  <2>2. PICK it : it = [s \in Upto(Cardinality(S)) |-> Step(g, it, s)]
    BY <1>3, <2>1
  <2> HIDE DEF Upto
  <2> QED BY <1>4, <2>2
<1>6. Adder(g, S) = [s \in SUBSET S |-> Step(g, Adder(g, S), s)]
  BY <1>5 DEF Adder
<1> QED BY <1>6

(* It gives a part the same sum on a larger set.                           *)
LEMMA SumOfPart ==
  ASSUME NEW g, NEW S, IsFiniteSet(S), NEW T \in SUBSET S
  PROVE  Adder(g, S)[T] = SumFunctionOnSet(g, T)
<1> DEFINE A == Adder(g, S)
           B == Adder(g, T)
           Good == {n \in Nat : \A s \in SUBSET T : Cardinality(s) = n => A[s] = B[s]}
<1>0. IsFiniteSet(T) /\ \A s \in SUBSET T : IsFiniteSet(s) /\ Cardinality(s) \in Nat
  BY FS_Subset, FS_CardinalityType
<1>1. \A s \in SUBSET T : A[s] = Step(g, A, s) /\ B[s] = Step(g, B, s)
  BY <1>0, AdderExists
<1> HIDE DEF A, B
<1>2. 0 \in Good
  BY <1>0, <1>1, FS_EmptySet DEF Step
<1>3. ASSUME NEW n \in Nat, n \in Good PROVE n + 1 \in Good
  <2> SUFFICES ASSUME NEW s \in SUBSET T, Cardinality(s) = n + 1 PROVE A[s] = B[s]
    OBVIOUS
  <2>1. Chosen(s) \in s
    BY FS_EmptySet, ChosenIn
  <2>2. s \ {Chosen(s)} \in SUBSET T /\ Cardinality(s \ {Chosen(s)}) = n
    BY <1>0, <2>1, FS_RemoveElement
  <2>3. A[s \ {Chosen(s)}] = B[s \ {Chosen(s)}]
    BY <1>3, <2>2
  <2> QED BY <1>1, <2>3 DEF Step
<1>4. Nat \subseteq Good
  <2> HIDE DEF Good
  <2> QED BY <1>2, <1>3, EveryNatural
<1>5. A[T] = B[T]
  BY <1>0, <1>4
<1> QED BY <1>5, SumIsAdder DEF A, B

(* The sum of nothing, and of the first element and the rest.              *)
LEMMA SumSteps ==
  ASSUME NEW g, NEW S, IsFiniteSet(S)
  PROVE  /\ SumFunctionOnSet(g, {}) = 0
         /\ S # {} => SumFunctionOnSet(g, S)
                        = g[Chosen(S)] + SumFunctionOnSet(g, S \ {Chosen(S)})
<1>1. SumFunctionOnSet(g, {}) = 0
  BY SumIsAdder, AdderExists, FS_EmptySet DEF Step
<1>2. ASSUME S # {}
      PROVE  SumFunctionOnSet(g, S) = g[Chosen(S)] + SumFunctionOnSet(g, S \ {Chosen(S)})
  <2>1. Adder(g, S)[S] = g[Chosen(S)] + Adder(g, S)[S \ {Chosen(S)}]
    BY <1>2, AdderExists DEF Step
  <2> QED BY <2>1, SumIsAdder, SumOfPart
<1> QED BY <1>1, <1>2

-----------------------------------------------------------------------------
(* What a sum is. *)

(* The sum of integers is one.                                             *)
LEMMA SumType ==
  ASSUME NEW g, NEW S, IsFiniteSet(S), \A x \in S : g[x] \in Int
  PROVE  SumFunctionOnSet(g, S) \in Int
<1> DEFINE Good == {n \in Nat : \A T \in SUBSET S : Cardinality(T) = n =>
                                   SumFunctionOnSet(g, T) \in Int}
<1>0. \A T \in SUBSET S : IsFiniteSet(T) /\ Cardinality(T) \in Nat
  BY FS_Subset, FS_CardinalityType
<1>1. 0 \in Good
  BY <1>0, SumSteps, FS_EmptySet
<1>2. ASSUME NEW n \in Nat, n \in Good PROVE n + 1 \in Good
  <2> SUFFICES ASSUME NEW T \in SUBSET S, Cardinality(T) = n + 1
               PROVE  SumFunctionOnSet(g, T) \in Int
    OBVIOUS
  <2>1. T # {} /\ Chosen(T) \in T
    BY FS_EmptySet, ChosenIn
  <2>2. T \ {Chosen(T)} \in SUBSET S /\ Cardinality(T \ {Chosen(T)}) = n
    <3>1. Cardinality(T \ {Chosen(T)}) = Cardinality(T) - 1
      BY <1>0, <2>1, FS_RemoveElement
    <3> QED BY <3>1
  <2>3. SumFunctionOnSet(g, T \ {Chosen(T)}) \in Int /\ g[Chosen(T)] \in Int
    BY <1>2, <2>1, <2>2
  <2> QED BY <1>0, <2>1, <2>3, SumSteps
<1>3. Nat \subseteq Good
  <2> HIDE DEF Good
  <2> QED BY <1>1, <1>2, EveryNatural
<1> QED BY <1>0, <1>3

(* Any element can be taken first.                                         *)
LEMMA SumTake ==
  ASSUME NEW g, NEW S, IsFiniteSet(S), \A x \in S : g[x] \in Int, NEW y \in S
  PROVE  SumFunctionOnSet(g, S) = g[y] + SumFunctionOnSet(g, S \ {y})
<1> DEFINE Sum(T) == SumFunctionOnSet(g, T)
           Good == {n \in Nat : \A T \in SUBSET S : Cardinality(T) = n =>
                                   \A z \in T : Sum(T) = g[z] + Sum(T \ {z})}
<1>0. \A T \in SUBSET S : IsFiniteSet(T) /\ Cardinality(T) \in Nat /\ Sum(T) \in Int
  BY FS_Subset, FS_CardinalityType, SumType
<1>1. 0 \in Good
  BY <1>0, FS_EmptySet
<1>2. ASSUME NEW n \in Nat, n \in Good PROVE n + 1 \in Good
  <2> SUFFICES ASSUME NEW T \in SUBSET S, Cardinality(T) = n + 1, NEW z \in T
               PROVE  Sum(T) = g[z] + Sum(T \ {z})
    OBVIOUS
  <2> DEFINE c == Chosen(T)
  <2>1. c \in T /\ Sum(T) = g[c] + Sum(T \ {c})
    BY <1>0, ChosenIn, SumSteps
  <2> HIDE DEF c, Sum
  <2>2. CASE z = c
    BY <2>1, <2>2
  <2>3. CASE z # c
    <3>1. /\ T \ {c} \in SUBSET S /\ Cardinality(T \ {c}) = n /\ z \in T \ {c}
          /\ T \ {z} \in SUBSET S /\ Cardinality(T \ {z}) = n /\ c \in T \ {z}
      <4>1. /\ Cardinality(T \ {c}) = Cardinality(T) - 1
            /\ Cardinality(T \ {z}) = Cardinality(T) - 1
        BY <1>0, <2>1, FS_RemoveElement
      <4> QED BY <2>1, <2>3, <4>1
    <3>2. /\ Sum(T \ {c}) = g[z] + Sum((T \ {c}) \ {z})
          /\ Sum(T \ {z}) = g[c] + Sum((T \ {z}) \ {c})
      BY <1>2, <3>1
    <3>3. (T \ {c}) \ {z} = (T \ {z}) \ {c} /\ (T \ {z}) \ {c} \in SUBSET S
      OBVIOUS
    <3>4. Sum((T \ {c}) \ {z}) = Sum((T \ {z}) \ {c})
      BY <3>3
    <3>5. Sum((T \ {z}) \ {c}) \in Int /\ g[c] \in Int /\ g[z] \in Int
      BY <1>0, <2>1, <3>3
    <3> QED BY <2>1, <3>2, <3>4, <3>5
  <2> QED BY <2>2, <2>3
<1>3. Nat \subseteq Good
  <2> HIDE DEF Good
  <2> QED BY <1>1, <1>2, EveryNatural
<1> HIDE DEF Sum
<1>4. Sum(S) = g[y] + Sum(S \ {y})
  BY <1>0, <1>3
<1> QED BY <1>4 DEF Sum

(* An element that was not there adds its term.                            *)
LEMMA SumAdd ==
  ASSUME NEW g, NEW S, IsFiniteSet(S), NEW y, y \notin S, \A x \in S \cup {y} : g[x] \in Int
  PROVE  SumFunctionOnSet(g, S \cup {y}) = SumFunctionOnSet(g, S) + g[y]
<1>1. IsFiniteSet(S \cup {y}) /\ y \in S \cup {y} /\ (S \cup {y}) \ {y} = S
  BY FS_AddElement
<1>2. SumFunctionOnSet(g, S \cup {y}) = g[y] + SumFunctionOnSet(g, S)
  BY <1>1, SumTake
<1>3. SumFunctionOnSet(g, S) \in Int /\ g[y] \in Int
  BY SumType
<1> QED BY <1>2, <1>3

(* Larger terms, a larger sum.                                             *)
LEMMA SumLess ==
  ASSUME NEW g, NEW h, NEW S, IsFiniteSet(S),
         \A x \in S : g[x] \in Int /\ h[x] \in Int /\ g[x] <= h[x]
  PROVE  SumFunctionOnSet(g, S) <= SumFunctionOnSet(h, S)
<1> DEFINE Good == {T \in SUBSET S : SumFunctionOnSet(g, T) <= SumFunctionOnSet(h, T)}
<1>1. {} \in Good
  <2>1. SumFunctionOnSet(g, {}) = 0 /\ SumFunctionOnSet(h, {}) = 0
    BY SumSteps
  <2> QED BY <2>1
<1>2. ASSUME NEW T \in SUBSET S, NEW x \in S, T \in Good, x \notin T
      PROVE  T \cup {x} \in Good
  <2>1. IsFiniteSet(T)
    BY FS_Subset
  <2>2. /\ SumFunctionOnSet(g, T \cup {x}) = SumFunctionOnSet(g, T) + g[x]
        /\ SumFunctionOnSet(h, T \cup {x}) = SumFunctionOnSet(h, T) + h[x]
    BY <1>2, <2>1, SumAdd
  <2>3. SumFunctionOnSet(g, T) \in Int /\ SumFunctionOnSet(h, T) \in Int
    BY <2>1, SumType
  <2> QED BY <1>2, <2>2, <2>3
<1>3. SUBSET S \subseteq Good
  <2> HIDE DEF Good
  <2> QED BY <1>1, <1>2, EveryPart
<1> QED BY <1>3

(* The same terms, the same sum.                                           *)
LEMMA SumSame ==
  ASSUME NEW g, NEW h, NEW S, IsFiniteSet(S), \A x \in S : g[x] \in Int /\ h[x] = g[x]
  PROVE  SumFunctionOnSet(h, S) = SumFunctionOnSet(g, S)
<1>1. SumFunctionOnSet(g, S) \in Int /\ SumFunctionOnSet(h, S) \in Int
  BY SumType
<1>2. /\ SumFunctionOnSet(g, S) <= SumFunctionOnSet(h, S)
      /\ SumFunctionOnSet(h, S) <= SumFunctionOnSet(g, S)
  BY SumLess
<1> QED BY <1>1, <1>2

(* One term changes.                                                       *)
LEMMA SumChange ==
  ASSUME NEW g, NEW h, NEW S, IsFiniteSet(S), NEW y \in S,
         \A x \in S : g[x] \in Int /\ h[x] \in Int /\ (x # y => h[x] = g[x])
  PROVE  SumFunctionOnSet(h, S) = SumFunctionOnSet(g, S) - g[y] + h[y]
<1>1. /\ SumFunctionOnSet(g, S) = g[y] + SumFunctionOnSet(g, S \ {y})
      /\ SumFunctionOnSet(h, S) = h[y] + SumFunctionOnSet(h, S \ {y})
  BY SumTake
<1>2. IsFiniteSet(S \ {y})
  BY FS_RemoveElement
<1>3. SumFunctionOnSet(h, S \ {y}) = SumFunctionOnSet(g, S \ {y})
  BY <1>2, SumSame
<1>4. SumFunctionOnSet(g, S \ {y}) \in Int
  BY <1>2, SumType
<1> QED BY <1>1, <1>3, <1>4

(* A part and the rest.                                                    *)
LEMMA SumSplit ==
  ASSUME NEW g, NEW S, IsFiniteSet(S), NEW D \in SUBSET S, \A x \in S : g[x] \in Int
  PROVE  SumFunctionOnSet(g, S) = SumFunctionOnSet(g, D) + SumFunctionOnSet(g, S \ D)
<1> DEFINE Good == {T \in SUBSET D :
             SumFunctionOnSet(g, S) = SumFunctionOnSet(g, T) + SumFunctionOnSet(g, S \ T)}
<1>1. {} \in Good
  <2>1. S \ {} = S /\ SumFunctionOnSet(g, {}) = 0 /\ SumFunctionOnSet(g, S) \in Int
    BY SumSteps, SumType
  <2> QED BY <2>1
<1>2. ASSUME NEW T \in SUBSET D, NEW x \in D, T \in Good, x \notin T
      PROVE  T \cup {x} \in Good
  <2>1. IsFiniteSet(T) /\ IsFiniteSet(S \ T) /\ x \in S \ T
        /\ (S \ T) \ {x} = S \ (T \cup {x}) /\ S \ (T \cup {x}) \in SUBSET S
    BY <1>2, FS_Subset
  <2>2. SumFunctionOnSet(g, T \cup {x}) = SumFunctionOnSet(g, T) + g[x]
    BY <1>2, <2>1, SumAdd
  <2>3. SumFunctionOnSet(g, S \ T) = g[x] + SumFunctionOnSet(g, S \ (T \cup {x}))
    BY <2>1, SumTake
  <2>4. /\ SumFunctionOnSet(g, T) \in Int /\ SumFunctionOnSet(g, S \ (T \cup {x})) \in Int
        /\ g[x] \in Int
    BY <2>1, FS_Subset, SumType
  <2> QED BY <1>2, <2>2, <2>3, <2>4
<1>3. SUBSET D \subseteq Good
  <2> HIDE DEF Good
  <2>1. IsFiniteSet(D)
    BY FS_Subset
  <2> QED BY <1>1, <1>2, <2>1, EveryPart
<1> QED BY <1>3

(* With no negative term the sum is a natural, and a part sums to no more. *)
LEMMA SumOfNaturals ==
  ASSUME NEW g, NEW S, IsFiniteSet(S), \A x \in S : g[x] \in Nat
  PROVE  /\ SumFunctionOnSet(g, S) \in Nat
         /\ \A D \in SUBSET S : SumFunctionOnSet(g, D) <= SumFunctionOnSet(g, S)
<1>1. ASSUME NEW D \in SUBSET S PROVE SumFunctionOnSet(g, D) \in Nat
  <2> DEFINE Good == {T \in SUBSET D : SumFunctionOnSet(g, T) \in Nat}
  <2>1. {} \in Good
    <3>1. SumFunctionOnSet(g, {}) = 0
      BY SumSteps
    <3> QED BY <3>1
  <2>2. ASSUME NEW T \in SUBSET D, NEW x \in D, T \in Good, x \notin T
        PROVE  T \cup {x} \in Good
    <3>1. IsFiniteSet(T)
      BY FS_Subset
    <3>2. SumFunctionOnSet(g, T \cup {x}) = SumFunctionOnSet(g, T) + g[x]
      BY <2>2, <3>1, SumAdd
    <3> QED BY <2>2, <3>2
  <2>3. SUBSET D \subseteq Good
    <3> HIDE DEF Good
    <3>1. IsFiniteSet(D)
      BY FS_Subset
    <3> QED BY <2>1, <2>2, <3>1, EveryPart
  <2> QED BY <2>3
<1>2. ASSUME NEW D \in SUBSET S
      PROVE  SumFunctionOnSet(g, D) <= SumFunctionOnSet(g, S)
  <2>1. SumFunctionOnSet(g, S) = SumFunctionOnSet(g, D) + SumFunctionOnSet(g, S \ D)
    BY SumSplit
  <2>2. SumFunctionOnSet(g, D) \in Nat /\ SumFunctionOnSet(g, S \ D) \in Nat
    BY <1>1
  <2> QED BY <2>1, <2>2
<1> QED BY <1>1, <1>2

(* Terms that are all nothing add up to nothing.                           *)
LEMMA SumZero ==
  ASSUME NEW g, NEW S, IsFiniteSet(S), \A x \in S : g[x] = 0
  PROVE  SumFunctionOnSet(g, S) = 0
<1> DEFINE Good == {T \in SUBSET S : SumFunctionOnSet(g, T) = 0}
<1>1. {} \in Good
  BY SumSteps
<1>2. ASSUME NEW T \in SUBSET S, NEW x \in S, T \in Good, x \notin T
      PROVE  T \cup {x} \in Good
  <2>1. IsFiniteSet(T)
    BY FS_Subset
  <2>2. SumFunctionOnSet(g, T \cup {x}) = SumFunctionOnSet(g, T) + g[x]
    BY <1>2, <2>1, SumAdd
  <2> QED BY <1>2, <2>2
<1>3. SUBSET S \subseteq Good
  <2> HIDE DEF Good
  <2> QED BY <1>1, <1>2, EveryPart
<1> QED BY <1>3

(* A sum over a part is one over the whole with nothing elsewhere.         *)
LEMMA SumMasked ==
  ASSUME NEW g, NEW h, NEW S, IsFiniteSet(S), NEW D \in SUBSET S,
         \A x \in D : g[x] \in Int /\ h[x] = g[x],
         \A x \in S \ D : h[x] = 0
  PROVE  SumFunctionOnSet(h, S) = SumFunctionOnSet(g, D)
<1>0. IsFiniteSet(D) /\ IsFiniteSet(S \ D) /\ \A x \in S : h[x] \in Int
  BY FS_Subset
<1>1. SumFunctionOnSet(h, S) = SumFunctionOnSet(h, D) + SumFunctionOnSet(h, S \ D)
  BY <1>0, SumSplit
<1>2. SumFunctionOnSet(h, D) = SumFunctionOnSet(g, D)
  BY <1>0, SumSame
<1>3. SumFunctionOnSet(h, S \ D) = 0
  BY <1>0, SumZero
<1>4. SumFunctionOnSet(g, D) \in Int
  BY <1>0, SumType
<1> QED BY <1>1, <1>2, <1>3, <1>4
=============================================================================
