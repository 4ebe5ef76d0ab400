------------------------------ MODULE SumTheorems ------------------------------
(***************************************************************************)
(* What SumFunctionOnSet of the community modules computes, what other     *)
(* folds over a finite set have in common, two principles of induction to  *)
(* prove it with, and that Newton's iteration finds the integer root.      *)
(*                                                                         *)
(* Theorems with an operator as a parameter, such as NatInduction, cannot  *)
(* be instantiated by the provers.  Here the property to be proved is the  *)
(* set of the values that have it, and the induction rests on a theorem    *)
(* without such a parameter: that inclusion of finite sets is well         *)
(* founded.                                                                *)
(***************************************************************************)
EXTENDS Integers, Functions, FiniteSets, FiniteSetTheorems, WellFoundedInduction, TLAPS

\* A non-empty set of naturals has a least element: the intervals from 0 to its members
\* are finite sets, and one of them includes no other.
LEMMA LeastNumber ==
    ASSUME NEW W \in SUBSET Nat, W # {}
    PROVE  \E m \in W : \A n \in W : m <= n
<1> DEFINE Below == {0 .. n : n \in W}
<1>1. Below \subseteq FiniteSubsetsOf(Nat)
  <2>1. ASSUME NEW n \in W PROVE 0 .. n \in FiniteSubsetsOf(Nat)
    <3>1. IsFiniteSet(0 .. n)
      BY FS_Interval
    <3>2. 0 .. n \in SUBSET Nat
      OBVIOUS
    <3> QED
      BY <3>1, <3>2 DEF FiniteSubsetsOf
  <2> QED
    BY <2>1
<1>2. PICK T \in Below : \A U \in Below : ~ (<<U, T>> \in StrictSubsetOrdering(Nat))
  <2>1. IsWellFoundedOn(StrictSubsetOrdering(Nat), FiniteSubsetsOf(Nat))
    BY FS_StrictSubsetOrderingWellFounded
  <2>2. Below # {}
    OBVIOUS
  <2> HIDE DEF Below
  <2> QED
    BY <1>1, <2>1, <2>2, WFMin
<1>3. PICK m \in W : T = 0 .. m
  OBVIOUS
<1>4. ASSUME NEW n \in W PROVE m <= n
  <2>1. ~ (<<0 .. n, 0 .. m>> \in StrictSubsetOrdering(Nat))
    BY <1>2, <1>3
  <2>2. ~ (0 .. n \subseteq 0 .. m /\ 0 .. n # 0 .. m)
    BY <2>1 DEF StrictSubsetOrdering
  <2> QED
    BY <2>2
<1> QED
  BY <1>4

\* Induction on the natural numbers, the property being membership of Good.
THEOREM NumberInduction ==
    ASSUME NEW Good, 0 \in Good, \A n \in Nat : n \in Good => n + 1 \in Good
    PROVE  Nat \subseteq Good
<1> DEFINE W == Nat \ Good
<1>1. SUFFICES ASSUME W # {} PROVE FALSE
  OBVIOUS
<1>2. PICK m \in W : \A n \in W : m <= n
  <2>1. W \in SUBSET Nat
    OBVIOUS
  <2> HIDE DEF W
  <2> QED
    BY <1>1, <2>1, LeastNumber
<1>3. m \in Nat /\ m # 0
  BY <1>2
<1>4. m - 1 \in Nat /\ m - 1 \notin W
  BY <1>2, <1>3
<1>5. (m - 1) + 1 \in Good
  BY <1>4
<1> QED
  BY <1>2, <1>3, <1>5

\* Taking an element out of a finite set makes it smaller.
LEMMA RemoveShrinks ==
    ASSUME NEW u, IsFiniteSet(u), NEW x \in u
    PROVE  /\ IsFiniteSet(u \ {x})
           /\ Cardinality(u) \in Nat
           /\ Cardinality(u \ {x}) \in Nat
           /\ Cardinality(u \ {x}) = Cardinality(u) - 1
           /\ ~ (Cardinality(u) <= Cardinality(u \ {x}))
<1>1. IsFiniteSet(u \ {x}) /\ Cardinality(u \ {x}) = Cardinality(u) - 1
  BY FS_RemoveElement
<1>2. Cardinality(u) \in Nat
  BY FS_CardinalityType
<1>3. Cardinality(u \ {x}) \in Nat
  BY <1>1, FS_CardinalityType
<1> QED
  BY <1>1, <1>2, <1>3

\* Induction on finite sets, by removing elements: the property is membership of Good.
THEOREM RemovalInduction ==
    ASSUME NEW S, IsFiniteSet(S), NEW Good, {} \in Good,
           \A u \in SUBSET S :
               IsFiniteSet(u) /\ u # {} /\ (\A x \in u : u \ {x} \in Good) => u \in Good
    PROVE  S \in Good
<1> DEFINE Bad == (SUBSET S) \ Good
           Sizes == {Cardinality(u) : u \in Bad}
<1>1. SUFFICES ASSUME S \notin Good PROVE FALSE
  OBVIOUS
<1>2. ASSUME NEW u \in SUBSET S PROVE IsFiniteSet(u) /\ Cardinality(u) \in Nat
  BY FS_Subset, FS_CardinalityType
<1>3. PICK m \in Sizes : \A n \in Sizes : m <= n
  <2>1. Sizes \in SUBSET Nat /\ Sizes # {}
    BY <1>1, <1>2
  <2> HIDE DEF Sizes
  <2> QED
    BY <2>1, LeastNumber
<1>4. PICK u \in Bad : m = Cardinality(u)
  BY <1>3
<1>5. ASSUME NEW x \in u PROVE u \ {x} \in Good
  <2>1. ~ (Cardinality(u) <= Cardinality(u \ {x}))
    BY <1>2, <1>4, RemoveShrinks
  <2>2. Cardinality(u \ {x}) \notin Sizes
    <3> HIDE DEF Sizes
    <3> QED
      BY <1>3, <1>4, <2>1
  <2> QED
    BY <1>4, <2>2
<1> QED
  BY <1>2, <1>4, <1>5

-----------------------------------------------------------------------------
\* SumFunctionOnSet is defined by a recursive function on the subsets of S.
Chosen(s) == CHOOSE x \in s : TRUE
SumStep(f, g, s) == IF s = {} THEN 0 ELSE f[Chosen(s)] + g[s \ {Chosen(s)}]
SumTable(f, S) == CHOOSE g : g = [s \in SUBSET S |-> SumStep(f, g, s)]

\* The fold of the community modules is the entry of S in that table.
LEMMA SumUnfolded ==
    ASSUME NEW f, NEW S
    PROVE  SumFunctionOnSet(f, S) = SumTable(f, S)[S]
  BY DEF SumFunctionOnSet, FoldFunctionOnSet, MapThenFoldSet, SumTable, SumStep, Chosen

\* The element chosen from a set is one of it.
LEMMA ChosenIn ==
    ASSUME NEW s, s # {}
    PROVE  Chosen(s) \in s
  BY DEF Chosen

\* The finite subsets that such a table covers up to a size.
UpTo(S, n) == {u \in SUBSET S : Cardinality(u) <= n}

\* The recursion has a solution, as tables for the sets of up to n elements can be
\* extended: the table has the row of every subset.
LEMMA SumRow ==
    ASSUME NEW f, NEW S, IsFiniteSet(S), NEW row \in SUBSET S
    PROVE  SumTable(f, S)[row] = SumStep(f, SumTable(f, S), row)
<1> DEFINE Tabled(n) == \E g : g = [s \in UpTo(S, n) |-> SumStep(f, g, s)]
<1>s. ASSUME NEW s \in SUBSET S
      PROVE  /\ Cardinality(s) \in Nat
             /\ s # {} => /\ s \ {Chosen(s)} \in SUBSET S
                          /\ Cardinality(s \ {Chosen(s)}) = Cardinality(s) - 1
             /\ Cardinality(s) = 0 <=> s = {}
  <2>1. IsFiniteSet(s)
    BY FS_Subset
  <2> QED
    BY <2>1, FS_CardinalityType, FS_EmptySet, FS_RemoveElement, ChosenIn
<1>0. Tabled(0)
  <2>1. UpTo(S, 0) = {{}}
    <3>1. ASSUME NEW u \in UpTo(S, 0) PROVE u = {}
      <4>1. u \in SUBSET S /\ Cardinality(u) <= 0
        BY DEF UpTo
      <4>2. Cardinality(u) \in Nat
        BY <4>1, <1>s
      <4>3. Cardinality(u) = 0
        BY <4>1, <4>2
      <4> QED
        BY <4>1, <4>3, <1>s
    <3>2. {} \in UpTo(S, 0)
      BY FS_EmptySet DEF UpTo
    <3> QED
      BY <3>1, <3>2
  <2>2. [s \in {{}} |-> 0] = [s \in UpTo(S, 0) |-> SumStep(f, [t \in {{}} |-> 0], s)]
    BY <2>1 DEF SumStep
  <2> QED
    BY <2>2
<1>1. ASSUME NEW n \in Nat, Tabled(n)
      PROVE  Tabled(n + 1)
  <2>1. PICK g : g = [s \in UpTo(S, n) |-> SumStep(f, g, s)]
    BY <1>1
  <2> DEFINE h == [s \in UpTo(S, n + 1) |->
                     IF s \in UpTo(S, n) THEN g[s]
                     ELSE f[Chosen(s)] + g[s \ {Chosen(s)}]]
  <2>2. ASSUME NEW s \in UpTo(S, n + 1)
        PROVE  h[s] = SumStep(f, h, s)
    <3>1. CASE s = {}
      <4>1. s \in UpTo(S, n)
        BY <3>1, FS_EmptySet DEF UpTo
      <4>2. h[s] = g[s]
        BY <4>1
      <4>3. g[s] = SumStep(f, g, s)
        BY <2>1, <4>1
      <4> QED
        BY <3>1, <4>2, <4>3 DEF SumStep
    <3>2. CASE s # {}
      <4> DEFINE r == s \ {Chosen(s)}
      <4>1. r \in UpTo(S, n)
        BY <1>s, <3>2 DEF UpTo
      <4>2. r \in UpTo(S, n + 1)
        BY <4>1, <1>s DEF UpTo
      <4>3. h[r] = g[r]
        BY <4>1, <4>2
      <4>4. h[s] = f[Chosen(s)] + g[r]
        <5>1. CASE s \in UpTo(S, n)
          <6>1. g[s] = SumStep(f, g, s)
            BY <2>1, <5>1
          <6> QED
            BY <5>1, <6>1, <3>2 DEF SumStep
        <5> QED
          BY <5>1
      <4> HIDE DEF h
      <4> QED
        BY <3>2, <4>3, <4>4 DEF SumStep
    <3> QED
      BY <3>1, <3>2
  <2>3. h = [s \in UpTo(S, n + 1) |-> h[s]]
    OBVIOUS
  <2> HIDE DEF h
  <2>4. h = [s \in UpTo(S, n + 1) |-> SumStep(f, h, s)]
    BY <2>2, <2>3
  <2> QED
    BY <2>4
<1>2. ASSUME NEW n \in Nat PROVE Tabled(n)
  <2> HIDE DEF Tabled
  <2> DEFINE Good == {k \in Nat : Tabled(k)}
  <2>1. 0 \in Good /\ \A k \in Good : k + 1 \in Good
    BY <1>0, <1>1
  <2>2. Good \in SUBSET Nat
    OBVIOUS
  <2> HIDE DEF Good
  <2>3. Nat \subseteq Good
    BY <2>1, <2>2, NumberInduction
  <2> QED
    BY <2>3 DEF Good
<1>3. UpTo(S, Cardinality(S)) = SUBSET S
  BY FS_Subset DEF UpTo
<1>4. \E g : g = [s \in SUBSET S |-> SumStep(f, g, s)]
  <2>1. Tabled(Cardinality(S))
    <3> HIDE DEF Tabled
    <3> QED
      BY <1>2, FS_CardinalityType
  <2> QED
    BY ONLY <1>3, <2>1
<1>5. SumTable(f, S) = [s \in SUBSET S |-> SumStep(f, SumTable(f, S), s)]
  BY <1>4 DEF SumTable
<1> QED
  BY <1>5

\* The tables of a set and of a set that includes it agree.
LEMMA SumOfSubset ==
    ASSUME NEW f, NEW T, IsFiniteSet(T), NEW S \in SUBSET T
    PROVE  SumTable(f, S)[S] = SumTable(f, T)[S]
<1> DEFINE Good == {u \in SUBSET S : SumTable(f, S)[u] = SumTable(f, T)[u]}
<1>f. IsFiniteSet(S)
  BY FS_Subset
<1>0. ASSUME NEW s \in SUBSET S
      PROVE  /\ SumTable(f, S)[s] = SumStep(f, SumTable(f, S), s)
             /\ SumTable(f, T)[s] = SumStep(f, SumTable(f, T), s)
  <2> HIDE DEF Good
  <2>1. s \in SUBSET T
    OBVIOUS
  <2>2. SumTable(f, S)[s] = SumStep(f, SumTable(f, S), s)
    BY <1>f, SumRow
  <2>3. SumTable(f, T)[s] = SumStep(f, SumTable(f, T), s)
    BY <2>1, SumRow
  <2> QED
    BY <2>2, <2>3
<1>1. {} \in Good
  <2>1. SumTable(f, S)[{}] = SumStep(f, SumTable(f, S), {})
    BY <1>0
  <2>2. SumTable(f, T)[{}] = SumStep(f, SumTable(f, T), {})
    BY <1>0
  <2> QED
    BY <2>1, <2>2 DEF SumStep
<1>2. ASSUME NEW u \in SUBSET S, IsFiniteSet(u), u # {},
             \A x \in u : u \ {x} \in Good
      PROVE  u \in Good
  <2>1. u \ {Chosen(u)} \in Good
    BY <1>2, ChosenIn
  <2>2. SumTable(f, S)[u] = SumStep(f, SumTable(f, S), u)
    BY <1>0
  <2>3. SumTable(f, T)[u] = SumStep(f, SumTable(f, T), u)
    BY <1>0
  <2> QED
    BY <1>2, <2>1, <2>2, <2>3 DEF SumStep
<1>3. S \in Good
  <2> HIDE DEF Good
  <2> QED
    BY <1>f, <1>1, <1>2, RemovalInduction
<1> QED
  BY <1>3

\* The sum over no element.
THEOREM SumEmpty ==
    ASSUME NEW f
    PROVE  SumFunctionOnSet(f, {}) = 0
<1>1. SumTable(f, {})[{}] = SumStep(f, SumTable(f, {}), {})
  BY FS_EmptySet, SumRow
<1> QED
  BY <1>1, SumUnfolded DEF SumStep

\* A sum is that of the chosen element and of the rest.
LEMMA SumChosen ==
    ASSUME NEW f, NEW S, IsFiniteSet(S), S # {}
    PROVE  SumFunctionOnSet(f, S) = f[Chosen(S)] + SumFunctionOnSet(f, S \ {Chosen(S)})
<1>1. SumTable(f, S)[S] = SumStep(f, SumTable(f, S), S)
  BY SumRow
<1>2. SumTable(f, S)[S] = f[Chosen(S)] + SumTable(f, S)[S \ {Chosen(S)}]
  BY <1>1 DEF SumStep
<1>3. SumTable(f, S)[S \ {Chosen(S)}] = SumTable(f, S \ {Chosen(S)})[S \ {Chosen(S)}]
  BY SumOfSubset
<1> QED
  BY <1>2, <1>3, SumUnfolded

\* Integers have an integer sum.
THEOREM SumType ==
    ASSUME NEW f, NEW S, IsFiniteSet(S), \A x \in S : f[x] \in Int
    PROVE  SumFunctionOnSet(f, S) \in Int
<1> DEFINE Good == {u \in SUBSET S : SumFunctionOnSet(f, u) \in Int}
<1>1. {} \in Good
  BY SumEmpty
<1>2. ASSUME NEW u \in SUBSET S, IsFiniteSet(u), u # {},
             \A x \in u : u \ {x} \in Good
      PROVE  u \in Good
  <2> DEFINE c == Chosen(u)
             r == u \ {c}
  <2>1. c \in u /\ r \in Good
    BY <1>2, ChosenIn
  <2>2. SumFunctionOnSet(f, u) = f[c] + SumFunctionOnSet(f, r)
    BY <1>2, SumChosen
  <2> HIDE DEF c, r
  <2>3. SumFunctionOnSet(f, u) \in Int
    BY <1>2, <2>1, <2>2
  <2> QED
    BY <2>3
<1>3. S \in Good
  <2> HIDE DEF Good
  <2> QED
    BY <1>1, <1>2, RemovalInduction
<1> QED
  BY <1>3

\* The order does not matter: a sum is that of any of its elements and of the rest.
THEOREM SumRemove ==
    ASSUME NEW f, NEW S, IsFiniteSet(S), \A x \in S : f[x] \in Int, NEW x \in S
    PROVE  SumFunctionOnSet(f, S) = f[x] + SumFunctionOnSet(f, S \ {x})
<1> DEFINE Removes(u) ==
             \A y \in u : SumFunctionOnSet(f, u) = f[y] + SumFunctionOnSet(f, u \ {y})
           Good == {u \in SUBSET S : Removes(u)}
<1>1. {} \in Good
  OBVIOUS
<1>2. ASSUME NEW u \in SUBSET S, IsFiniteSet(u), u # {},
             \A z \in u : u \ {z} \in Good
      PROVE  u \in Good
  <2> DEFINE c == Chosen(u)
  <2>1. c \in u
    BY <1>2, ChosenIn
  <2>2. SumFunctionOnSet(f, u) = f[c] + SumFunctionOnSet(f, u \ {c})
    BY <1>2, SumChosen
  <2>3. ASSUME NEW y \in u
        PROVE  SumFunctionOnSet(f, u) = f[y] + SumFunctionOnSet(f, u \ {y})
    <3>1. CASE y = c
      BY <2>2, <3>1
    <3>2. CASE y # c
      <4> DEFINE r == (u \ {c}) \ {y}
      <4>1. SumFunctionOnSet(f, u \ {c}) = f[y] + SumFunctionOnSet(f, r)
        BY <1>2, <2>1, <3>2
      <4>2. SumFunctionOnSet(f, u \ {y}) = f[c] + SumFunctionOnSet(f, (u \ {y}) \ {c})
        BY <1>2, <2>1, <3>2
      <4>3. (u \ {y}) \ {c} = r
        OBVIOUS
      <4>4. f[c] \in Int /\ f[y] \in Int /\ SumFunctionOnSet(f, r) \in Int
        <5>1. IsFiniteSet(r)
          BY <1>2, FS_RemoveElement
        <5> QED
          BY <2>1, <5>1, SumType
      <4> HIDE DEF c, r
      <4>5. f[c] + (f[y] + SumFunctionOnSet(f, r)) = f[y] + (f[c] + SumFunctionOnSet(f, r))
        BY <4>4
      <4> QED
        BY <2>2, <4>1, <4>2, <4>3, <4>5
    <3> QED
      BY <3>1, <3>2
  <2> QED
    BY <2>3
<1>3. S \in Good
  <2> HIDE DEF Good
  <2> QED
    BY <1>1, <1>2, RemovalInduction
<1> QED
  BY <1>3

\* Adding an element.
THEOREM SumAdd ==
    ASSUME NEW f, NEW S, IsFiniteSet(S), NEW x, x \notin S,
           \A y \in S \cup {x} : f[y] \in Int
    PROVE  SumFunctionOnSet(f, S \cup {x}) = f[x] + SumFunctionOnSet(f, S)
<1>1. IsFiniteSet(S \cup {x})
  BY FS_AddElement
<1>2. (S \cup {x}) \ {x} = S
  OBVIOUS
<1> QED
  BY <1>1, <1>2, SumRemove

\* Only the values on S matter.
THEOREM SumEqual ==
    ASSUME NEW f, NEW g, NEW S, IsFiniteSet(S), \A x \in S : f[x] = g[x]
    PROVE  SumFunctionOnSet(f, S) = SumFunctionOnSet(g, S)
<1> DEFINE Good == {u \in SUBSET S : SumFunctionOnSet(f, u) = SumFunctionOnSet(g, u)}
<1>1. {} \in Good
  BY SumEmpty
<1>2. ASSUME NEW u \in SUBSET S, IsFiniteSet(u), u # {},
             \A x \in u : u \ {x} \in Good
      PROVE  u \in Good
  <2> DEFINE c == Chosen(u)
             r == u \ {c}
  <2>1. c \in u /\ r \in Good
    BY <1>2, ChosenIn
  <2>2. /\ SumFunctionOnSet(f, u) = f[c] + SumFunctionOnSet(f, r)
        /\ SumFunctionOnSet(g, u) = g[c] + SumFunctionOnSet(g, r)
    BY <1>2, SumChosen
  <2>3. f[c] = g[c]
    BY <2>1
  <2> QED
    BY <2>1, <2>2, <2>3
<1>3. S \in Good
  <2> HIDE DEF Good
  <2> QED
    BY <1>1, <1>2, RemovalInduction
<1> QED
  BY <1>3

\* Changing the value at one element.
THEOREM SumChange ==
    ASSUME NEW f, NEW g, NEW S, IsFiniteSet(S), NEW x \in S,
           \A y \in S : f[y] \in Int /\ g[y] \in Int,
           \A y \in S \ {x} : g[y] = f[y]
    PROVE  SumFunctionOnSet(g, S) = SumFunctionOnSet(f, S) + g[x] - f[x]
<1>1. IsFiniteSet(S \ {x})
  BY FS_RemoveElement
<1>2. SumFunctionOnSet(g, S \ {x}) = SumFunctionOnSet(f, S \ {x})
  BY <1>1, SumEqual
<1>3. /\ SumFunctionOnSet(f, S) = f[x] + SumFunctionOnSet(f, S \ {x})
      /\ SumFunctionOnSet(g, S) = g[x] + SumFunctionOnSet(g, S \ {x})
  BY SumRemove
<1>4. SumFunctionOnSet(f, S \ {x}) \in Int
  BY <1>1, SumType
<1> QED
  BY <1>2, <1>3, <1>4
\* Larger values have a larger sum.
THEOREM SumMonotonic ==
    ASSUME NEW f, NEW g, NEW S, IsFiniteSet(S),
           \A x \in S : f[x] \in Int /\ g[x] \in Int /\ f[x] <= g[x]
    PROVE  SumFunctionOnSet(f, S) <= SumFunctionOnSet(g, S)
<1> DEFINE Good == {u \in SUBSET S : SumFunctionOnSet(f, u) <= SumFunctionOnSet(g, u)}
<1>1. {} \in Good
  <2>1. SumFunctionOnSet(f, {}) = 0 /\ SumFunctionOnSet(g, {}) = 0
    BY SumEmpty
  <2>2. SumFunctionOnSet(f, {}) <= SumFunctionOnSet(g, {})
    BY <2>1
  <2> QED
    BY <2>2
<1>2. ASSUME NEW u \in SUBSET S, IsFiniteSet(u), u # {},
             \A x \in u : u \ {x} \in Good
      PROVE  u \in Good
  <2> DEFINE c == Chosen(u)
             r == u \ {c}
  <2>1. c \in u /\ r \in Good
    BY <1>2, ChosenIn
  <2>2. /\ SumFunctionOnSet(f, u) = f[c] + SumFunctionOnSet(f, r)
        /\ SumFunctionOnSet(g, u) = g[c] + SumFunctionOnSet(g, r)
    BY <1>2, SumChosen
  <2>3. IsFiniteSet(r)
    BY <1>2, FS_RemoveElement
  <2>4. SumFunctionOnSet(f, r) \in Int /\ SumFunctionOnSet(g, r) \in Int
    BY <2>3, SumType
  <2>5. SumFunctionOnSet(f, r) <= SumFunctionOnSet(g, r)
    BY <2>1
  <2>6. f[c] \in Int /\ g[c] \in Int /\ f[c] <= g[c]
    BY <2>1
  <2> HIDE DEF c, r
  <2>7. SumFunctionOnSet(f, u) <= SumFunctionOnSet(g, u)
    BY <2>2, <2>4, <2>5, <2>6
  <2> QED
    BY <2>7
<1>3. S \in Good
  <2> HIDE DEF Good
  <2> QED
    BY <1>1, <1>2, RemovalInduction
<1> QED
  BY <1>3

\* The sum of sums.
THEOREM SumPlus ==
    ASSUME NEW f, NEW g, NEW h, NEW S, IsFiniteSet(S),
           \A x \in S : f[x] \in Int /\ g[x] \in Int /\ h[x] = f[x] + g[x]
    PROVE  SumFunctionOnSet(h, S) = SumFunctionOnSet(f, S) + SumFunctionOnSet(g, S)
<1> DEFINE Good == {u \in SUBSET S :
                      SumFunctionOnSet(h, u) = SumFunctionOnSet(f, u) + SumFunctionOnSet(g, u)}
<1>1. {} \in Good
  <2>1. /\ SumFunctionOnSet(f, {}) = 0
        /\ SumFunctionOnSet(g, {}) = 0
        /\ SumFunctionOnSet(h, {}) = 0
    BY SumEmpty
  <2>2. SumFunctionOnSet(h, {}) = SumFunctionOnSet(f, {}) + SumFunctionOnSet(g, {})
    BY <2>1
  <2> QED
    BY <2>2
<1>2. ASSUME NEW u \in SUBSET S, IsFiniteSet(u), u # {},
             \A x \in u : u \ {x} \in Good
      PROVE  u \in Good
  <2> DEFINE c == Chosen(u)
             r == u \ {c}
  <2>1. c \in u /\ r \in Good
    BY <1>2, ChosenIn
  <2>2. /\ SumFunctionOnSet(f, u) = f[c] + SumFunctionOnSet(f, r)
        /\ SumFunctionOnSet(g, u) = g[c] + SumFunctionOnSet(g, r)
        /\ SumFunctionOnSet(h, u) = h[c] + SumFunctionOnSet(h, r)
    BY <1>2, SumChosen
  <2>3. IsFiniteSet(r)
    BY <1>2, FS_RemoveElement
  <2>4. SumFunctionOnSet(f, r) \in Int /\ SumFunctionOnSet(g, r) \in Int
    BY <2>3, SumType
  <2>5. SumFunctionOnSet(h, r) = SumFunctionOnSet(f, r) + SumFunctionOnSet(g, r)
    BY <2>1
  <2>6. f[c] \in Int /\ g[c] \in Int /\ h[c] = f[c] + g[c]
    BY <2>1
  <2> HIDE DEF c, r
  <2>7. SumFunctionOnSet(h, u) = SumFunctionOnSet(f, u) + SumFunctionOnSet(g, u)
    BY <2>2, <2>4, <2>5, <2>6
  <2> QED
    BY <2>7
<1>3. S \in Good
  <2> HIDE DEF Good
  <2> QED
    BY <1>1, <1>2, RemovalInduction
<1> QED
  BY <1>3

\* Zeros add up to zero.
THEOREM SumConstantZero ==
    ASSUME NEW f, NEW S, IsFiniteSet(S), \A x \in S : f[x] = 0
    PROVE  SumFunctionOnSet(f, S) = 0
<1> DEFINE Good == {u \in SUBSET S : SumFunctionOnSet(f, u) = 0}
<1>1. {} \in Good
  BY SumEmpty
<1>2. ASSUME NEW u \in SUBSET S, IsFiniteSet(u), u # {},
             \A x \in u : u \ {x} \in Good
      PROVE  u \in Good
  <2> DEFINE c == Chosen(u)
             r == u \ {c}
  <2>1. c \in u /\ r \in Good
    BY <1>2, ChosenIn
  <2>2. SumFunctionOnSet(f, u) = f[c] + SumFunctionOnSet(f, r)
    BY <1>2, SumChosen
  <2>3. f[c] = 0 /\ SumFunctionOnSet(f, r) = 0
    BY <2>1
  <2> HIDE DEF c, r
  <2>4. SumFunctionOnSet(f, u) = 0
    BY <2>2, <2>3
  <2> QED
    BY <2>4
<1>3. S \in Good
  <2> HIDE DEF Good
  <2> QED
    BY <1>1, <1>2, RemovalInduction
<1> QED
  BY <1>3

\* Naturals have a natural sum, and it is at least each of them.
THEOREM SumNatural ==
    ASSUME NEW f, NEW S, IsFiniteSet(S), \A x \in S : f[x] \in Nat
    PROVE  /\ SumFunctionOnSet(f, S) \in Nat
           /\ \A x \in S : f[x] <= SumFunctionOnSet(f, S)
<1>1. ASSUME NEW T \in SUBSET S PROVE SumFunctionOnSet(f, T) \in Nat
  <2> DEFINE zero == [x \in T |-> 0]
  <2>1. IsFiniteSet(T)
    BY FS_Subset
  <2>2. SumFunctionOnSet(zero, T) = 0
    BY <2>1, SumConstantZero
  <2>3. \A x \in T : zero[x] \in Int /\ f[x] \in Int /\ zero[x] <= f[x]
    OBVIOUS
  <2> HIDE DEF zero
  <2>4. SumFunctionOnSet(zero, T) <= SumFunctionOnSet(f, T)
    BY <2>1, <2>3, SumMonotonic
  <2>5. SumFunctionOnSet(f, T) \in Int
    BY <2>1, SumType
  <2> QED
    BY <2>2, <2>4, <2>5
<1>2. ASSUME NEW x \in S PROVE f[x] <= SumFunctionOnSet(f, S)
  <2>1. SumFunctionOnSet(f, S) = f[x] + SumFunctionOnSet(f, S \ {x})
    BY SumRemove
  <2>2. SumFunctionOnSet(f, S \ {x}) \in Nat
    BY <1>1
  <2> QED
    BY <2>1, <2>2
<1> QED
  BY <1>1, <1>2

\* A sum of ones counts.
THEOREM SumIndicator ==
    ASSUME NEW f, NEW S, IsFiniteSet(S), NEW T,
           \A x \in S : f[x] = IF x \in T THEN 1 ELSE 0
    PROVE  SumFunctionOnSet(f, S) = Cardinality(S \cap T)
<1> DEFINE Good == {u \in SUBSET S : SumFunctionOnSet(f, u) = Cardinality(u \cap T)}
<1>1. {} \in Good
  <2>1. {} \cap T = {} /\ Cardinality({}) = 0
    BY FS_EmptySet
  <2> QED
    BY <2>1, SumEmpty
<1>2. ASSUME NEW u \in SUBSET S, IsFiniteSet(u), u # {},
             \A x \in u : u \ {x} \in Good
      PROVE  u \in Good
  <2> DEFINE c == Chosen(u)
             r == u \ {c}
  <2>1. c \in u /\ r \in Good
    BY <1>2, ChosenIn
  <2>2. SumFunctionOnSet(f, u) = f[c] + SumFunctionOnSet(f, r)
    BY <1>2, SumChosen
  <2>3. IsFiniteSet(r) /\ IsFiniteSet(r \cap T) /\ Cardinality(r \cap T) \in Nat
    <3>1. IsFiniteSet(r)
      BY <1>2, FS_RemoveElement
    <3>2. IsFiniteSet(r \cap T)
      BY <3>1, FS_Subset
    <3> QED
      BY <3>1, <3>2, FS_CardinalityType
  <2>4. SumFunctionOnSet(f, r) = Cardinality(r \cap T)
    BY <2>1
  <2>5. CASE c \in T
    <3>1. u \cap T = (r \cap T) \cup {c} /\ c \notin r \cap T
      BY <2>1, <2>5
    <3>2. Cardinality(u \cap T) = Cardinality(r \cap T) + 1
      BY <2>3, <3>1, FS_AddElement
    <3>3. f[c] = 1
      BY <2>1, <2>5
    <3> HIDE DEF c, r
    <3>4. SumFunctionOnSet(f, u) = Cardinality(u \cap T)
      BY <2>2, <2>3, <2>4, <3>2, <3>3
    <3> QED
      BY <3>4
  <2>6. CASE c \notin T
    <3>1. Cardinality(u \cap T) = Cardinality(r \cap T)
      <4>1. u \cap T = r \cap T
        BY <2>6
      <4> QED
        BY <4>1
    <3>2. f[c] = 0
      BY <2>1, <2>6
    <3> HIDE DEF c, r
    <3>3. SumFunctionOnSet(f, u) = Cardinality(u \cap T)
      BY <2>2, <2>3, <2>4, <3>1, <3>2
    <3> QED
      BY <3>3
  <2> QED
    BY <2>5, <2>6
<1>3. S \in Good
  <2> HIDE DEF Good
  <2> QED
    BY <1>1, <1>2, RemovalInduction
<1> QED
  BY <1>3

\* Adding one to the values of T adds as much as T has elements.
THEOREM SumRaised ==
    ASSUME NEW f, NEW g, NEW S, IsFiniteSet(S), NEW T \in SUBSET S,
           \A x \in S : f[x] \in Int,
           \A x \in T : g[x] = f[x] + 1,
           \A x \in S \ T : g[x] = f[x]
    PROVE  SumFunctionOnSet(g, S) = SumFunctionOnSet(f, S) + Cardinality(T)
<1> DEFINE one == [x \in S |-> IF x \in T THEN 1 ELSE 0]
<1>1. \A x \in S : one[x] = IF x \in T THEN 1 ELSE 0
  OBVIOUS
<1> HIDE DEF one
<1>2. SumFunctionOnSet(one, S) = Cardinality(S \cap T)
  BY <1>1, SumIndicator
<1>3. \A x \in S : f[x] \in Int /\ one[x] \in Int /\ g[x] = f[x] + one[x]
  BY <1>1
<1>4. SumFunctionOnSet(g, S) = SumFunctionOnSet(f, S) + SumFunctionOnSet(one, S)
  BY <1>3, SumPlus
<1>5. S \cap T = T
  OBVIOUS
<1> QED
  BY <1>2, <1>4, <1>5

\* A sum over a set is that over a part of it and over the rest.
THEOREM SumSplit ==
    ASSUME NEW f, NEW T, NEW S \in SUBSET T, IsFiniteSet(T), \A x \in T : f[x] \in Int
    PROVE  SumFunctionOnSet(f, T) = SumFunctionOnSet(f, S) + SumFunctionOnSet(f, T \ S)
<1> DEFINE Splits(u) ==
             SumFunctionOnSet(f, T) = SumFunctionOnSet(f, u) + SumFunctionOnSet(f, T \ u)
           Good == {u \in SUBSET S : Splits(u)}
<1>1. {} \in Good
  <2>1. SumFunctionOnSet(f, {}) = 0 /\ T \ {} = T
    BY SumEmpty
  <2>2. SumFunctionOnSet(f, T) \in Int
    BY SumType
  <2> QED
    BY <2>1, <2>2
<1>2. ASSUME NEW u \in SUBSET S, IsFiniteSet(u), u # {}, \A x \in u : u \ {x} \in Good
      PROVE  u \in Good
  <2> PICK c \in u : TRUE
    BY <1>2
  <2> DEFINE v == u \ {c}
             w == T \ u
  <2>1. Splits(v)
    BY <1>2
  <2>2. v \cup {c} = u /\ T \ v = w \cup {c} /\ c \notin v /\ c \notin w
    OBVIOUS
  <2>3. v \in SUBSET T /\ w \in SUBSET T /\ IsFiniteSet(v) /\ IsFiniteSet(w) /\ c \in T
    BY FS_Subset
  <2>4. f[c] \in Int /\ SumFunctionOnSet(f, v) \in Int /\ SumFunctionOnSet(f, w) \in Int
    BY <2>3, SumType
  <2>5. SumFunctionOnSet(f, u) = f[c] + SumFunctionOnSet(f, v)
    <3> HIDE DEF v, w
    <3> \A y \in v \cup {c} : f[y] \in Int
      BY <2>3
    <3> QED
      BY <2>2, <2>3, SumAdd
  <2>6. SumFunctionOnSet(f, T \ v) = f[c] + SumFunctionOnSet(f, w)
    <3> HIDE DEF v, w
    <3> \A y \in w \cup {c} : f[y] \in Int
      BY <2>3
    <3> QED
      BY <2>2, <2>3, SumAdd
  <2>7. SumFunctionOnSet(f, T) = SumFunctionOnSet(f, v) + SumFunctionOnSet(f, T \ v)
    BY <2>1
  <2>8. Splits(u)
    <3> HIDE DEF v
    <3> QED
      BY <2>4, <2>5, <2>6, <2>7
  <2> QED
    BY <2>8
<1>3. S \in Good
  <2>1. IsFiniteSet(S)
    BY FS_Subset
  <2> HIDE DEF Good
  <2> QED
    BY <1>1, <1>2, <2>1, RemovalInduction
<1> QED
  BY <1>3
-----------------------------------------------------------------------------
\* The other folds: a table that starts from base and takes one element of a set at a
\* time, the one pick says, by a step that stays within the values V.
Fold(base, pick, step, g, s) ==
    IF s = {} THEN base ELSE step[<<pick[s], g[s \ {pick[s]}]>>]

Picks(pick, S) == \A s \in SUBSET S : s # {} => pick[s] \in s
Folds(t, base, pick, step, S) == \A s \in SUBSET S : t[s] = Fold(base, pick, step, t, s)

\* Such a table exists for every finite set.
THEOREM FoldTable ==
    ASSUME NEW S, IsFiniteSet(S), NEW V, NEW base \in V,
           NEW pick, Picks(pick, S), NEW step \in [S \X V -> V]
    PROVE  \E t \in [SUBSET S -> V] : Folds(t, base, pick, step, S)
<1> DEFINE Fits(n, g) == /\ g \in [UpTo(S, n) -> V]
                         /\ \A s \in UpTo(S, n) : g[s] = Fold(base, pick, step, g, s)
           Tabled(n) == \E g : Fits(n, g)
<1>s. ASSUME NEW s \in SUBSET S
      PROVE  /\ Cardinality(s) \in Nat
             /\ s # {} => /\ s \ {pick[s]} \in SUBSET S
                          /\ Cardinality(s \ {pick[s]}) = Cardinality(s) - 1
             /\ Cardinality(s) = 0 <=> s = {}
  <2>1. IsFiniteSet(s) /\ (s # {} => pick[s] \in s)
    BY FS_Subset DEF Picks
  <2> QED
    BY <2>1, FS_CardinalityType, FS_EmptySet, FS_RemoveElement
<1>0. Tabled(0)
  <2>1. UpTo(S, 0) = {{}}
    <3>1. ASSUME NEW u \in UpTo(S, 0) PROVE u = {}
      <4>1. u \in SUBSET S /\ Cardinality(u) <= 0
        BY DEF UpTo
      <4>2. Cardinality(u) \in Nat
        BY <4>1, <1>s
      <4>3. Cardinality(u) = 0
        BY <4>1, <4>2
      <4> QED
        BY <4>1, <4>3, <1>s
    <3>2. {} \in UpTo(S, 0)
      BY FS_EmptySet DEF UpTo
    <3> QED
      BY <3>1, <3>2
  <2>2. Fits(0, [t \in {{}} |-> base])
    BY <2>1 DEF Fold
  <2> QED
    BY <2>2
<1>1. ASSUME NEW n \in Nat, Tabled(n)
      PROVE  Tabled(n + 1)
  <2>1. PICK g : Fits(n, g)
    BY <1>1
  <2> DEFINE h == [s \in UpTo(S, n + 1) |->
                     IF s \in UpTo(S, n) THEN g[s] ELSE step[<<pick[s], g[s \ {pick[s]}]>>]]
  <2>2. ASSUME NEW s \in UpTo(S, n + 1)
        PROVE  h[s] \in V /\ h[s] = Fold(base, pick, step, h, s)
    <3>1. CASE s = {}
      <4>1. s \in UpTo(S, n)
        BY <3>1, FS_EmptySet DEF UpTo
      <4>2. h[s] = g[s] /\ g[s] \in V
        BY <2>1, <4>1
      <4>3. g[s] = Fold(base, pick, step, g, s)
        BY <2>1, <4>1
      <4> QED
        BY <3>1, <4>2, <4>3 DEF Fold
    <3>2. CASE s # {}
      <4> DEFINE r == s \ {pick[s]}
      <4>0. s \in SUBSET S /\ pick[s] \in S
        BY <3>2 DEF UpTo, Picks
      <4>1. r \in UpTo(S, n)
        BY <1>s, <3>2 DEF UpTo
      <4>2. r \in UpTo(S, n + 1)
        BY <4>1, <1>s DEF UpTo
      <4>3. h[r] = g[r] /\ g[r] \in V
        BY <2>1, <4>1, <4>2
      <4>4. h[s] = step[<<pick[s], g[r]>>]
        <5>1. CASE s \in UpTo(S, n)
          <6>1. g[s] = Fold(base, pick, step, g, s)
            BY <2>1, <5>1
          <6> QED
            BY <5>1, <6>1, <3>2 DEF Fold
        <5> QED
          BY <5>1
      <4>5. step[<<pick[s], g[r]>>] \in V
        BY <4>0, <4>3
      <4> HIDE DEF h
      <4> QED
        BY <3>2, <4>3, <4>4, <4>5 DEF Fold
    <3> QED
      BY <3>1, <3>2
  <2>3. h = [s \in UpTo(S, n + 1) |-> h[s]]
    OBVIOUS
  <2> HIDE DEF h
  <2>4. Fits(n + 1, h)
    BY <2>2, <2>3
  <2> QED
    BY <2>4
<1>2. ASSUME NEW n \in Nat PROVE Tabled(n)
  <2> HIDE DEF Tabled
  <2> DEFINE Good == {k \in Nat : Tabled(k)}
  <2>1. 0 \in Good /\ \A k \in Good : k + 1 \in Good
    BY <1>0, <1>1
  <2>2. Good \in SUBSET Nat
    OBVIOUS
  <2> HIDE DEF Good
  <2>3. Nat \subseteq Good
    BY <2>1, <2>2, NumberInduction
  <2> QED
    BY <2>3 DEF Good
<1>3. UpTo(S, Cardinality(S)) = SUBSET S
  BY FS_Subset DEF UpTo
<1> QED
  BY <1>2, <1>3, FS_CardinalityType DEF Folds


Follows(t, pick, step, S, V) ==
    \A s \in SUBSET S : s # {} /\ t[s \ {pick[s]}] \in V =>
        t[s] = step[<<pick[s], t[s \ {pick[s]}]>>]

\* What follows such a table wherever its values are known to be in V stays in V.
THEOREM FoldTyped ==
    ASSUME NEW S, IsFiniteSet(S), NEW V, NEW base \in V,
           NEW pick, Picks(pick, S), NEW step \in [S \X V -> V],
           NEW t, t[{}] = base, Follows(t, pick, step, S, V)
    PROVE  Folds(t, base, pick, step, S) /\ \A s \in SUBSET S : t[s] \in V
<1> DEFINE Good == {u \in SUBSET S : t[u] \in V}
<1>1. {} \in Good
  OBVIOUS
<1>2. ASSUME NEW u \in SUBSET S, u # {}, \A x \in u : u \ {x} \in Good
      PROVE  u \in Good
  <2>1. t[u \ {pick[u]}] \in V /\ pick[u] \in S
    BY <1>2 DEF Picks
  <2>2. t[u] = step[<<pick[u], t[u \ {pick[u]}]>>]
    BY <1>2, <2>1 DEF Follows
  <2>3. step[<<pick[u], t[u \ {pick[u]}]>>] \in V
    BY <2>1
  <2> QED
    BY <2>2, <2>3
<1>3. ASSUME NEW s \in SUBSET S PROVE t[s] \in V
  <2>1. IsFiniteSet(s)
    BY FS_Subset
  <2>2. \A u \in SUBSET s :
            IsFiniteSet(u) /\ u # {} /\ (\A x \in u : u \ {x} \in Good) => u \in Good
    BY <1>2
  <2>3. s \in Good
    <3> HIDE DEF Good
    <3> QED
      BY <1>1, <2>1, <2>2, RemovalInduction
  <2> QED
    BY <2>3
<1>4. ASSUME NEW s \in SUBSET S PROVE t[s] = Fold(base, pick, step, t, s)
  <2>1. CASE s = {}
    BY <2>1 DEF Fold
  <2>2. CASE s # {}
    <3>1. t[s \ {pick[s]}] \in V
      BY <1>3
    <3> QED
      BY <2>2, <3>1 DEF Fold, Follows
  <2> QED
    BY <2>1, <2>2
<1> QED
  BY <1>3, <1>4 DEF Folds

\* A non-empty set of numbers up to n has a largest element.
THEOREM LargestNumber ==
    ASSUME NEW n \in Nat, NEW s \in SUBSET (1 .. n), s # {}
    PROVE  \E m \in s : \A k \in s : m >= k
<1> DEFINE W == {n - k : k \in s}
<1>1. PICK w \in W : \A v \in W : w <= v
  <2>1. \A k \in s : n - k \in Nat
    OBVIOUS
  <2>2. PICK k \in s : TRUE
    OBVIOUS
  <2>3. W \in SUBSET Nat
    BY <2>1
  <2>4. n - k \in W
    BY <2>2
  <2> HIDE DEF W
  <2> QED
    BY <2>3, <2>4, LeastNumber
<1>2. PICK m \in s : w = n - m
  BY <1>1
<1>3. ASSUME NEW k \in s PROVE m >= k
  <2>1. n - m <= n - k
    BY <1>1, <1>2
  <2>2. m \in Int /\ k \in Int
    OBVIOUS
  <2> QED
    BY <2>1, <2>2
<1> QED
  BY <1>3

\* An integer-valued function has a largest value on a non-empty set of numbers up to n.
THEOREM LargestValue ==
    ASSUME NEW f, NEW n \in Nat, \A k \in 1 .. n : f[k] \in Int,
           NEW s \in SUBSET (1 .. n), s # {}
    PROVE  \E m \in s : \A k \in s : f[m] >= f[k]
<1> DEFINE Has(t) == \E m \in t : \A k \in t : f[m] >= f[k]
           Good == {i \in Nat : i <= n => \A t \in SUBSET (1 .. i) : t # {} => Has(t)}
<1>1. 0 \in Good
  BY 1 .. 0 = {}
<1>2. ASSUME NEW i \in Nat, i \in Good
      PROVE  i + 1 \in Good
  <2> SUFFICES ASSUME i + 1 <= n, NEW t \in SUBSET (1 .. i + 1), t # {}
               PROVE  Has(t)
    OBVIOUS
  <2> DEFINE r == t \ {i + 1}
  <2>1. r \in SUBSET (1 .. i) /\ i <= n
    OBVIOUS
  <2>2. \A k \in t : f[k] \in Int
    OBVIOUS
  <2>3. CASE r = {}
    <3>1. t = {i + 1}
      BY <2>3
    <3> QED
      BY <2>2, <3>1
  <2>4. CASE r # {}
    <3>1. Has(r)
      BY <1>2, <2>1, <2>4
    <3> PICK m \in r : \A k \in r : f[m] >= f[k]
      BY <3>1
    <3>2. CASE i + 1 \notin t
      <4>1. r = t
        BY <3>2
      <4> QED
        BY <3>1, <4>1
    <3>3. CASE i + 1 \in t /\ f[i + 1] >= f[m]
      <4>1. \A k \in t : k = i + 1 \/ k \in r
        OBVIOUS
      <4>2. f[m] \in Int /\ r \subseteq t
        BY <2>2
      <4>3. \A k \in t : f[i + 1] >= f[k]
        <5> HIDE DEF r
        <5> QED
          BY <2>2, <3>3, <4>1, <4>2
      <4> QED
        BY <3>3, <4>3
    <3>4. CASE i + 1 \in t /\ ~(f[i + 1] >= f[m])
      <4>1. \A k \in t : k = i + 1 \/ k \in r
        OBVIOUS
      <4>2. m \in t
        OBVIOUS
      <4>3. \A k \in t : f[m] >= f[k]
        <5> HIDE DEF r
        <5> QED
          BY <2>2, <3>4, <4>1, <4>2
      <4> QED
        BY <4>2, <4>3
    <3> QED
      BY <3>2, <3>3, <3>4
  <2> QED
    BY <2>3, <2>4
<1>3. n \in Good
  <2>1. \A i \in Nat : i \in Good => i + 1 \in Good
    BY <1>2
  <2> HIDE DEF Good
  <2> QED
    BY <1>1, <2>1, NumberInduction
<1> QED
  BY <1>3

\* A quotient is between its bounds.
THEOREM DivisionBounds ==
    ASSUME NEW n \in Nat, NEW d \in Nat \ {0}
    PROVE  n \div d \in Nat /\ d * (n \div d) <= n /\ n < d * (n \div d) + d
<1>1. n \div d \in Nat
  OBVIOUS
<1>2. n = d * (n \div d) + (n % d) /\ n % d \in 0 .. d - 1
  OBVIOUS
<1> DEFINE p == d * (n \div d)
<1>3. p \in Nat
  BY <1>1
<1> HIDE DEF p
<1> QED
  BY <1>1, <1>2, <1>3 DEF p

\* A sum over a non-empty set lies between as many times two of the values it adds.
THEOREM SumBetween ==
    ASSUME NEW f, NEW S, IsFiniteSet(S), S # {}, \A x \in S : f[x] \in Int
    PROVE  \E s, t \in S : /\ Cardinality(S) * f[s] <= SumFunctionOnSet(f, S)
                           /\ SumFunctionOnSet(f, S) <= Cardinality(S) * f[t]
<1> DEFINE Within(u) == \E s, t \in u : /\ Cardinality(u) * f[s] <= SumFunctionOnSet(f, u)
                                        /\ SumFunctionOnSet(f, u) <= Cardinality(u) * f[t]
           Good == {u \in SUBSET S : u # {} => Within(u)}
<1>1. {} \in Good
  OBVIOUS
<1>2. ASSUME NEW u \in SUBSET S, IsFiniteSet(u), u # {}, \A x \in u : u \ {x} \in Good
      PROVE  u \in Good
  <2> SUFFICES Within(u)
    OBVIOUS
  <2> PICK x \in u : TRUE
    BY <1>2
  <2> DEFINE v == u \ {x}
             n == Cardinality(v)
             total == SumFunctionOnSet(f, v)
  <2>1. IsFiniteSet(v) /\ n \in Nat /\ Cardinality(u) = n + 1
    BY <1>2, RemoveShrinks
  <2>2. SumFunctionOnSet(f, u) = f[x] + total /\ f[x] \in Int
    BY <1>2, SumRemove
  <2>3. total \in Int
    BY <2>1, SumType
  <2>4. CASE v = {}
    <3>1. n = 0 /\ total = 0
      BY <2>4, FS_EmptySet, SumEmpty
    <3> HIDE DEF n, total, v
    <3>2. Cardinality(u) * f[x] = f[x] /\ SumFunctionOnSet(f, u) = f[x]
      BY <2>1, <2>2, <3>1
    <3> QED
      BY <2>2, <3>2
  <2>5. CASE v # {}
    <3>1. Within(v)
      BY <1>2, <2>5
    <3>2. PICK s \in v, t \in v : n * f[s] <= total /\ total <= n * f[t]
      BY <3>1
    <3>3. f[s] \in Int /\ f[t] \in Int /\ s \in u /\ t \in u
      OBVIOUS
    <3> HIDE DEF n, total, v
    <3>4. PICK a \in u : f[a] <= f[s] /\ f[a] <= f[x] /\ f[a] \in Int
      BY <2>2, <3>3
    <3>5. PICK c \in u : f[t] <= f[c] /\ f[x] <= f[c] /\ f[c] \in Int
      BY <2>2, <3>3
    <3>6. /\ (n + 1) * f[a] = n * f[a] + f[a] /\ n * f[a] <= n * f[s]
          /\ n * f[a] \in Int /\ n * f[s] \in Int
      BY <2>1, <3>3, <3>4
    <3>7. /\ (n + 1) * f[c] = n * f[c] + f[c] /\ n * f[t] <= n * f[c]
          /\ n * f[c] \in Int /\ n * f[t] \in Int
      BY <2>1, <3>3, <3>5
    <3>8. (n + 1) * f[a] <= f[x] + total
      BY <2>2, <2>3, <3>2, <3>4, <3>6
    <3>9. f[x] + total <= (n + 1) * f[c]
      BY <2>2, <2>3, <3>2, <3>5, <3>7
    <3> QED
      BY <2>1, <2>2, <3>8, <3>9
  <2> QED
    BY <2>4, <2>5
<1>3. S \in Good
  <2> HIDE DEF Good
  <2> QED
    BY <1>1, <1>2, RemovalInduction
<1> QED
  BY <1>3

-----------------------------------------------------------------------------
(***************************************************************************)
(* Newton's iteration from above computes the integer square root.         *)
(***************************************************************************)

Better(n, x) == (x + n \div x) \div 2
Descent(g, n, x) == IF Better(n, x) < x THEN g[Better(n, x)] ELSE x

\* The table of that descent.
Root(n) == CHOOSE g : g = [x \in 1 .. n |-> Descent(g, n, x)]

\* Where the descent from half of the number ends.
NewtonRoot(n) ==
    IF n = 0 THEN 0 ELSE IF (n + 1) \div 2 < n THEN Root(n)[(n + 1) \div 2] ELSE n

\* A quotient and its remainder.
LEMMA Division ==
    ASSUME NEW n \in Nat, NEW x \in Nat \ {0}
    PROVE  /\ n \div x \in Nat
           /\ x * (n \div x) <= n
           /\ n < x * (n \div x + 1)
<1>1. n \div x \in Nat
  OBVIOUS
<1>2. n = x * (n \div x) + (n % x) /\ n % x \in 0 .. x - 1
  OBVIOUS
<1>3. x * (n \div x + 1) = x * (n \div x) + x
  BY <1>1
<1> DEFINE p == x * (n \div x)
<1>4. p \in Nat
  BY <1>1
<1> HIDE DEF p
<1> QED
  BY <1>1, <1>2, <1>3, <1>4 DEF p

\* The product of two numbers is at most the square of their mean.
LEMMA MeanOfTwo ==
    ASSUME NEW a \in Int, NEW b \in Int
    PROVE  4 * (a * b) <= (a + b) * (a + b)
<1>1. (a - b) * (a - b) >= 0
  <2> DEFINE d == a - b
  <2>1. d \in Int
    OBVIOUS
  <2> HIDE DEF d
  <2>2. d * d >= 0
    BY <2>1
  <2> QED
    BY <2>2 DEF d
<1>2. (a + b) * (a + b) = (a - b) * (a - b) + 4 * (a * b)
  OBVIOUS
<1>3. (a - b) * (a - b) \in Int /\ a * b \in Int
  OBVIOUS
<1> QED
  BY <1>1, <1>2, <1>3

\* Squares grow.
LEMMA SquareMonotonic ==
    ASSUME NEW a \in Nat, NEW b \in Nat, a <= b
    PROVE  a * a <= b * b
<1>1. a * a <= a * b /\ a * b <= b * b
  OBVIOUS
<1>2. a * a \in Nat /\ a * b \in Nat /\ b * b \in Nat
  OBVIOUS
<1> QED
  BY <1>1, <1>2

\* One step of the iteration: the next estimate is never below the root, and if it is
\* not smaller the present one is not above it.
LEMMA NewtonStep ==
    ASSUME NEW n \in Nat \ {0}, NEW x \in 1 .. n
    PROVE  /\ Better(n, x) \in Nat \ {0}
           /\ n < (Better(n, x) + 1) * (Better(n, x) + 1)
           /\ Better(n, x) >= x => x * x <= n
<1> DEFINE q == n \div x
           y == Better(n, x)
<1>1. /\ x \in Nat \ {0} /\ q \in Nat
      /\ x * q <= n
      /\ n < x * (q + 1)
  BY Division
<1>2. y = (x + q) \div 2
  BY DEF Better
<1> HIDE DEF q, y
<1>3. y \in Nat /\ 2 * y <= x + q /\ x + q <= 2 * y + 1
  BY <1>1, <1>2
<1>4. q # 0
  <2> SUFFICES ASSUME q = 0 PROVE FALSE
    OBVIOUS
  <2>1. x * (q + 1) = x
    BY <1>1
  <2> QED
    BY <1>1, <2>1
<1>5. y # 0
  BY <1>1, <1>3, <1>4
<1>6. n < (y + 1) * (y + 1)
  <2> DEFINE s == x + (q + 1)
             t == 2 * (y + 1)
  <2>1. s \in Nat /\ t \in Nat /\ s <= t
    BY <1>1, <1>3
  <2>2. 4 * (x * (q + 1)) <= s * s
    BY <1>1, MeanOfTwo
  <2> HIDE DEF s
  <2>3. t * t = 4 * ((y + 1) * (y + 1))
    BY <1>3
  <2> HIDE DEF t
  <2>4. s * s <= t * t
    BY <2>1, SquareMonotonic
  <2>5. x * (q + 1) \in Nat /\ (y + 1) * (y + 1) \in Nat /\ s * s \in Nat /\ t * t \in Nat
    BY <1>1, <1>3, <2>1
  <2> DEFINE u == x * (q + 1)
             v == (y + 1) * (y + 1)
  <2>6. u <= v
    <3>1. u \in Nat /\ v \in Nat /\ 4 * u <= s * s /\ s * s <= t * t /\ t * t = 4 * v
      BY <2>2, <2>3, <2>4, <2>5
    <3> HIDE DEF u, v
    <3> QED
      BY <2>5, <3>1
  <2>7. n < u /\ u \in Nat /\ v \in Nat
    BY <1>1, <2>5
  <2> HIDE DEF u, v
  <2>8. n < v
    BY <2>6, <2>7
  <2> QED
    BY <2>8 DEF v
<1>7. ASSUME y >= x PROVE x * x <= n
  <2>1. x <= q
    BY <1>1, <1>3, <1>7
  <2>2. x * x <= x * q
    BY <1>1, <2>1
  <2>3. x * x \in Nat /\ x * q \in Nat
    BY <1>1
  <2> QED
    BY <1>1, <2>2, <2>3
<1> QED
  BY <1>3, <1>5, <1>6, <1>7 DEF y

\* The recursion has a solution, because the estimates only fall.
LEMMA RootExists ==
    ASSUME NEW n \in Nat \ {0}
    PROVE  Root(n) = [x \in 1 .. n |-> Descent(Root(n), n, x)]
<1> DEFINE Solves(g, m) == g = [x \in 1 .. m |-> Descent(g, n, x)]
           Good == {m \in Nat : m <= n => \E g : Solves(g, m)}
<1>1. 0 \in Good
  <2> DEFINE g0 == [x \in 1 .. 0 |-> 0]
  <2>1. Solves(g0, 0)
    OBVIOUS
  <2> HIDE DEF Solves
  <2> QED
    BY <2>1
<1>2. ASSUME NEW m \in Nat, m \in Good PROVE m + 1 \in Good
  <2> SUFFICES ASSUME m + 1 <= n PROVE \E g : Solves(g, m + 1)
    OBVIOUS
  <2>1. PICK g : Solves(g, m)
    BY <1>2
  <2> DEFINE last == IF Better(n, m + 1) < m + 1 THEN g[Better(n, m + 1)] ELSE m + 1
             h == [x \in 1 .. m + 1 |-> IF x = m + 1 THEN last ELSE g[x]]
  <2>2. ASSUME NEW x \in 1 .. m + 1, Better(n, x) < x
        PROVE  /\ Better(n, x) \in 1 .. m + 1
               /\ Better(n, x) # m + 1
               /\ h[Better(n, x)] = g[Better(n, x)]
    <3>1. x \in 1 .. n
      OBVIOUS
    <3>2. Better(n, x) \in Nat \ {0}
      BY <3>1, NewtonStep
    <3>3. Better(n, x) \in 1 .. m + 1 /\ Better(n, x) # m + 1
      BY <2>2, <3>2
    <3> QED
      BY <3>3
  <2>3. ASSUME NEW x \in 1 .. m + 1 PROVE h[x] = Descent(h, n, x)
    <3>1. CASE x = m + 1
      <4>1. h[x] = last
        BY <3>1
      <4>2. Better(n, x) < x => h[Better(n, x)] = g[Better(n, x)]
        BY <2>2
      <4> HIDE DEF h
      <4> QED
        BY <3>1, <4>1, <4>2 DEF Descent
    <3>2. CASE x # m + 1
      <4>1. x \in 1 .. m /\ h[x] = g[x]
        BY <3>2
      <4>2. g[x] = Descent(g, n, x)
        BY <2>1, <4>1
      <4>3. Better(n, x) < x => h[Better(n, x)] = g[Better(n, x)]
        BY <2>2
      <4> HIDE DEF h
      <4> QED
        BY <4>1, <4>2, <4>3 DEF Descent
    <3> QED
      BY <3>1, <3>2
  <2>4. h = [x \in 1 .. m + 1 |-> h[x]]
    OBVIOUS
  <2>5. Solves(h, m + 1)
    <3> HIDE DEF h
    <3> QED
      BY <2>3, <2>4
  <2> HIDE DEF h, Solves
  <2> QED
    BY <2>5
<1>3. Nat \subseteq Good
  <2> HIDE DEF Good
  <2> QED
    BY <1>1, <1>2, NumberInduction
<1> HIDE DEF Solves
<1>4. \E g : Solves(g, n)
  BY <1>3
<1> QED
  BY <1>4 DEF Solves, Root

\* The descent from an estimate that is not below the root ends at the root.
LEMMA DescentEnds ==
    ASSUME NEW n \in Nat \ {0}, NEW x \in 1 .. n, n < (x + 1) * (x + 1)
    PROVE  /\ Root(n)[x] \in Nat
           /\ Root(n)[x] * Root(n)[x] <= n
           /\ n < (Root(n)[x] + 1) * (Root(n)[x] + 1)
<1> DEFINE IsRoot(r) == r \in Nat /\ r * r <= n /\ n < (r + 1) * (r + 1)
           g == Root(n)
           Good == {m \in Nat : \A z \in 1 .. n :
                       z <= m /\ n < (z + 1) * (z + 1) => IsRoot(g[z])}
<1>0. \A z \in 1 .. n : g[z] = Descent(g, n, z)
  <2>1. g = [z \in 1 .. n |-> Descent(g, n, z)]
    BY RootExists
  <2> HIDE DEF g
  <2> QED
    BY <2>1
<1> HIDE DEF g
<1>1. 0 \in Good
  BY DEF IsRoot
<1>2. ASSUME NEW m \in Nat, m \in Good PROVE m + 1 \in Good
  <2> HIDE DEF IsRoot
  <2> SUFFICES ASSUME NEW z \in 1 .. n, z <= m + 1, n < (z + 1) * (z + 1)
               PROVE  IsRoot(g[z])
    OBVIOUS
  <2>1. /\ Better(n, z) \in Nat \ {0}
        /\ n < (Better(n, z) + 1) * (Better(n, z) + 1)
        /\ Better(n, z) >= z => z * z <= n
    BY NewtonStep
  <2>2. CASE Better(n, z) < z
    <3>1. Better(n, z) \in 1 .. n /\ Better(n, z) <= m
      BY <2>1, <2>2
    <3>2. IsRoot(g[Better(n, z)])
      BY <1>2, <2>1, <3>1
    <3> QED
      BY <1>0, <2>2, <3>2 DEF Descent
  <2>3. CASE ~(Better(n, z) < z)
    <3>1. Better(n, z) >= z
      BY <2>1, <2>3
    <3>2. IsRoot(z)
      BY <2>1, <3>1 DEF IsRoot
    <3> QED
      BY <1>0, <2>3, <3>2 DEF Descent
  <2> QED
    BY <2>2, <2>3
<1>3. Nat \subseteq Good
  <2> HIDE DEF Good
  <2> QED
    BY <1>1, <1>2, NumberInduction
<1>4. x \in Good /\ x <= x
  BY <1>3
<1>5. IsRoot(g[x])
  <2> HIDE DEF IsRoot
  <2> QED
    BY <1>4
<1> QED
  BY <1>5 DEF IsRoot, g

\* For every number, the iteration ends at the largest integer whose square it holds.
THEOREM NewtonRootIsRoot ==
    ASSUME NEW n \in Nat
    PROVE  /\ NewtonRoot(n) \in Nat
           /\ NewtonRoot(n) * NewtonRoot(n) <= n
           /\ n < (NewtonRoot(n) + 1) * (NewtonRoot(n) + 1)
<1>1. CASE n = 0
  <2>1. NewtonRoot(n) = 0
    BY <1>1 DEF NewtonRoot
  <2> QED
    BY <1>1, <2>1
<1>2. CASE n = 1
  <2>1. NewtonRoot(n) = 1
    BY <1>2 DEF NewtonRoot
  <2> QED
    BY <1>2, <2>1
<1>3. CASE n # 0 /\ n # 1
  <2> DEFINE first == (n + 1) \div 2
  <2>1. first \in 1 .. n /\ first < n /\ n <= 2 * first
    BY <1>3
  <2>2. NewtonRoot(n) = Root(n)[first]
    BY <1>3, <2>1 DEF NewtonRoot
  <2> HIDE DEF first
  <2>3. n < (first + 1) * (first + 1)
    <3>1. (first + 1) * (first + 1) = first * first + 2 * first + 1 /\ first * first \in Nat
      BY <2>1
    <3> QED
      BY <2>1, <3>1
  <2> QED
    BY <1>3, <2>1, <2>2, <2>3, DescentEnds
<1> QED
  BY <1>1, <1>2, <1>3
================================================================================
