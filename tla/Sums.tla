-------------------------------- MODULE Sums --------------------------------
(***************************************************************************)
(* Facts about SumFunction of the community modules, which folds a         *)
(* function over its domain in an order nobody knows: what it does when    *)
(* one value changes, and which values it can have.                        *)
(*                                                                         *)
(* The fold is a recursive function over the subsets of the domain.  The   *)
(* lemmas characterise it by the functions on these subsets that are       *)
(* additive: there is one, there is no other, and its value at the domain  *)
(* is the sum.  Induction over the subsets is done with a minimal          *)
(* counterexample (NoMinimal), as no prover at hand instantiates the       *)
(* induction theorems of the library.                                      *)
(***************************************************************************)
EXTENDS Integers, Functions, FiniteSetTheorems, WellFoundedInduction, TLAPS

\* g[s] is the sum of f over s, for every subset s of S: in whatever order.
Additive(g, f, S) ==
  /\ g \in [SUBSET S -> Int]
  /\ g[{}] = 0
  /\ \A s \in SUBSET S : \A x \in s : g[s] = f[x] + g[s \ {x}]

\* h goes down from every subset by one of its elements, as the fold does.
FoldsDown(h, f, S) ==
  /\ h[{}] = 0
  /\ \A s \in SUBSET S : s # {} => \E x \in s : h[s] = f[x] + h[s \ {x}]

-----------------------------------------------------------------------------
\* A set of subsets of a finite set that is not empty has a smallest member.
LEMMA NoMinimal ==
  ASSUME NEW S, IsFiniteSet(S), NEW T \in SUBSET (SUBSET S), T # {}
  PROVE  \E s \in T : \A t \in T : ~ (t \subseteq s /\ t # s)
<1>1. IsWellFoundedOn(StrictSubsetOrdering(S), SUBSET S)
  BY FS_StrictSubsetOrderingWellFounded, FS_FiniteSubsetsOfFinite
<1>2. PICK s \in T : \A t \in T : ~ (<<t, s>> \in StrictSubsetOrdering(S))
  BY <1>1, WFMin
<1>3. ASSUME NEW t \in T, t \subseteq s, t # s PROVE FALSE
  <2>1. <<t, s>> \in StrictSubsetOrdering(S)
    BY <1>3 DEF StrictSubsetOrdering
  <2> QED BY <1>2, <2>1
<1> QED BY <1>3

\* There is an additive function: take the elements away one by one.
LEMMA AdditiveExists ==
  ASSUME NEW S, IsFiniteSet(S), NEW f \in [S -> Int]
  PROVE  \E g : Additive(g, f, S)
<1> DEFINE Bad == {U \in SUBSET S : ~ \E g : Additive(g, f, U)}
<1> SUFFICES ASSUME S \in Bad PROVE FALSE
  OBVIOUS
<1>1. PICK U \in Bad : \A V \in Bad : ~ (V \subseteq U /\ V # U)
  <2> HIDE DEF Bad
  <2>1. Bad \subseteq SUBSET S BY DEF Bad
  <2> QED BY <2>1, NoMinimal
<1>2. U # {}
  <2>1. Additive([s \in SUBSET {} |-> 0], f, {})
    BY DEF Additive
  <2> QED BY <2>1
<1>3. PICK y \in U : TRUE
  BY <1>2
<1> DEFINE V == U \ {y}
<1>4. PICK h : Additive(h, f, V)
  <2>1. V \in SUBSET S /\ V \subseteq U /\ V # U BY <1>3
  <2> QED BY <1>1, <2>1
<1> DEFINE g == [s \in SUBSET U |-> IF y \in s THEN f[y] + h[s \ {y}] ELSE h[s]]
<1>5. Additive(g, f, U)
  <2>1. f[y] \in Int /\ \A x \in U : f[x] \in Int BY <1>3
  <2>2. \A s \in SUBSET U : s \ {y} \in SUBSET V /\ (y \notin s => s \in SUBSET V)
    OBVIOUS
  <2>3. \A s \in SUBSET V : h[s] \in Int /\ \A x \in s : h[s] = f[x] + h[s \ {x}]
    BY <1>4 DEF Additive
  <2>4. g \in [SUBSET U -> Int]
    <3>1. \A s \in SUBSET U : h[s \ {y}] \in Int /\ (y \notin s => h[s] \in Int)
      BY <2>2, <2>3
    <3> QED BY <3>1, <2>1
  <2>5. g[{}] = 0
    BY <1>4 DEF Additive
  <2>6. ASSUME NEW s \in SUBSET U, NEW x \in s
        PROVE  g[s] = f[x] + g[s \ {x}]
    <3>1. CASE y \notin s
      <4>1. g[s] = h[s] /\ g[s \ {x}] = h[s \ {x}] BY <3>1
      <4> QED BY <4>1, <3>1, <2>2, <2>3
    <3>2. CASE x = y
      <4>1. g[s] = f[y] + h[s \ {y}] /\ g[s \ {x}] = h[s \ {y}] BY <3>2
      <4> QED BY <4>1, <3>2
    <3>3. CASE y \in s /\ x # y
      <4>1. g[s] = f[y] + h[s \ {y}] BY <3>3
      <4>2. g[s \ {x}] = f[y] + h[(s \ {y}) \ {x}]
        <5>1. (s \ {x}) \ {y} = (s \ {y}) \ {x} OBVIOUS
        <5>2. g[s \ {x}] = f[y] + h[(s \ {x}) \ {y}] BY <3>3
        <5> QED BY <5>1, <5>2
      <4>3. s \ {y} \in SUBSET V /\ x \in s \ {y} BY <3>3, <2>2
      <4>4. h[s \ {y}] = f[x] + h[(s \ {y}) \ {x}] BY <4>3, <2>3
      <4>5. h[(s \ {y}) \ {x}] \in Int
        <5>1. (s \ {y}) \ {x} \in SUBSET V OBVIOUS
        <5> QED BY <5>1, <2>3
      <4>6. f[x] \in Int /\ f[y] \in Int BY <2>1
      <4> HIDE DEF g
      <4> QED BY <4>1, <4>2, <4>4, <4>5, <4>6
    <3> QED BY <3>1, <3>2, <3>3
  <2> QED BY <2>4, <2>5, <2>6 DEF Additive
<1> QED BY <1>1, <1>5

\* Whatever follows the recursion agrees with it.
LEMMA AdditiveUnique ==
  ASSUME NEW S, IsFiniteSet(S), NEW f,
         NEW g, Additive(g, f, S), NEW h, FoldsDown(h, f, S)
  PROVE  g[S] = h[S]
<1> DEFINE Bad == {s \in SUBSET S : g[s] # h[s]}
<1> SUFFICES ASSUME Bad # {} PROVE FALSE
  OBVIOUS
<1>1. PICK s \in Bad : \A t \in Bad : ~ (t \subseteq s /\ t # s)
  <2> HIDE DEF Bad
  <2>1. Bad \subseteq SUBSET S BY DEF Bad
  <2> QED BY <2>1, NoMinimal
<1>2. s # {}
  BY DEF Additive, FoldsDown
<1>3. PICK x \in s : h[s] = f[x] + h[s \ {x}]
  BY <1>2 DEF FoldsDown
<1>4. s \ {x} \in SUBSET S /\ g[s \ {x}] = h[s \ {x}]
  <2>1. s \ {x} \in SUBSET S /\ s \ {x} \subseteq s /\ s \ {x} # s BY <1>3
  <2> QED BY <1>1, <2>1
<1> QED BY <1>3, <1>4 DEF Additive

\* The sum of the community modules is the value of an additive function.
LEMMA SumIsAdditive ==
  ASSUME NEW S, IsFiniteSet(S), NEW f \in [S -> Int], NEW g, Additive(g, f, S)
  PROVE  SumFunction(f) = g[S]
<1> DEFINE body(h) == [s \in SUBSET S |-> IF s = {} THEN 0
                        ELSE LET x == CHOOSE x \in s : TRUE IN f[x] + h[s \ {x}]]
           iter == CHOOSE h : h = body(h)
<1>1. SumFunction(f) = iter[S]
  BY DEF SumFunction, SumFunctionOnSet, FoldFunctionOnSet, MapThenFoldSet
<1>2. g = body(g)
  <2>1. \A s \in SUBSET S : g[s] = body(g)[s]
    <3> SUFFICES ASSUME NEW s \in SUBSET S PROVE g[s] = body(g)[s]
      OBVIOUS
    <3>1. CASE s = {}
      BY <3>1 DEF Additive
    <3>2. CASE s # {}
      <4> DEFINE x == CHOOSE x \in s : TRUE
      <4>1. x \in s BY <3>2
      <4>2. g[s] = f[x] + g[s \ {x}] BY <4>1 DEF Additive
      <4> QED BY <3>2, <4>2
    <3> QED BY <3>1, <3>2
  <2> QED BY <2>1 DEF Additive
<1>3. iter = body(iter)
  <2> HIDE DEF body
  <2> QED BY <1>2
<1>4. \A s \in SUBSET S : iter[s] = IF s = {} THEN 0
        ELSE LET x == CHOOSE x \in s : TRUE IN f[x] + iter[s \ {x}]
  <2> HIDE DEF iter
  <2> QED BY <1>3
<1> HIDE DEF iter
<1>5. iter[{}] = 0
  BY <1>4
<1>6. \A s \in SUBSET S : s # {} => \E x \in s : iter[s] = f[x] + iter[s \ {x}]
  BY <1>4
<1>7. FoldsDown(iter, f, S)
  BY <1>5, <1>6 DEF FoldsDown
<1>8. g[S] = iter[S]
  <2> HIDE DEF body
  <2> QED BY <1>7, AdditiveUnique
<1> QED BY <1>1, <1>8

-----------------------------------------------------------------------------
\* A sum of integers is an integer, one of naturals a natural.
LEMMA SumType ==
  ASSUME NEW S, IsFiniteSet(S), NEW f \in [S -> Int]
  PROVE  SumFunction(f) \in Int
<1>1. PICK g : Additive(g, f, S) BY AdditiveExists
<1>2. SumFunction(f) = g[S] BY <1>1, SumIsAdditive
<1>3. g[S] \in Int BY <1>1 DEF Additive
<1> QED BY <1>2, <1>3

LEMMA SumNat ==
  ASSUME NEW S, IsFiniteSet(S), NEW f \in [S -> Nat]
  PROVE  SumFunction(f) \in Nat
<1>1. f \in [S -> Int] OBVIOUS
<1>2. PICK g : Additive(g, f, S) BY <1>1, AdditiveExists
<1> DEFINE Bad == {s \in SUBSET S : g[s] \notin Nat}
<1>3. Bad = {}
  <2> SUFFICES ASSUME Bad # {} PROVE FALSE OBVIOUS
  <2>1. PICK s \in Bad : \A t \in Bad : ~ (t \subseteq s /\ t # s)
    <3> HIDE DEF Bad
    <3>1. Bad \subseteq SUBSET S BY DEF Bad
    <3> QED BY <3>1, NoMinimal
  <2>2. PICK x \in s : TRUE
    <3>1. g[{}] = 0 BY <1>2 DEF Additive
    <3>2. g[s] \notin Nat OBVIOUS
    <3>3. s # {} BY <3>1, <3>2
    <3> QED BY <3>3
  <2>3. s \ {x} \in SUBSET S /\ s \ {x} \subseteq s /\ s \ {x} # s BY <2>2
  <2>4. g[s \ {x}] \in Nat BY <2>1, <2>3
  <2>5. g[s] = f[x] + g[s \ {x}] BY <1>2 DEF Additive
  <2> QED BY <2>4, <2>5
<1> QED BY <1>1, <1>2, <1>3, SumIsAdditive

\* Nothing sums up to nothing.
LEMMA SumZero ==
  ASSUME NEW S, IsFiniteSet(S)
  PROVE  SumFunction([x \in S |-> 0]) = 0
<1> DEFINE f == [x \in S |-> 0]
           g == [s \in SUBSET S |-> 0]
<1>1. Additive(g, f, S) BY DEF Additive
<1>2. f \in [S -> Int] OBVIOUS
<1>3. g[S] = 0 OBVIOUS
<1> HIDE DEF f, g
<1>4. SumFunction(f) = 0 BY <1>1, <1>2, <1>3, SumIsAdditive
<1> QED BY <1>4 DEF f

\* One value that changes moves the sum by as much.
LEMMA SumUpdate ==
  ASSUME NEW S, IsFiniteSet(S), NEW f \in [S -> Int], NEW x \in S, NEW v \in Int
  PROVE  SumFunction([f EXCEPT ![x] = v]) = SumFunction(f) - f[x] + v
<1> DEFINE e == [f EXCEPT ![x] = v]
<1>1. PICK g : Additive(g, f, S) BY AdditiveExists
<1> DEFINE h == [s \in SUBSET S |-> IF x \in s THEN g[s] - f[x] + v ELSE g[s]]
<1>2. e \in [S -> Int] OBVIOUS
<1>3. Additive(h, e, S)
  <2>1. \A s \in SUBSET S : g[s] \in Int BY <1>1 DEF Additive
  <2>2. h \in [SUBSET S -> Int] BY <2>1
  <2>3. h[{}] = 0 BY <1>1 DEF Additive
  <2>4. ASSUME NEW s \in SUBSET S, NEW y \in s
        PROVE  h[s] = e[y] + h[s \ {y}]
    <3>1. g[s] = f[y] + g[s \ {y}] BY <1>1 DEF Additive
    <3>2. g[s] \in Int /\ g[s \ {y}] \in Int /\ f[x] \in Int /\ f[y] \in Int
      <4>1. s \ {y} \in SUBSET S OBVIOUS
      <4> QED BY <4>1, <2>1
    <3>3. CASE y = x
      <4>1. h[s] = g[s] - f[x] + v /\ h[s \ {y}] = g[s \ {y}] /\ e[y] = v BY <3>3
      <4> HIDE DEF h, e
      <4> QED BY <4>1, <3>1, <3>2, <3>3
    <3>4. CASE y # x /\ x \in s
      <4>1. h[s] = g[s] - f[x] + v /\ h[s \ {y}] = g[s \ {y}] - f[x] + v /\ e[y] = f[y]
        BY <3>4
      <4> HIDE DEF h, e
      <4> QED BY <4>1, <3>1, <3>2
    <3>5. CASE x \notin s
      <4>1. h[s] = g[s] /\ h[s \ {y}] = g[s \ {y}] /\ e[y] = f[y] BY <3>5
      <4> QED BY <4>1, <3>1
    <3> QED BY <3>3, <3>4, <3>5
  <2> QED BY <2>2, <2>3, <2>4 DEF Additive
<1>4. h[S] = g[S] - f[x] + v OBVIOUS
<1> HIDE DEF e, h
<1>5. SumFunction(e) = SumFunction(f) - f[x] + v
  BY <1>1, <1>2, <1>3, <1>4, SumIsAdditive
<1> QED BY <1>5 DEF e

\* One element more adds its value.
LEMMA SumAdd ==
  ASSUME NEW S, IsFiniteSet(S), NEW x, x \notin S, NEW f \in [S \cup {x} -> Int]
  PROVE  SumFunction(f) = SumFunction([y \in S |-> f[y]]) + f[x]
<1> DEFINE U == S \cup {x}
           r == [y \in S |-> f[y]]
<1>1. IsFiniteSet(U)
  BY FS_AddElement
<1>2. PICK g : Additive(g, f, U)
  BY <1>1, AdditiveExists
<1> DEFINE h == [s \in SUBSET S |-> g[s]]
<1>3. Additive(h, r, S)
  <2>1. h \in [SUBSET S -> Int] /\ h[{}] = 0
    BY <1>2 DEF Additive
  <2>2. ASSUME NEW s \in SUBSET S, NEW y \in s
        PROVE  h[s] = r[y] + h[s \ {y}]
    BY <1>2 DEF Additive
  <2> QED BY <2>1, <2>2 DEF Additive
<1>4. r \in [S -> Int]
  OBVIOUS
<1>5. SumFunction(f) = g[U]
  BY <1>1, <1>2, SumIsAdditive
<1>6. g[U] = f[x] + g[S] /\ h[S] = g[S] /\ g[S] \in Int /\ f[x] \in Int
  <2>1. U \in SUBSET U /\ x \in U /\ U \ {x} = S /\ S \in SUBSET U
    OBVIOUS
  <2> HIDE DEF U
  <2> QED BY <1>2, <2>1 DEF Additive
<1> HIDE DEF h, r
<1>7. SumFunction(r) = h[S]
  BY <1>3, <1>4, SumIsAdditive
<1>8. SumFunction(f) = SumFunction(r) + f[x]
  BY <1>5, <1>6, <1>7
<1> QED BY <1>8 DEF r

\* Two halves of a set, one of which has c where the other has -c.
LEMMA HalvesCancel ==
  ASSUME NEW S, IsFiniteSet(S), NEW T \in SUBSET S, 2 * Cardinality(T) = Cardinality(S),
         NEW c \in Int
  PROVE  SumFunction([x \in S |-> IF x \in T THEN c ELSE -c]) = 0
<1> DEFINE f == [x \in S |-> IF x \in T THEN c ELSE -c]
           in(s) == Cardinality(s \cap T)
           out(s) == Cardinality(s \ T)
           g == [s \in SUBSET S |-> c * (in(s) - out(s))]
<1>1. ASSUME NEW s \in SUBSET S
      PROVE  /\ IsFiniteSet(s \cap T) /\ in(s) \in Nat
             /\ IsFiniteSet(s \ T) /\ out(s) \in Nat
  <2>1. s \cap T \in SUBSET S /\ s \ T \in SUBSET S OBVIOUS
  <2>2. IsFiniteSet(s \cap T) /\ IsFiniteSet(s \ T) BY <2>1, FS_Subset
  <2> QED BY <2>2, FS_CardinalityType
<1>2. in({}) = 0 /\ out({}) = 0
  <2>1. {} \cap T = {} /\ {} \ T = {} OBVIOUS
  <2> QED BY <2>1, FS_EmptySet
<1>3. ASSUME NEW s \in SUBSET S, NEW x \in s
      PROVE  IF x \in T THEN in(s \ {x}) = in(s) - 1 /\ out(s \ {x}) = out(s)
                        ELSE in(s \ {x}) = in(s) /\ out(s \ {x}) = out(s) - 1
  <2>1. CASE x \in T
    <3>1. (s \ {x}) \cap T = (s \cap T) \ {x} /\ (s \ {x}) \ T = s \ T /\ x \in s \cap T
      BY <2>1
    <3>2. Cardinality((s \cap T) \ {x}) = in(s) - 1
      BY <1>1, <3>1, FS_RemoveElement
    <3> QED BY <2>1, <3>1, <3>2
  <2>2. CASE x \notin T
    <3>1. (s \ {x}) \cap T = s \cap T /\ (s \ {x}) \ T = (s \ T) \ {x} /\ x \in s \ T
      BY <2>2
    <3>2. Cardinality((s \ T) \ {x}) = out(s) - 1
      BY <1>1, <3>1, FS_RemoveElement
    <3> QED BY <2>2, <3>1, <3>2
  <2> QED BY <2>1, <2>2
<1>4. in(S) = out(S)
  <2>1. S \cap T = T /\ T \cup (S \ T) = S /\ T \cap (S \ T) = {} OBVIOUS
  <2>2. IsFiniteSet(T) /\ IsFiniteSet(S \ T) BY FS_Subset
  <2>3. Cardinality(T \cup (S \ T)) = Cardinality(T) + Cardinality(S \ T) - Cardinality({})
    BY <2>1, <2>2, FS_Union
  <2>4. Cardinality(S) = in(S) + out(S) - 0
    BY <2>1, <2>3, FS_EmptySet
  <2>5. 2 * in(S) = Cardinality(S)
    BY <2>1
  <2>6. in(S) \in Nat /\ out(S) \in Nat
    BY <1>1
  <2> HIDE DEF in, out
  <2> QED BY <2>4, <2>5, <2>6
<1>5. \A s \in SUBSET S : in(s) \in Nat /\ out(s) \in Nat
  BY <1>1
<1> HIDE DEF in, out
<1>6. g \in [SUBSET S -> Int]
  BY <1>5
<1>7. ASSUME NEW s \in SUBSET S, NEW x \in s
      PROVE  g[s] = f[x] + g[s \ {x}]
  <2> DEFINE t == s \ {x}
  <2>1. t \in SUBSET S OBVIOUS
  <2>2. g[s] = c * (in(s) - out(s)) /\ g[t] = c * (in(t) - out(t))
    BY <2>1
  <2>3. in(s) \in Nat /\ out(s) \in Nat /\ in(t) \in Nat /\ out(t) \in Nat
    BY <1>5, <2>1
  <2>4. CASE x \in T
    <3>1. in(t) = in(s) - 1 /\ out(t) = out(s) /\ f[x] = c
      BY <1>3, <2>4
    <3> HIDE DEF t, f, g
    <3>2. g[s] = f[x] + g[t]
      BY <2>2, <2>3, <3>1
    <3> QED BY <3>2 DEF t
  <2>5. CASE x \notin T
    <3>1. in(t) = in(s) /\ out(t) = out(s) - 1 /\ f[x] = -c
      BY <1>3, <2>5
    <3> HIDE DEF t, f, g
    <3>2. g[s] = f[x] + g[t]
      BY <2>2, <2>3, <3>1
    <3> QED BY <3>2 DEF t
  <2> QED BY <2>4, <2>5
<1>8. g[{}] = 0 /\ g[S] = 0
  BY <1>2, <1>4, <1>5
<1>9. f \in [S -> Int] OBVIOUS
<1>10. Additive(g, f, S)
  BY <1>6, <1>7, <1>8 DEF Additive
<1> HIDE DEF f, g
<1>11. SumFunction(f) = 0
  BY <1>8, <1>9, <1>10, SumIsAdditive
<1> QED BY <1>11 DEF f
=============================================================================
