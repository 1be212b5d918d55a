------------------------------ MODULE FoldLemmas ------------------------------
(***************************************************************************)
(* Facts about folds over finite sets.  FoldLeft and MapThenSumSet are     *)
(* defined by a function that takes one element after another from a set;  *)
(* that this function exists, and is the only one, is what every proof     *)
(* about them rests on.  Induction is by a smallest counterexample.        *)
(***************************************************************************)
EXTENDS FiniteSetTheorems, FiniteSetsExt, Functions, TLAPS

(* Every non-empty family of subsets of a finite set has a smallest        *)
(* member.                                                                 *)
LEMMA SmallestSubset ==
  ASSUME NEW S, IsFiniteSet(S), NEW T \in SUBSET SUBSET S, T # {}
  PROVE  \E s \in T : \A u \in SUBSET s : u # s => u \notin T
<1>1. T \subseteq FiniteSubsetsOf(S)
  BY FS_FiniteSubsetsOfFinite
<1>2. IsWellFoundedOn(StrictSubsetOrdering(S), FiniteSubsetsOf(S))
  BY FS_StrictSubsetOrderingWellFounded
<1>3. PICK s \in T : \A u \in T : <<u, s>> \notin StrictSubsetOrdering(S)
  BY <1>1, <1>2, WFMin
<1>4. ASSUME NEW u \in SUBSET s, u # s PROVE u \notin T
  <2>1. <<u, s>> \in StrictSubsetOrdering(S)
    BY <1>4 DEF StrictSubsetOrdering
  <2> QED
    BY <1>3, <2>1
<1> QED
  BY <1>4

(* A non-empty set of natural numbers has a smallest, and a largest if it  *)
(* is bounded.                                                             *)
LEMMA SmallestNumber ==
  ASSUME NEW s, s \subseteq Nat, s # {}
  PROVE  Min(s) \in s /\ \A y \in s : Min(s) <= y
<1>1. PICK m \in s : \A k \in s : <<k, m>> \notin OpToRel(<, Nat)
  BY NatLessThanWellFounded, WFMin
<1>2. \A k \in s : m <= k
  <2>1. TAKE k \in s
  <2>2. k \in Nat /\ m \in Nat
    OBVIOUS
  <2>3. k < m => <<k, m>> \in OpToRel(<, Nat)
    BY <2>2 DEF OpToRel
  <2>4. ~(k < m)
    BY <1>1, <2>3, Zenon
  <2> QED
    BY <2>2, <2>4
<1> QED
  BY <1>2 DEF Min

LEMMA LargestNumber ==
  ASSUME NEW n \in Nat, NEW s \in SUBSET (0..n), s # {}
  PROVE  Max(s) \in s /\ \A y \in s : Max(s) >= y
<1> DEFINE T == {n - y : y \in s}
<1>1. T \subseteq Nat /\ T # {}
  <2>1. T \subseteq Nat
    OBVIOUS
  <2>2. T # {}
    OBVIOUS
  <2> QED
    BY <2>1, <2>2
<1> HIDE DEF T
<1>2. Min(T) \in T /\ \A k \in T : Min(T) <= k
  BY <1>1, SmallestNumber
<1>3. PICK x \in s : Min(T) = n - x
  BY <1>2 DEF T
<1>4. \A y \in s : x >= y
  <2>1. TAKE y \in s
  <2>2. n - y \in T
    BY DEF T
  <2> QED
    BY <1>2, <1>3, <2>2
<1> QED
  BY <1>4 DEF Max

LEMMA LargestExists ==
  ASSUME NEW n \in Nat, NEW s \in SUBSET (1..n), s # {}
  PROVE  Max(s) \in s /\ \A y \in s : Max(s) >= y
<1>1. s \in SUBSET (0..n)
  OBVIOUS
<1> QED
  BY <1>1, LargestNumber

(* g takes the elements of every subset of U one after another, in the     *)
(* order in which c chooses them.                                          *)
TakesEach(g, U, B, base, c, op) ==
  /\ g \in [SUBSET U -> B]
  /\ \A s \in SUBSET U : g[s] = IF s = {} THEN base ELSE op[c[s]][g[s \ {c[s]}]]

(* What such a function says of a subset does not depend on U.             *)
LEMMA FoldUnique ==
  ASSUME NEW S, IsFiniteSet(S), NEW B, NEW base, NEW c, NEW op,
         \A s \in (SUBSET S) \ {{}} : c[s] \in s,
         NEW U \in SUBSET S, NEW g, TakesEach(g, U, B, base, c, op),
         NEW V \in SUBSET S, NEW h, TakesEach(h, V, B, base, c, op),
         NEW u \in SUBSET U, u \in SUBSET V
  PROVE  g[u] = h[u]
<1> DEFINE T == {s \in SUBSET S : s \subseteq U /\ s \subseteq V /\ g[s] # h[s]}
<1> SUFFICES ASSUME T # {} PROVE FALSE
  OBVIOUS
<1>1. PICK s \in T : \A w \in SUBSET s : w # s => w \notin T
  <2>1. T \in SUBSET SUBSET S
    OBVIOUS
  <2> HIDE DEF T
  <2> QED
    BY <2>1, SmallestSubset
<1>2. s # {}
  BY DEF TakesEach
<1>3. c[s] \in s
  BY <1>2
<1>4. s \ {c[s]} \in SUBSET s /\ s \ {c[s]} # s
  BY <1>3
<1>5. g[s \ {c[s]}] = h[s \ {c[s]}]
  BY <1>1, <1>4
<1> QED
  BY <1>2, <1>5 DEF TakesEach

(* There is such a function on any finite set.                             *)
LEMMA FoldExists ==
  ASSUME NEW S, IsFiniteSet(S), NEW B, NEW base \in B, NEW c, NEW op,
         \A s \in (SUBSET S) \ {{}} : c[s] \in s,
         \A x \in S : \A b \in B : op[x][b] \in B
  PROVE  \E g : TakesEach(g, S, B, base, c, op)
<1> DEFINE T == {U \in SUBSET S : ~\E g : TakesEach(g, U, B, base, c, op)}
<1> SUFFICES ASSUME T # {} PROVE FALSE
  OBVIOUS
<1>1. PICK U \in T : \A w \in SUBSET U : w # U => w \notin T
  <2>1. T \in SUBSET SUBSET S
    OBVIOUS
  <2> HIDE DEF T
  <2> QED
    BY <2>1, SmallestSubset
<1> DEFINE G(w) == CHOOSE g : TakesEach(g, w, B, base, c, op)
           at(w) == G(w)[w]
           h == [s \in SUBSET U |-> IF s = {} THEN base ELSE op[c[s]][at(s \ {c[s]})]]
<1>2. \A w \in SUBSET U : w # U => TakesEach(G(w), w, B, base, c, op)
  BY <1>1
<1> HIDE DEF G
<1>3. ASSUME NEW w \in SUBSET U, w # U PROVE at(w) \in B
  <2>1. G(w) \in [SUBSET w -> B]
    BY <1>2, <1>3 DEF TakesEach
  <2> QED
    BY <2>1
<1>4. \A s \in (SUBSET U) \ {{}} : c[s] \in s /\ s \ {c[s]} \in SUBSET U /\ s \ {c[s]} # U
  OBVIOUS
<1>5. h \in [SUBSET U -> B]
  BY <1>3, <1>4
<1>6. ASSUME NEW t \in SUBSET U, t # U PROVE h[t] = at(t)
  <2>1. CASE t = {}
    BY <1>2, <1>6, <2>1 DEF TakesEach
  <2>2. CASE t # {}
    <3>1. at(t) = op[c[t]][G(t)[t \ {c[t]}]]
      BY <1>2, <1>6, <2>2 DEF TakesEach
    <3>2. G(t)[t \ {c[t]}] = at(t \ {c[t]})
      <4>1. TakesEach(G(t), t, B, base, c, op)
        BY <1>2, <1>6
      <4>2. t \ {c[t]} \in SUBSET U /\ t \ {c[t]} # U /\ t \ {c[t]} \in SUBSET t
        BY <1>4, <2>2
      <4>3. TakesEach(G(t \ {c[t]}), t \ {c[t]}, B, base, c, op)
        BY <1>2, <4>2
      <4> QED
        BY <4>1, <4>2, <4>3, FoldUnique
    <3> QED
      BY <2>2, <3>1, <3>2
  <2> QED
    BY <2>1, <2>2
<1>7. \A s \in SUBSET U : h[s] = IF s = {} THEN base ELSE op[c[s]][h[s \ {c[s]}]]
  BY <1>4, <1>6
<1>8. TakesEach(h, U, B, base, c, op)
  BY <1>5, <1>7 DEF TakesEach
<1> QED
  BY <1>8

-----------------------------------------------------------------------------
(* Sums.  The library takes the members of a set in the order of CHOOSE;   *)
(* the sum does not depend on it.                                          *)

Chosen(s) == CHOOSE x \in s : TRUE

(* h sums f over the subsets of U in that order.                           *)
SumsUp(h, f, U) ==
  \A s \in SUBSET U : h[s] = IF s = {} THEN 0 ELSE f[Chosen(s)] + h[s \ {Chosen(s)}]

NatOn(f, S) == \A x \in S : f[x] \in Nat

LEMMA SumsExist ==
  ASSUME NEW S, IsFiniteSet(S), NEW f, NatOn(f, S)
  PROVE  \E g \in [SUBSET S -> Nat] : SumsUp(g, f, S)
<1> DEFINE c == [s \in SUBSET S |-> Chosen(s)]
           op == [x \in S |-> [n \in Nat |-> f[x] + n]]
<1>1. \A s \in (SUBSET S) \ {{}} : Chosen(s) \in s /\ c[s] = Chosen(s)
  BY DEF Chosen
<1>2. \A x \in S : \A n \in Nat : op[x][n] = f[x] + n /\ op[x][n] \in Nat
  BY DEF NatOn
<1> HIDE DEF c, op
<1>3. PICK g : TakesEach(g, S, Nat, 0, c, op)
  BY <1>1, <1>2, FoldExists
<1>4. g \in [SUBSET S -> Nat]
  BY <1>3 DEF TakesEach
<1>5. ASSUME NEW s \in SUBSET S
      PROVE  g[s] = IF s = {} THEN 0 ELSE f[Chosen(s)] + g[s \ {Chosen(s)}]
  <2>1. CASE s = {}
    BY <1>3, <2>1 DEF TakesEach
  <2>2. CASE s # {}
    <3>1. g[s] = op[c[s]][g[s \ {c[s]}]]
      BY <1>3, <2>2 DEF TakesEach
    <3>2. c[s] = Chosen(s) /\ Chosen(s) \in S /\ g[s \ {Chosen(s)}] \in Nat
      BY <1>1, <1>4, <2>2
    <3> QED
      BY <1>2, <2>2, <3>1, <3>2
  <2> QED
    BY <2>1, <2>2
<1> QED
  BY <1>4, <1>5 DEF SumsUp

(* A sum may begin with any member.                                        *)
TakesAny(g, f, S) == \A s \in SUBSET S : \A x \in s : g[s] = f[x] + g[s \ {x}]

LEMMA SumTakesAny ==
  ASSUME NEW S, IsFiniteSet(S), NEW f, NatOn(f, S),
         NEW g \in [SUBSET S -> Nat], SumsUp(g, f, S)
  PROVE  TakesAny(g, f, S)
<1> DEFINE T == {t \in SUBSET S : \E y \in t : g[t] # f[y] + g[t \ {y}]}
<1> SUFFICES ASSUME T # {} PROVE FALSE
  BY DEF TakesAny
<1>1. PICK t \in T : \A w \in SUBSET t : w # t => w \notin T
  <2>1. T \in SUBSET SUBSET S
    OBVIOUS
  <2> HIDE DEF T
  <2> QED
    BY <2>1, SmallestSubset
<1>2. PICK y \in t : g[t] # f[y] + g[t \ {y}]
  OBVIOUS
<1> DEFINE z == Chosen(t)
<1>3. z \in t /\ g[t] = f[z] + g[t \ {z}]
  BY <1>2 DEF SumsUp, Chosen
<1>4. y # z
  BY <1>2, <1>3
<1> DEFINE ty == t \ {y}
           tz == t \ {z}
           tyz == t \ {y, z}
<1>5. /\ ty \in SUBSET t /\ ty # t /\ z \in ty /\ ty \ {z} = tyz
      /\ tz \in SUBSET t /\ tz # t /\ y \in tz /\ tz \ {y} = tyz
  BY <1>3, <1>4
<1>6. g[ty] = f[z] + g[tyz] /\ g[tz] = f[y] + g[tyz]
  <2>1. \A w \in SUBSET S : w \notin T => \A v \in w : g[w] = f[v] + g[w \ {v}]
    OBVIOUS
  <2>2. ty \notin T /\ tz \notin T /\ ty \in SUBSET S /\ tz \in SUBSET S
    BY <1>1, <1>5
  <2> HIDE DEF T, ty, tz, tyz, z
  <2>3. g[ty] = f[z] + g[ty \ {z}] /\ g[tz] = f[y] + g[tz \ {y}]
    BY <1>5, <2>1, <2>2
  <2> QED
    BY <1>5, <2>3
<1>7. g[tyz] \in Nat /\ f[y] \in Nat /\ f[z] \in Nat
  BY <1>3 DEF NatOn
<1> HIDE DEF ty, tz, tyz, z
<1>8. g[t] = f[z] + (f[y] + g[tyz]) /\ g[t] # f[y] + (f[z] + g[tyz])
  BY <1>2, <1>3, <1>6 DEF ty, tz
<1> QED
  BY <1>7, <1>8

(* There is one way to sum.                                                *)
LEMMA SumsAgree ==
  ASSUME NEW S, IsFiniteSet(S), NEW f, NEW g, SumsUp(g, f, S),
         NEW U \in SUBSET S, NEW h, SumsUp(h, f, U)
  PROVE  h[U] = g[U]
<1> DEFINE T == {t \in SUBSET S : t \subseteq U /\ h[t] # g[t]}
<1> SUFFICES ASSUME T # {} PROVE FALSE
  OBVIOUS
<1>1. PICK t \in T : \A w \in SUBSET t : w # t => w \notin T
  <2>1. T \in SUBSET SUBSET S
    OBVIOUS
  <2> HIDE DEF T
  <2> QED
    BY <2>1, SmallestSubset
<1>2. t # {}
  BY <1>1 DEF SumsUp
<1>3. Chosen(t) \in t
  BY <1>2 DEF Chosen
<1>4. h[t \ {Chosen(t)}] = g[t \ {Chosen(t)}]
  BY <1>1, <1>3
<1> QED
  BY <1>1, <1>2, <1>4 DEF SumsUp

(* SumFunctionOnSet sums up.                                               *)
LEMMA SumIsTotal ==
  ASSUME NEW S, IsFiniteSet(S), NEW f, NEW g \in [SUBSET S -> Nat], SumsUp(g, f, S),
         NEW U \in SUBSET S
  PROVE  SumFunctionOnSet(f, U) = g[U]
<1> DEFINE it == CHOOSE it : it = [s \in SUBSET U |->
                   IF s = {} THEN 0 ELSE f[CHOOSE x \in s : TRUE] + it[s \ {CHOOSE x \in s : TRUE}]]
           gu == [s \in SUBSET U |-> g[s]]
<1>1. SumFunctionOnSet(f, U) = it[U]
  BY DEF SumFunctionOnSet, FoldFunctionOnSet, MapThenFoldSet
<1>2. gu = [s \in SUBSET U |->
              IF s = {} THEN 0 ELSE f[CHOOSE x \in s : TRUE] + gu[s \ {CHOOSE x \in s : TRUE}]]
  BY DEF SumsUp, Chosen
<1>3. it = [s \in SUBSET U |->
              IF s = {} THEN 0 ELSE f[CHOOSE x \in s : TRUE] + it[s \ {CHOOSE x \in s : TRUE}]]
  BY <1>2
<1> HIDE DEF it
<1>4. SumsUp(it, f, U)
  BY <1>3 DEF SumsUp, Chosen
<1> QED
  BY <1>1, <1>4, SumsAgree

LEMMA TotalSumsUp ==
  ASSUME NEW S, IsFiniteSet(S), NEW f, NatOn(f, S)
  PROVE  \E g \in [SUBSET S -> Nat] : SumsUp(g, f, S) /\ SumFunctionOnSet(f, S) = g[S]
<1>1. PICK g \in [SUBSET S -> Nat] : SumsUp(g, f, S)
  BY SumsExist
<1>2. \A U \in SUBSET S : SumFunctionOnSet(f, U) = g[U]
  BY <1>1, SumIsTotal
<1>3. SumFunctionOnSet(f, S) = g[S]
  <2>1. S \in SUBSET S
    OBVIOUS
  <2> QED
    BY <1>2, <2>1
<1> QED
  BY <1>1, <1>3

(* What proofs use of sums of numbers over a finite set.                   *)
LEMMA TotalTakes ==
  ASSUME NEW S, IsFiniteSet(S), NEW f, NatOn(f, S)
  PROVE  /\ SumFunctionOnSet(f, {}) = 0
         /\ \A U \in SUBSET S : SumFunctionOnSet(f, U) \in Nat
         /\ \A U \in SUBSET S : \A x \in U :
              SumFunctionOnSet(f, U) = f[x] + SumFunctionOnSet(f, U \ {x})
<1>1. PICK g \in [SUBSET S -> Nat] : SumsUp(g, f, S)
  BY SumsExist
<1>2. \A U \in SUBSET S : SumFunctionOnSet(f, U) = g[U]
  BY <1>1, SumIsTotal
<1>3. g[{}] = 0
  BY <1>1 DEF SumsUp
<1>4. TakesAny(g, f, S)
  BY <1>1, SumTakesAny
<1> QED
  BY <1>2, <1>3, <1>4 DEF TakesAny

LEMMA TotalAdds ==
  ASSUME NEW S, IsFiniteSet(S), NEW f, NatOn(f, S),
         NEW U \in SUBSET S, NEW x \in S \ U
  PROVE  SumFunctionOnSet(f, U \cup {x}) = f[x] + SumFunctionOnSet(f, U)
<1> DEFINE V == U \cup {x}
<1>1. V \in SUBSET S /\ x \in V /\ V \ {x} = U
  OBVIOUS
<1> HIDE DEF V
<1>2. SumFunctionOnSet(f, V) = f[x] + SumFunctionOnSet(f, V \ {x})
  BY <1>1, TotalTakes
<1> QED
  BY <1>1, <1>2 DEF V

LEMMA TotalSingle ==
  ASSUME NEW f, NEW x, f[x] \in Nat
  PROVE  SumFunctionOnSet(f, {x}) = f[x]
<1>1. IsFiniteSet({x}) /\ NatOn(f, {x})
  BY FS_Singleton DEF NatOn
<1>2. {x} \in SUBSET {x} /\ x \in {x} /\ {x} \ {x} = {}
  OBVIOUS
<1>3. SumFunctionOnSet(f, {x}) = f[x] + SumFunctionOnSet(f, {x} \ {x}) /\ SumFunctionOnSet(f, {}) = 0
  BY <1>1, <1>2, TotalTakes
<1>4. SumFunctionOnSet(f, {x}) = f[x] + 0
  BY <1>2, <1>3
<1> QED
  BY <1>4

(* A larger set has a larger total.                                        *)
LEMMA TotalGrows ==
  ASSUME NEW S, IsFiniteSet(S), NEW f, NatOn(f, S),
         NEW V \in SUBSET S, NEW U \in SUBSET V
  PROVE  SumFunctionOnSet(f, U) <= SumFunctionOnSet(f, V)
<1> DEFINE T == {t \in SUBSET S : U \subseteq t /\ ~(SumFunctionOnSet(f, U) <= SumFunctionOnSet(f, t))}
<1> SUFFICES ASSUME T # {} PROVE FALSE
  OBVIOUS
<1>1. PICK t \in T : \A w \in SUBSET t : w # t => w \notin T
  <2>1. T \in SUBSET SUBSET S
    OBVIOUS
  <2> HIDE DEF T
  <2> QED
    BY <2>1, SmallestSubset
<1>2. \A w \in SUBSET S : SumFunctionOnSet(f, w) \in Nat
  BY TotalTakes
<1>3. U # t
  BY <1>2
<1>4. PICK x \in t : x \notin U
  BY <1>3
<1>5. SumFunctionOnSet(f, t) = f[x] + SumFunctionOnSet(f, t \ {x})
  BY TotalTakes
<1>6. SumFunctionOnSet(f, U) <= SumFunctionOnSet(f, t \ {x})
  <2>1. t \ {x} \in SUBSET t /\ t \ {x} # t /\ U \subseteq t \ {x} /\ t \ {x} \in SUBSET S
    BY <1>4
  <2>2. t \ {x} \notin T
    BY <1>1, <2>1
  <2> QED
    BY <2>1, <2>2
<1>7. /\ f[x] \in Nat /\ SumFunctionOnSet(f, t \ {x}) \in Nat /\ SumFunctionOnSet(f, U) \in Nat
      /\ ~(SumFunctionOnSet(f, U) <= SumFunctionOnSet(f, t))
  BY <1>2, <1>4 DEF NatOn
<1> QED
  BY <1>5, <1>6, <1>7

(* And by at least the members it has in addition.                         *)
LEMMA TotalGrowsBy ==
  ASSUME NEW S, IsFiniteSet(S), NEW f, NatOn(f, S),
         NEW V \in SUBSET S, NEW U \in SUBSET V, NEW x \in V \ U
  PROVE  f[x] + SumFunctionOnSet(f, U) <= SumFunctionOnSet(f, V)
<1>1. SumFunctionOnSet(f, U \cup {x}) = f[x] + SumFunctionOnSet(f, U)
  BY TotalAdds
<1>2. SumFunctionOnSet(f, U \cup {x}) <= SumFunctionOnSet(f, V)
  BY TotalGrows
<1> QED
  BY <1>1, <1>2

LEMMA TotalSame ==
  ASSUME NEW S, IsFiniteSet(S), NEW f, NatOn(f, S),
         NEW h, \A x \in S : h[x] = f[x]
  PROVE  SumFunctionOnSet(h, S) = SumFunctionOnSet(f, S)
<1>1. PICK g \in [SUBSET S -> Nat] : SumsUp(g, f, S)
  BY SumsExist
<1>2. SumsUp(g, h, S)
  BY <1>1 DEF SumsUp, Chosen
<1>3. SumFunctionOnSet(h, S) = g[S] /\ SumFunctionOnSet(f, S) = g[S]
  BY <1>1, <1>2, SumIsTotal
<1> QED
  BY <1>3

-----------------------------------------------------------------------------
(* A recursive function that calls itself with larger arguments up to a    *)
(* bound exists.                                                           *)
AgreeAbove(f, g, k, n) == \A j \in (k + 1)..n : f[j] = g[j]

CallsAbove(op, n, B) ==
  /\ B # {}
  /\ \A k \in 0..n : \A f \in [0..n -> B] : op[k][f] \in B
  /\ \A k \in 0..n : \A f, g \in [0..n -> B] :
       AgreeAbove(f, g, k, n) => op[k][f] = op[k][g]

LEMMA DescentExists ==
  ASSUME NEW n \in Nat, NEW B, NEW op, CallsAbove(op, n, B)
  PROVE  \E f \in [0..n -> B] : \A k \in 0..n : f[k] = op[k][f]
<1> DEFINE Holds(m) == \E f \in [0..n -> B] : \A k \in m..n : f[k] = op[k][f]
           T == {j \in 1..(n + 1) : ~Holds(j - 1)}
<1>1. Holds(n + 1)
  <2>1. PICK b \in B : TRUE
    BY DEF CallsAbove
  <2>2. [k \in 0..n |-> b] \in [0..n -> B] /\ (n + 1)..n = {}
    OBVIOUS
  <2> QED
    BY <2>2
<1>2. ASSUME T # {} PROVE FALSE
  <2>1. PICK j \in T : \A y \in T : j >= y
    <3>1. T \in SUBSET (1..(n + 1)) /\ n + 1 \in Nat
      OBVIOUS
    <3> HIDE DEF T
    <3> QED
      BY <1>2, <3>1, LargestExists
  <2> DEFINE m == j - 1
  <2>2. m \in 0..n /\ ~Holds(m) /\ j = m + 1
    <3>1. j \in 1..(n + 1) /\ ~Holds(j - 1)
      OBVIOUS
    <3> HIDE DEF T, Holds
    <3> QED
      BY <3>1
  <2>3. Holds(m + 1)
    <3>1. CASE m = n
      BY <1>1, <3>1
    <3>2. CASE m # n
      <4>1. m + 2 \in 1..(n + 1) /\ m + 2 \notin T
        <5> HIDE DEF m, T
        <5>1. m + 2 \in 1..(n + 1)
          BY <2>2, <3>2
        <5>2. ~(j >= m + 2)
          BY <2>2
        <5> QED
          BY <2>1, <5>1, <5>2
      <4>2. (m + 2) - 1 = m + 1
        BY <2>2
      <4> QED
        BY <4>1, <4>2
    <3> QED
      BY <3>1, <3>2
  <2>4. PICK f \in [0..n -> B] : \A k \in (m + 1)..n : f[k] = op[k][f]
    BY <2>3
  <2> DEFINE g == [f EXCEPT ![m] = op[m][f]]
  <2>5. g \in [0..n -> B] /\ g[m] = op[m][f] /\ \A k \in (m + 1)..n : g[k] = f[k]
    <3> HIDE DEF m
    <3>1. op[m][f] \in B
      BY <2>2 DEF CallsAbove
    <3>2. m \notin (m + 1)..n /\ (m + 1)..n \subseteq 0..n
      BY <2>2
    <3> QED
      BY <2>2, <3>1, <3>2
  <2> HIDE DEF g, m
  <2>6. ASSUME NEW k \in m..n PROVE g[k] = op[k][g]
    <3>1. k \in 0..n /\ (\A i \in (k + 1)..n : g[i] = f[i])
      BY <2>2, <2>5
    <3>2. op[k][g] = op[k][f]
      BY <2>5, <3>1 DEF AgreeAbove, CallsAbove
    <3>3. k = m \/ k \in (m + 1)..n
      BY <2>2
    <3> QED
      BY <2>4, <2>5, <3>2, <3>3
  <2> QED
    BY <2>2, <2>5, <2>6
<1>3. Holds(0)
  <2>1. T = {} /\ 1 \in 1..(n + 1)
    BY <1>2
  <2>2. Holds(1 - 1)
    BY <2>1
  <2> HIDE DEF Holds
  <2>3. 1 - 1 = 0
    OBVIOUS
  <2> QED
    BY <2>2, <2>3
<1> QED
  BY <1>3

===============================================================================
