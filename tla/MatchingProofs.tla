---------------------------- MODULE MatchingProofs ----------------------------
(***************************************************************************)
(* Proofs about Matching, for any numbers of records and any inputs.       *)
(***************************************************************************)
EXTENDS Matching, FoldLemmas

-----------------------------------------------------------------------------
(* The depth first search of uniqueSubset.                                 *)

(* The next candidate of a search is the first from its position on.       *)
StillToTry(C, start) == {c \in C : c >= start}
First(C, start) == Min(StillToTry(C, start))

(* The body of the search, v being the search itself: it ends with a       *)
(* combination, or without one, or takes the next candidate or leaves it.  *)
IsFound(amount, selected) == Total(remaining, selected) = amount /\ Cardinality(selected) >= 2
IsCutOff(C, amount, start, selected) ==
  \/ Total(remaining, selected) >= amount \/ Cardinality(selected) >= rule.maxCombinationSize
  \/ StillToTry(C, start) = {}
Taken(v, amount, c, selected) ==
  IF Total(remaining, selected) + remaining[c] > amount THEN {} ELSE v[c + 1][selected \cup {c}]
Branch(v, amount, c, selected) ==
  IF Cardinality(Taken(v, amount, c, selected)) > 1 THEN Taken(v, amount, c, selected)
  ELSE Taken(v, amount, c, selected) \cup v[c + 1][selected]
Below(v, C, amount, start, selected) ==
  IF IsFound(amount, selected) THEN {selected}
  ELSE IF IsCutOff(C, amount, start, selected) THEN {}
  ELSE Branch(v, amount, First(C, start), selected)

(* v searches the candidates C for the amount, up to position n.           *)
Searches(v, C, amount, n) ==
  \A start \in 0..n : \A selected \in SUBSET C :
    v[start][selected] = Below(v, C, amount, start, selected)

(* The positions of the candidates lie below the last one.                 *)
Within(C, last) == last \in Nat /\ \A c \in C : c \in Nat /\ c >= 1 /\ c < last

LEMMA FirstFollowing ==
  ASSUME NEW C, NEW last, Within(C, last), NEW start \in Nat, StillToTry(C, start) # {}
  PROVE  /\ First(C, start) \in C /\ First(C, start) \in Nat /\ First(C, start) >= start
         /\ \A c \in C : c >= start => First(C, start) <= c
         /\ First(C, start) + 1 \in 0..last /\ First(C, start) + 1 \in (start + 1)..last
<1> DEFINE following == StillToTry(C, start)
           first == First(C, start)
<1>1. following \subseteq Nat
  BY DEF StillToTry, Within
<1>2. first = Min(following)
  BY DEF First
<1>3. following # {}
  OBVIOUS
<1> HIDE DEF following, first
<1>4. first \in following /\ \A y \in following : first <= y
  BY <1>1, <1>2, <1>3, SmallestNumber
<1>5. first \in C /\ first >= start /\ \A c \in C : c >= start => first <= c
  BY <1>4 DEF following, StillToTry
<1>6. first \in Nat /\ first < last /\ last \in Nat
  BY <1>5 DEF Within
<1>7. first + 1 \in 0..last /\ first + 1 \in (start + 1)..last
  BY <1>5, <1>6
<1> QED
  BY <1>5, <1>6, <1>7 DEF first

(* What a search finds is a set of combinations.                           *)
LEMMA BelowTyped ==
  ASSUME NEW C, NEW last, Within(C, last), NEW amount,
         NEW v \in [0..last -> [SUBSET C -> SUBSET SUBSET C]],
         NEW start \in 0..last, NEW selected \in SUBSET C
  PROVE  Below(v, C, amount, start, selected) \in SUBSET SUBSET C
<1> DEFINE c == First(C, start)
<1>1. CASE IsFound(amount, selected) \/ IsCutOff(C, amount, start, selected)
  BY <1>1 DEF Below
<1>2. CASE ~IsCutOff(C, amount, start, selected)
  <2>1. StillToTry(C, start) # {} /\ start \in Nat
    BY <1>2 DEF IsCutOff
  <2>2. c \in C /\ c + 1 \in 0..last
    BY <2>1, FirstFollowing
  <2> HIDE DEF c
  <2>3. selected \cup {c} \in SUBSET C
    BY <2>2
  <2>4. v[c + 1] \in [SUBSET C -> SUBSET SUBSET C]
    BY <2>2
  <2>5. /\ v[c + 1][selected] \in SUBSET SUBSET C
        /\ v[c + 1][selected \cup {c}] \in SUBSET SUBSET C
    BY <2>3, <2>4
  <2>6. Taken(v, amount, c, selected) \in SUBSET SUBSET C
    BY <2>5 DEF Taken
  <2>7. Branch(v, amount, c, selected) \in SUBSET SUBSET C
    BY <2>5, <2>6 DEF Branch
  <2> QED
    BY <2>7 DEF Below, c
<1> QED
  BY <1>1, <1>2

(* It depends on the search from later positions only.                     *)
LEMMA BelowLooksAhead ==
  ASSUME NEW C, NEW last, Within(C, last), NEW amount, NEW v, NEW w,
         NEW start \in Nat, NEW selected \in SUBSET C, AgreeAbove(v, w, start, last)
  PROVE  Below(v, C, amount, start, selected) = Below(w, C, amount, start, selected)
<1> DEFINE c == First(C, start)
<1>1. CASE IsFound(amount, selected) \/ IsCutOff(C, amount, start, selected)
  BY <1>1 DEF Below
<1>2. CASE ~IsCutOff(C, amount, start, selected)
  <2>1. StillToTry(C, start) # {}
    BY <1>2 DEF IsCutOff
  <2>2. c + 1 \in (start + 1)..last
    BY <2>1, FirstFollowing
  <2>3. v[c + 1] = w[c + 1]
    BY <2>2 DEF AgreeAbove
  <2>4. Taken(v, amount, c, selected) = Taken(w, amount, c, selected)
    BY <2>3 DEF Taken
  <2>5. Branch(v, amount, c, selected) = Branch(w, amount, c, selected)
    BY <2>3, <2>4 DEF Branch
  <2> QED
    BY <2>5 DEF Below, c
<1> QED
  BY <1>1, <1>2

(* So there is a search of the candidates.                                 *)
IsSearch(v, C, amount, last) ==
  v = [start \in 0..last |-> [selected \in SUBSET C |-> Below(v, C, amount, start, selected)]]

LEMMA SearchSolves ==
  ASSUME NEW C, NEW last, Within(C, last), NEW amount
  PROVE  \E v : IsSearch(v, C, amount, last)
<1>1. ASSUME NEW k \in Nat
      PROVE  \A v, w : AgreeAbove(v, w, k, last) => \A selected \in SUBSET C :
               Below(v, C, amount, k, selected) = Below(w, C, amount, k, selected)
  BY BelowLooksAhead
<1> DEFINE B == [SUBSET C -> SUBSET SUBSET C]
           op == [k \in 0..last |-> [v \in [0..last -> B] |->
                    [selected \in SUBSET C |-> Below(v, C, amount, k, selected)]]]
<1>2. B # {}
  <2>1. [s \in SUBSET C |-> {}] \in B
    OBVIOUS
  <2> QED
    BY <2>1
<1>3. ASSUME NEW k \in 0..last, NEW v \in [0..last -> B] PROVE op[k][v] \in B
  <2>1. v \in [0..last -> [SUBSET C -> SUBSET SUBSET C]]
    OBVIOUS
  <2>2. op[k][v] = [selected \in SUBSET C |-> Below(v, C, amount, k, selected)]
    OBVIOUS
  <2> HIDE DEF B, op
  <2>3. ASSUME NEW selected \in SUBSET C
        PROVE  Below(v, C, amount, k, selected) \in SUBSET SUBSET C
    BY <2>1, BelowTyped
  <2> QED
    BY <2>2, <2>3 DEF B
<1>4. ASSUME NEW k \in 0..last, NEW v \in [0..last -> B], NEW w \in [0..last -> B],
             AgreeAbove(v, w, k, last)
      PROVE  op[k][v] = op[k][w]
  <2>1. /\ op[k][v] = [selected \in SUBSET C |-> Below(v, C, amount, k, selected)]
        /\ op[k][w] = [selected \in SUBSET C |-> Below(w, C, amount, k, selected)]
    OBVIOUS
  <2>2. k \in Nat
    BY DEF Within
  <2> HIDE DEF B, op
  <2>3. \A selected \in SUBSET C :
          Below(v, C, amount, k, selected) = Below(w, C, amount, k, selected)
    BY <1>1, <1>4, <2>2, Zenon
  <2> QED
    BY <2>1, <2>3
<1>5. CallsAbove(op, last, B)
  BY <1>2, <1>3, <1>4 DEF CallsAbove
<1>6. PICK v \in [0..last -> B] : \A k \in 0..last : v[k] = op[k][v]
  <2> HIDE DEF B, op
  <2> QED
    BY <1>5, DescentExists DEF Within
<1>7. \A k \in 0..last : v[k] = [selected \in SUBSET C |-> Below(v, C, amount, k, selected)]
  BY <1>6
<1>8. v = [k \in 0..last |-> [selected \in SUBSET C |-> Below(v, C, amount, k, selected)]]
  <2> HIDE DEF B, op
  <2>1. v = [k \in 0..last |-> v[k]]
    OBVIOUS
  <2> QED
    BY <1>7, <2>1
<1> QED
  BY <1>8 DEF IsSearch

(* SearchBelow is such a search from the first position.                   *)
SearchedBy(v, C, amount, last) ==
  Within(C, last) /\ Searches(v, C, amount, last) /\ Search(C, amount) = v[0][{}]

LEMMA SearchExists ==
  ASSUME NEW m \in Nat, NEW C, C \subseteq 1..m, NEW amount
  PROVE  \E last, v : SearchedBy(v, C, amount, last)
<1> DEFINE n == Max({0} \cup C)
           last == n + 1
           visit == CHOOSE v : IsSearch(v, C, amount, last)
<1>1. Within(C, last)
  <2> DEFINE S == {0} \cup C
  <2>1. \A c \in C : c \in 1..m /\ c \in 0..m
    <3> SUFFICES ASSUME NEW c \in C PROVE c \in 1..m /\ c \in 0..m
      OBVIOUS
    <3>1. c \in 1..m
      OBVIOUS
    <3> QED
      BY <3>1
  <2>2. S \in SUBSET (0..m) /\ S # {}
    BY <2>1
  <2> HIDE DEF S
  <2>3. Max(S) \in S /\ \A y \in S : Max(S) >= y
    BY <2>2, LargestNumber
  <2>4. n = Max(S)
    BY DEF S
  <2> HIDE DEF n
  <2>5. n \in Nat
    <3>1. n \in 0..m
      BY <2>2, <2>3, <2>4
    <3> QED
      BY <3>1
  <2>6. ASSUME NEW c \in C PROVE c \in Nat /\ c >= 1 /\ c < last
    <3>1. c \in 1..m /\ n >= c
      BY <2>1, <2>3, <2>4 DEF S
    <3> QED
      BY <2>5, <3>1
  <2> QED
    BY <2>5, <2>6 DEF Within
<1>2. Search(C, amount) = visit[0][{}]
  BY DEF Search, SearchBelow, IsSearch, Below, IsFound, IsCutOff, Branch, Taken, First, StillToTry
<1> HIDE DEF n, last
<1>3. \E v : IsSearch(v, C, amount, last)
  BY <1>1, SearchSolves
<1>4. IsSearch(visit, C, amount, last)
  BY <1>3
<1> HIDE DEF visit
<1>5. Searches(visit, C, amount, last)
  <2> SUFFICES ASSUME NEW start \in 0..last, NEW selected \in SUBSET C
               PROVE  visit[start][selected] = Below(visit, C, amount, start, selected)
    BY DEF Searches
  <2>1. visit[start] = [s \in SUBSET C |-> Below(visit, C, amount, start, s)]
    BY <1>4 DEF IsSearch
  <2> QED
    BY <2>1
<1> QED
  BY <1>1, <1>2, <1>5 DEF SearchedBy

-----------------------------------------------------------------------------
(* What the search is to find: the completions of a selection by           *)
(* candidates from a position on, in any number up to the largest, that    *)
(* make up the amount.                                                     *)
Completions(C, amount, start, selected) ==
  {T \in SUBSET C : /\ selected \subseteq T /\ \A c \in T \ selected : c >= start
                    /\ Cardinality(T) >= 2 /\ Cardinality(T) <= rule.maxCombinationSize
                    /\ Total(remaining, T) = amount}

(* The candidates have something left, so that each adds to a total.       *)
Owing(C) == IsFiniteSet(C) /\ \A c \in C : remaining[c] \in Nat /\ remaining[c] > 0

LEMMA TotalOfOwing ==
  ASSUME NEW C, Owing(C), NEW T \in SUBSET C
  PROVE  Total(remaining, T) \in Nat /\ Cardinality(T) \in Nat /\ IsFiniteSet(T)
<1>1. IsFiniteSet(C) /\ NatOn(remaining, C)
  BY DEF Owing, NatOn
<1>2. IsFiniteSet(T) /\ Cardinality(T) \in Nat
  BY <1>1, FS_Subset, FS_CardinalityType
<1>3. \A U \in SUBSET C : SumFunctionOnSet(remaining, U) \in Nat
  BY <1>1, TotalTakes
<1> QED
  BY <1>2, <1>3 DEF Total

LEMMA OneMore ==
  ASSUME NEW C, Owing(C), NEW selected \in SUBSET C, NEW c \in C \ selected
  PROVE  /\ Total(remaining, selected \cup {c}) = remaining[c] + Total(remaining, selected)
         /\ Cardinality(selected \cup {c}) = Cardinality(selected) + 1
<1>1. IsFiniteSet(C) /\ NatOn(remaining, C) /\ IsFiniteSet(selected)
  BY TotalOfOwing DEF Owing, NatOn
<1>2. SumFunctionOnSet(remaining, selected \cup {c}) = remaining[c] + SumFunctionOnSet(remaining, selected)
  BY <1>1, TotalAdds
<1>3. Cardinality(selected \cup {c}) = Cardinality(selected) + 1
  BY <1>1, FS_AddElement
<1> QED
  BY <1>2, <1>3 DEF Total

(* A larger selection adds up to more.                                     *)
LEMMA MoreIsMore ==
  ASSUME NEW C, Owing(C), NEW T \in SUBSET C, NEW selected \in SUBSET T
  PROVE  /\ Total(remaining, selected) <= Total(remaining, T)
         /\ selected # T => /\ Total(remaining, selected) < Total(remaining, T)
                            /\ Cardinality(selected) < Cardinality(T)
<1>1. IsFiniteSet(C) /\ NatOn(remaining, C) /\ IsFiniteSet(T)
  BY TotalOfOwing DEF Owing, NatOn
<1>2. Total(remaining, selected) <= Total(remaining, T)
  BY <1>1, TotalGrows DEF Total
<1>3. ASSUME selected # T
      PROVE  /\ Total(remaining, selected) < Total(remaining, T)
             /\ Cardinality(selected) < Cardinality(T)
  <2>1. PICK c \in T \ selected : TRUE
    BY <1>3
  <2>2. remaining[c] + SumFunctionOnSet(remaining, selected) <= SumFunctionOnSet(remaining, T)
    BY <1>1, <2>1, TotalGrowsBy
  <2>3. remaining[c] \in Nat /\ remaining[c] > 0
    BY <2>1 DEF Owing
  <2>4. /\ SumFunctionOnSet(remaining, selected) \in Nat
        /\ SumFunctionOnSet(remaining, T) \in Nat
    BY TotalOfOwing DEF Total
  <2>5. SumFunctionOnSet(remaining, selected) < SumFunctionOnSet(remaining, T)
    BY <2>2, <2>3, <2>4
  <2>6. Cardinality(selected) <= Cardinality(T) /\ Cardinality(selected) # Cardinality(T)
    BY <1>1, <1>3, FS_Subset
  <2>7. Cardinality(selected) \in Nat /\ Cardinality(T) \in Nat
    BY TotalOfOwing
  <2> QED
    BY <2>5, <2>6, <2>7 DEF Total
<1> QED
  BY <1>2, <1>3

LEMMA FoundIsOnly ==
  ASSUME NEW C, Owing(C), rule.maxCombinationSize \in Nat, NEW amount, NEW start,
         NEW selected \in SUBSET C, Cardinality(selected) <= rule.maxCombinationSize,
         IsFound(amount, selected)
  PROVE  Completions(C, amount, start, selected) = {selected}
<1>1. selected \in Completions(C, amount, start, selected)
  BY DEF Completions, IsFound
<1>2. ASSUME NEW T \in Completions(C, amount, start, selected), T # selected
      PROVE  FALSE
  <2>1. T \in SUBSET C /\ selected \in SUBSET T /\ Total(remaining, T) = amount
    BY DEF Completions
  <2>2. Total(remaining, selected) < Total(remaining, T)
    BY <1>2, <2>1, MoreIsMore
  <2>3. Total(remaining, selected) = amount /\ amount \in Nat
    BY <2>1, TotalOfOwing DEF IsFound
  <2> QED
    BY <2>1, <2>2, <2>3
<1> QED
  BY <1>1, <1>2

LEMMA CutOffHasNone ==
  ASSUME NEW C, Owing(C), rule.maxCombinationSize \in Nat, NEW amount \in Nat, NEW start,
         NEW selected \in SUBSET C, ~IsFound(amount, selected), IsCutOff(C, amount, start, selected)
  PROVE  Completions(C, amount, start, selected) = {}
<1> SUFFICES ASSUME NEW T \in Completions(C, amount, start, selected)
             PROVE  FALSE
  OBVIOUS
<1>1. /\ T \in SUBSET C /\ selected \in SUBSET T /\ Total(remaining, T) = amount
      /\ Cardinality(T) >= 2 /\ Cardinality(T) <= rule.maxCombinationSize
      /\ \A c \in T \ selected : c >= start
  BY DEF Completions
<1>2. T # selected
  BY <1>1 DEF IsFound
<1>3. /\ Total(remaining, selected) < Total(remaining, T)
      /\ Cardinality(selected) < Cardinality(T)
  BY <1>1, <1>2, MoreIsMore
<1>4. /\ Total(remaining, selected) \in Nat
      /\ Cardinality(selected) \in Nat /\ Cardinality(T) \in Nat
  BY <1>1, TotalOfOwing
<1>5. CASE Total(remaining, selected) >= amount
  BY <1>1, <1>3, <1>4, <1>5
<1>6. CASE Cardinality(selected) >= rule.maxCombinationSize
  BY <1>1, <1>3, <1>4, <1>6
<1>7. CASE StillToTry(C, start) = {}
  BY <1>1, <1>2, <1>7 DEF StillToTry
<1> QED
  BY <1>5, <1>6, <1>7 DEF IsCutOff

(* A completion takes the next candidate or leaves it.                     *)
LEMMA CompletionsSplit ==
  ASSUME NEW C, NEW last, Within(C, last), NEW amount, NEW start \in Nat,
         NEW selected \in SUBSET C, StillToTry(C, start) # {}, \A c \in selected : c < start
  PROVE  LET c == First(C, start) IN
         Completions(C, amount, start, selected) =
           Completions(C, amount, c + 1, selected \cup {c}) \cup Completions(C, amount, c + 1, selected)
<1> DEFINE c == First(C, start)
<1>1. c \in C /\ c \in Nat /\ c >= start /\ \A d \in C : d >= start => c <= d
  BY FirstFollowing
<1> HIDE DEF c
<1>2. c \notin selected
  <2>1. \A d \in selected : d \in Nat /\ d < start
    BY DEF Within
  <2> QED
    BY <1>1, <2>1
<1>3. \A d \in C : d \in Nat
  BY DEF Within
<1>4. ASSUME NEW T \in SUBSET C, selected \subseteq T, c \in T
      PROVE  (\A d \in T \ selected : d >= start)
               <=> (\A d \in T \ (selected \cup {c}) : d >= c + 1)
  BY <1>1, <1>3, <1>4
<1>5. ASSUME NEW T \in SUBSET C, selected \subseteq T, c \notin T
      PROVE  (\A d \in T \ selected : d >= start) <=> (\A d \in T \ selected : d >= c + 1)
  BY <1>1, <1>3, <1>5
<1>6. ASSUME NEW T \in Completions(C, amount, c + 1, selected) PROVE c \notin T
  BY <1>1, <1>2 DEF Completions
<1>7. ASSUME NEW T
      PROVE  T \in Completions(C, amount, start, selected)
               <=> \/ T \in Completions(C, amount, c + 1, selected \cup {c})
                   \/ T \in Completions(C, amount, c + 1, selected)
  <2>1. CASE c \in T
    BY <1>4, <1>6, <2>1 DEF Completions
  <2>2. CASE c \notin T
    BY <1>5, <2>2 DEF Completions
  <2> QED
    BY <2>1, <2>2
<1> QED
  BY <1>7 DEF c

(* What a search that gives up at two says of all there are: it has found  *)
(* them all, or some of them and more than one.                            *)
Judges(found, all) == found \subseteq all /\ (found = all \/ Cardinality(found) > 1)

LEMMA BothJudge ==
  ASSUME NEW A, NEW B, IsFiniteSet(A), IsFiniteSet(B), NEW a, Judges(a, A), NEW b, Judges(b, B)
  PROVE  Judges(IF Cardinality(a) > 1 THEN a ELSE a \cup b, A \cup B)
<1>1. CASE Cardinality(a) > 1
  BY <1>1 DEF Judges
<1>2. CASE ~(Cardinality(a) > 1)
  <2>1. a = A
    BY <1>2 DEF Judges
  <2>2. CASE b = B
    BY <1>2, <2>1, <2>2 DEF Judges
  <2>3. CASE b # B
    <3>1. Cardinality(b) > 1 /\ b \subseteq B
      BY <2>3 DEF Judges
    <3>2. IsFiniteSet(a \cup b) /\ b \in SUBSET (a \cup b)
      <4>1. IsFiniteSet(b)
        BY <3>1, FS_Subset
      <4> QED
        BY <4>1, <2>1, FS_Union
    <3>3. /\ Cardinality(b) <= Cardinality(a \cup b)
          /\ Cardinality(b) \in Nat /\ Cardinality(a \cup b) \in Nat
      BY <3>2, FS_Subset, FS_CardinalityType
    <3>4. Cardinality(a \cup b) > 1
      BY <3>1, <3>3
    <3> QED
      BY <1>2, <2>1, <3>1, <3>4 DEF Judges
  <2> QED
    BY <2>2, <2>3
<1> QED
  BY <1>1, <1>2

(* The search v judges the completions of every selection it may be asked  *)
(* about at a position.                                                    *)
JudgesAt(v, C, amount, start) ==
  \A selected \in SUBSET C :
    (\A c \in selected : c < start) /\ Cardinality(selected) <= rule.maxCombinationSize
      => Judges(v[start][selected], Completions(C, amount, start, selected))

LEMMA CompletionsFinite ==
  ASSUME NEW C, Owing(C), NEW amount, NEW start, NEW selected
  PROVE  IsFiniteSet(Completions(C, amount, start, selected))
<1>1. IsFiniteSet(SUBSET C)
  BY FS_SUBSET DEF Owing
<1>2. Completions(C, amount, start, selected) \in SUBSET SUBSET C
  BY DEF Completions
<1> QED
  BY <1>1, <1>2, FS_Subset

LEMMA BranchJudges ==
  ASSUME NEW C, Owing(C), NEW last, Within(C, last), rule.maxCombinationSize \in Nat,
         NEW amount \in Nat, NEW v, NEW start \in Nat, NEW selected \in SUBSET C,
         \A c \in selected : c < start, StillToTry(C, start) # {},
         Cardinality(selected) < rule.maxCombinationSize,
         JudgesAt(v, C, amount, First(C, start) + 1)
  PROVE  Judges(Branch(v, amount, First(C, start), selected), Completions(C, amount, start, selected))
<1> DEFINE c == First(C, start)
           with == Completions(C, amount, c + 1, selected \cup {c})
           without == Completions(C, amount, c + 1, selected)
<1>1. c \in C /\ c \in Nat /\ c >= start
  BY FirstFollowing
<1>2. Completions(C, amount, start, selected) = with \cup without
  BY CompletionsSplit
<1>3. JudgesAt(v, C, amount, c + 1)
  OBVIOUS
<1> HIDE DEF c
<1>4. \A d \in selected : d \in Nat /\ d < start
  BY DEF Within
<1>5. c \notin selected
  BY <1>1, <1>4
<1>6. \A d \in selected \cup {c} : d < c + 1
  BY <1>1, <1>4
<1>7. selected \cup {c} \in SUBSET C /\ c \in C \ selected
  BY <1>1, <1>5
<1>8. /\ Total(remaining, selected \cup {c}) = remaining[c] + Total(remaining, selected)
      /\ Cardinality(selected \cup {c}) = Cardinality(selected) + 1
  BY <1>7, OneMore
<1>9. Cardinality(selected) \in Nat /\ Total(remaining, selected) \in Nat /\ remaining[c] \in Nat
  BY <1>1, TotalOfOwing DEF Owing
<1>10. Judges(v[c + 1][selected], without)
  <2>1. \A d \in selected : d < c + 1
    BY <1>6
  <2>2. Cardinality(selected) <= rule.maxCombinationSize
    BY <1>9
  <2> QED
    BY <1>3, <2>1, <2>2 DEF JudgesAt
<1>11. Judges(Taken(v, amount, c, selected), with)
  <2>1. CASE Total(remaining, selected) + remaining[c] > amount
    <3>1. ASSUME NEW T \in with PROVE FALSE
      <4>1. /\ T \in SUBSET C /\ selected \cup {c} \in SUBSET T
            /\ Total(remaining, T) = amount
        BY DEF Completions
      <4>2. Total(remaining, selected \cup {c}) <= Total(remaining, T)
        BY <4>1, MoreIsMore
      <4> QED
        BY <1>8, <1>9, <2>1, <4>1, <4>2
    <3>2. with = {} /\ Taken(v, amount, c, selected) = {}
      BY <2>1, <3>1 DEF Taken
    <3> QED
      BY <3>2 DEF Judges
  <2>2. CASE ~(Total(remaining, selected) + remaining[c] > amount)
    <3>1. Cardinality(selected \cup {c}) <= rule.maxCombinationSize
      BY <1>8, <1>9
    <3>2. Judges(v[c + 1][selected \cup {c}], with)
      BY <1>3, <1>6, <1>7, <3>1 DEF JudgesAt
    <3> QED
      BY <2>2, <3>2 DEF Taken
  <2> QED
    BY <2>1, <2>2
<1>12. IsFiniteSet(with) /\ IsFiniteSet(without)
  BY CompletionsFinite
<1> HIDE DEF with, without
<1>13. Judges(Branch(v, amount, c, selected), with \cup without)
  BY <1>10, <1>11, <1>12, BothJudge DEF Branch
<1> QED
  BY <1>2, <1>13 DEF c

LEMMA SearchJudgesAt ==
  ASSUME NEW C, Owing(C), NEW last, Within(C, last), rule.maxCombinationSize \in Nat,
         NEW amount \in Nat, NEW v, Searches(v, C, amount, last), NEW start \in 0..last,
         \A k \in (start + 1)..last : JudgesAt(v, C, amount, k)
  PROVE  JudgesAt(v, C, amount, start)
<1> SUFFICES ASSUME NEW selected \in SUBSET C, \A c \in selected : c < start,
                    Cardinality(selected) <= rule.maxCombinationSize
             PROVE  Judges(v[start][selected], Completions(C, amount, start, selected))
  BY DEF JudgesAt
<1>1. v[start][selected] = Below(v, C, amount, start, selected)
  BY DEF Searches
<1>2. start \in Nat
  BY DEF Within
<1>3. CASE IsFound(amount, selected)
  <2>1. Completions(C, amount, start, selected) = {selected}
    BY <1>3, FoundIsOnly
  <2> QED
    BY <1>1, <1>3, <2>1 DEF Below, Judges
<1>4. CASE ~IsFound(amount, selected) /\ IsCutOff(C, amount, start, selected)
  <2>1. Completions(C, amount, start, selected) = {}
    BY <1>4, CutOffHasNone
  <2> QED
    BY <1>1, <1>4, <2>1 DEF Below, Judges
<1>5. CASE ~IsFound(amount, selected) /\ ~IsCutOff(C, amount, start, selected)
  <2>1. StillToTry(C, start) # {} /\ Cardinality(selected) < rule.maxCombinationSize
    <3>1. Cardinality(selected) \in Nat
      BY TotalOfOwing
    <3> QED
      BY <1>5, <3>1 DEF IsCutOff
  <2>2. First(C, start) + 1 \in (start + 1)..last
    BY <1>2, <2>1, FirstFollowing
  <2>3. JudgesAt(v, C, amount, First(C, start) + 1)
    BY <2>2
  <2>4. Judges(Branch(v, amount, First(C, start), selected), Completions(C, amount, start, selected))
    BY <1>2, <2>1, <2>3, BranchJudges
  <2> QED
    BY <1>1, <1>5, <2>4 DEF Below
<1> QED
  BY <1>3, <1>4, <1>5

(* The combinations of the candidates that make up the amount.             *)
Combinations(C, amount) ==
  {T \in SUBSET C : /\ Cardinality(T) \in 2 .. rule.maxCombinationSize
                    /\ Total(remaining, T) = amount}

(* The search of uniqueSubset judges them all, in spite of its cuts and    *)
(* its early end: it finds one when there is exactly one, nothing when     *)
(* there is none, and otherwise that there are several.                    *)
THEOREM SearchIsRight ==
  ASSUME NEW m \in Nat, NEW C, C \subseteq 1..m, Owing(C), rule.maxCombinationSize \in Nat,
         NEW amount \in Nat
  PROVE  Judges(Search(C, amount), Combinations(C, amount))
<1>1. PICK last, v : SearchedBy(v, C, amount, last)
  BY SearchExists
<1> last \in Nat
  BY <1>1 DEF Within, SearchedBy
<1>2. JudgesAt(v, C, amount, 0)
  <2> DEFINE T == {k \in 0..last : ~JudgesAt(v, C, amount, k)}
  <2>1. T = {}
    <3> SUFFICES ASSUME T # {} PROVE FALSE
      OBVIOUS
    <3>1. T \in SUBSET (0..last)
      OBVIOUS
    <3> HIDE DEF T
    <3>2. Max(T) \in T /\ \A k \in T : Max(T) >= k
      BY <3>1, LargestNumber
    <3>3. PICK start \in 0..last : start = Max(T)
      BY <3>1, <3>2
    <3>4. ASSUME NEW k \in (start + 1)..last PROVE JudgesAt(v, C, amount, k)
      <4>1. k \in 0..last /\ ~(start >= k)
        OBVIOUS
      <4>2. k \notin T
        BY <3>2, <3>3, <4>1
      <4> QED
        BY <4>1, <4>2 DEF T
    <3>5. JudgesAt(v, C, amount, start)
      BY <1>1, <3>4, SearchJudgesAt DEF SearchedBy
    <3> QED
      BY <3>2, <3>3, <3>5 DEF T
  <2>2. 0 \in 0..last
    OBVIOUS
  <2> QED
    BY <2>1, <2>2
<1>3. Judges(v[0][{}], Completions(C, amount, 0, {}))
  <2>1. {} \in SUBSET C /\ Cardinality({}) <= rule.maxCombinationSize
    BY FS_EmptySet
  <2> QED
    BY <1>2, <2>1 DEF JudgesAt
<1>4. Completions(C, amount, 0, {}) = Combinations(C, amount)
  <2>1. \A T \in SUBSET C : (\A c \in T \ {} : c >= 0) /\ {} \subseteq T
    BY <1>1 DEF Within, SearchedBy
  <2>2. ASSUME NEW T \in SUBSET C
        PROVE  Cardinality(T) \in 2 .. rule.maxCombinationSize
                 <=> Cardinality(T) >= 2 /\ Cardinality(T) <= rule.maxCombinationSize
    <3>1. Cardinality(T) \in Nat
      BY TotalOfOwing
    <3> QED
      BY <3>1
  <2> QED
    BY <2>1, <2>2 DEF Completions, Combinations
<1> QED
  BY <1>1, <1>3, <1>4 DEF SearchedBy

-----------------------------------------------------------------------------
(* What groups allocate of a record is a sum.                              *)
LEMMA AllocatedIsTotal ==
  ASSUME NEW r, NEW G, IsFiniteSet(G), NEW f, NatOn(f, G), \A g \in G : f[g] = g.allocated[r]
  PROVE  AllocatedBy(r, G) = SumFunctionOnSet(f, G)
<1> DEFINE it == CHOOSE it : it = [s \in SUBSET G |->
                   IF s = {} THEN 0
                   ELSE (CHOOSE x \in s : TRUE).allocated[r] + it[s \ {CHOOSE x \in s : TRUE}]]
<1>1. AllocatedBy(r, G) = it[G]
  BY DEF AllocatedBy, MapThenSumSet, MapThenFoldSet
<1>2. PICK h \in [SUBSET G -> Nat] : SumsUp(h, f, G) /\ SumFunctionOnSet(f, G) = h[G]
  BY TotalSumsUp
<1>3. SumFunctionOnSet(f, G) = h[G]
  BY <1>2
<1>4. h = [s \in SUBSET G |->
             IF s = {} THEN 0
             ELSE (CHOOSE x \in s : TRUE).allocated[r] + h[s \ {CHOOSE x \in s : TRUE}]]
  <2>1. \A s \in SUBSET G : s # {} => (CHOOSE x \in s : TRUE) \in G
    OBVIOUS
  <2>2. \A s \in SUBSET G : h[s] =
          IF s = {} THEN 0
          ELSE (CHOOSE x \in s : TRUE).allocated[r] + h[s \ {CHOOSE x \in s : TRUE}]
    BY <1>2, <2>1 DEF SumsUp, Chosen
  <2> QED
    BY <2>2
<1>5. it = [s \in SUBSET G |->
              IF s = {} THEN 0
              ELSE (CHOOSE x \in s : TRUE).allocated[r] + it[s \ {CHOOSE x \in s : TRUE}]]
  BY <1>4
<1> HIDE DEF it
<1>6. SumsUp(it, f, G)
  <2>1. \A s \in SUBSET G : s # {} => Chosen(s) \in G /\ f[Chosen(s)] = Chosen(s).allocated[r]
    BY DEF Chosen
  <2>2. \A s \in SUBSET G : it[s] =
          IF s = {} THEN 0 ELSE Chosen(s).allocated[r] + it[s \ {Chosen(s)}]
    BY <1>5 DEF Chosen
  <2> QED
    BY <2>1, <2>2 DEF SumsUp
<1>7. it[G] = h[G]
  BY <1>2, <1>6, SumsAgree
<1> QED
  BY <1>1, <1>3, <1>7

LEMMA AllocatedNone ==
  ASSUME NEW r
  PROVE  AllocatedBy(r, {}) = 0
<1> DEFINE f == [g \in {} |-> 0]
<1>1. IsFiniteSet({}) /\ NatOn(f, {})
  BY FS_EmptySet DEF NatOn
<1>2. AllocatedBy(r, {}) = SumFunctionOnSet(f, {})
  BY <1>1, AllocatedIsTotal
<1>3. SumFunctionOnSet(f, {}) = 0
  BY <1>1, TotalTakes
<1> QED
  BY <1>2, <1>3

LEMMA AllocatedAdds ==
  ASSUME NEW r, NEW G, IsFiniteSet(G), NEW g, g \notin G,
         \A h \in G \cup {g} : h.allocated[r] \in Nat
  PROVE  AllocatedBy(r, G \cup {g}) = g.allocated[r] + AllocatedBy(r, G)
<1> DEFINE S == G \cup {g}
           f == [h \in S |-> h.allocated[r]]
<1>1. IsFiniteSet(S) /\ G \in SUBSET S /\ g \in S \ G
  BY FS_AddElement
<1>2. (\A h \in S : f[h] = h.allocated[r]) /\ NatOn(f, S) /\ NatOn(f, G)
  BY DEF NatOn
<1> HIDE DEF S, f
<1>3. AllocatedBy(r, S) = SumFunctionOnSet(f, S) /\ AllocatedBy(r, G) = SumFunctionOnSet(f, G)
  BY <1>1, <1>2, AllocatedIsTotal
<1>4. SumFunctionOnSet(f, G \cup {g}) = f[g] + SumFunctionOnSet(f, G)
  BY <1>1, <1>2, TotalAdds
<1>5. f[g] = g.allocated[r]
  BY <1>1, <1>2
<1> QED
  BY <1>3, <1>4, <1>5 DEF S

-----------------------------------------------------------------------------
(* The inductive invariant.  A group uses up one of its records, so a      *)
(* group that allocates what records have left is not there already; the   *)
(* round says on which side the records to visit are.                      *)
GroupsUseUp == \A g \in groups : \E r \in DOMAIN g.allocated : remaining[r] = 0

LeftIsOfRound ==
  /\ round = "many_to_one" => left \subseteq Targets
  /\ round \in {"exact", "one_to_many", "partial"} => left \subseteq Sources

MatchingInv ==
  /\ MatchingTypeOK /\ IsFiniteSet(groups)
  /\ GroupsUseUp /\ LeftIsOfRound
  /\ AllocationsConserve /\ GroupsAreJustified

(* Record i justifies a group of the records D.                            *)
JustifiedBy(i, D) ==
  \A k \in D \ {i} :
    /\ i \in Sources <=> k \in Targets
    /\ rec[k].currency = rec[i].currency
    /\ rec[k].day - rec[i].day \in -rule.dateWindowDays .. rule.dateWindowDays
    /\ rule.identified => rec[i].identifier = rec[k].identifier /\ rec[i].identifier # 0

(* The groups that allocate something of a record.                         *)
GroupsOf(r, G) == {g \in G : r \in DOMAIN g.allocated}

LEMMA SidesAreApart ==
  /\ Sources \subseteq Records /\ Targets \subseteq Records /\ Sources \cap Targets = {}
  /\ Records \subseteq 1 .. (SourceCount + TargetCount) /\ SourceCount + TargetCount \in Nat
  /\ IsFiniteSet(Records)
<1>1. SourceCount \in Nat /\ TargetCount \in Nat
  BY MatchingAssumption
<1>2. Sources \cap Targets = {}
  BY <1>1 DEF Sources, Targets
<1>3. Records \subseteq 1 .. (SourceCount + TargetCount)
  <2> SUFFICES ASSUME NEW r \in Records PROVE r \in 1 .. (SourceCount + TargetCount)
    OBVIOUS
  <2>1. CASE r \in Sources
    BY <1>1, <2>1 DEF Sources
  <2>2. CASE r \in Targets
    BY <1>1, <2>2 DEF Targets
  <2> QED
    BY <2>1, <2>2 DEF Records
<1>4. IsFiniteSet(1 .. (SourceCount + TargetCount))
  BY <1>1, FS_Interval
<1>5. IsFiniteSet(Records)
  BY <1>3, <1>4, FS_Subset
<1> QED
  BY <1>1, <1>2, <1>3, <1>5 DEF Records

LEMMA RuleIs ==
  ASSUME MatchingTypeOK
  PROVE  /\ rule.maxCombinationSize \in Nat /\ rule.dateWindowDays \in Nat
         /\ \A r \in Records : rec[r].day \in Nat /\ remaining[r] \in Nat
<1>1. rule.maxCombinationSize \in 2 .. 10 /\ rule.dateWindowDays \in 0 .. 366
  BY DEF MatchingTypeOK, Rule
<1>2. ASSUME NEW r \in Records PROVE rec[r].day \in Nat /\ remaining[r] \in Nat
  BY DEF MatchingTypeOK, Record
<1> QED
  BY <1>1, <1>2

(* What is eligible for a record may be in a group with it.                *)
LEMMA EligibleFit ==
  ASSUME MatchingTypeOK, NEW i \in Records, NEW S, S \subseteq Eligible(i)
  PROVE  /\ S \subseteq Records /\ i \notin S /\ JustifiedBy(i, {i} \cup S)
         /\ (i \in Sources => S \subseteq Targets) /\ (i \in Targets => S \subseteq Sources)
<1>1. ASSUME NEW k \in S
      PROVE  /\ k \in OtherSide(i) /\ rec[k].currency = rec[i].currency
             /\ Distance(i, k) <= rule.dateWindowDays
             /\ rule.identified => IdentifiersMatch(i, k)
  BY DEF Eligible, Compatible
<1>2. (i \in Sources \/ i \in Targets) /\ ~(i \in Sources /\ i \in Targets)
  BY SidesAreApart DEF Records
<1>3. ASSUME NEW k \in S
      PROVE  /\ k \in Records /\ k # i /\ (i \in Sources <=> k \in Targets)
             /\ (i \in Sources => k \in Targets) /\ (i \in Targets => k \in Sources)
  BY <1>1, <1>2, SidesAreApart DEF OtherSide
<1>4. ASSUME NEW k \in S
      PROVE  rec[k].day - rec[i].day \in -rule.dateWindowDays .. rule.dateWindowDays
  <2>1. rec[k].day \in Nat /\ rec[i].day \in Nat /\ rule.dateWindowDays \in Nat
    BY <1>3, RuleIs
  <2> QED
    BY <1>1, <2>1 DEF Distance
<1>5. JustifiedBy(i, {i} \cup S)
  BY <1>1, <1>3, <1>4 DEF JustifiedBy, IdentifiersMatch
<1> QED
  BY <1>3, <1>5

-----------------------------------------------------------------------------
(* An allocation of amounts to records that passes the assertions.         *)
Allots(allocated) ==
  /\ DOMAIN allocated \subseteq Records /\ allocated \in [DOMAIN allocated -> Nat]

Passes(allocated) ==
  /\ Total(allocated, DOMAIN allocated \cap Sources) = Total(allocated, DOMAIN allocated \cap Targets)
  /\ \A r \in DOMAIN allocated : allocated[r] > 0 /\ allocated[r] <= remaining[r]

GroupFor(type, allocated) == [type |-> type, allocated |-> allocated]

Allocated(type, allocated) ==
  /\ Passes(allocated)
  /\ groups' = groups \cup {GroupFor(type, allocated)}
  /\ remaining' = [r \in Records |->
       IF r \in DOMAIN allocated THEN remaining[r] - allocated[r] ELSE remaining[r]]
  /\ UNCHANGED <<issues, round>>

LEMMA AllocateIs ==
  ASSUME NEW type, NEW allocated, Allocate(type, allocated)
  PROVE  Allocated(type, allocated) \/ (round' = "error" /\ UNCHANGED result)
  BY DEF Allocate, Allocated, Passes, GroupFor

(* The group is a new one.                                                 *)
LEMMA AllocatesNewGroup ==
  ASSUME GroupsUseUp, MatchingTypeOK, NEW type, NEW allocated, Allots(allocated), Passes(allocated)
  PROVE  GroupFor(type, allocated) \notin groups
<1> SUFFICES ASSUME GroupFor(type, allocated) \in groups PROVE FALSE
  OBVIOUS
<1>1. GroupFor(type, allocated).allocated = allocated
  BY DEF GroupFor
<1>2. PICK r \in DOMAIN allocated : remaining[r] = 0
  BY <1>1 DEF GroupsUseUp
<1>3. allocated[r] > 0 /\ allocated[r] <= remaining[r] /\ allocated[r] \in Nat
  BY DEF Passes, Allots
<1> QED
  BY <1>2, <1>3

(* What the groups allocate of a record grows by what the new one does.    *)
LEMMA AllocatedGrows ==
  ASSUME MatchingTypeOK, IsFiniteSet(groups), NEW g, g \notin groups,
         \A r \in DOMAIN g.allocated : g.allocated[r] \in Nat, NEW r
  PROVE  /\ r \in DOMAIN g.allocated =>
              AllocatedBy(r, GroupsOf(r, groups \cup {g})) =
                g.allocated[r] + AllocatedBy(r, GroupsOf(r, groups))
         /\ r \notin DOMAIN g.allocated =>
              AllocatedBy(r, GroupsOf(r, groups \cup {g})) = AllocatedBy(r, GroupsOf(r, groups))
<1>1. CASE r \notin DOMAIN g.allocated
  <2>1. GroupsOf(r, groups \cup {g}) = GroupsOf(r, groups)
    BY <1>1 DEF GroupsOf
  <2> QED
    BY <1>1, <2>1
<1>2. CASE r \in DOMAIN g.allocated
  <2>1. GroupsOf(r, groups \cup {g}) = GroupsOf(r, groups) \cup {g}
    BY <1>2 DEF GroupsOf
  <2>2. IsFiniteSet(GroupsOf(r, groups)) /\ g \notin GroupsOf(r, groups)
    <3>1. GroupsOf(r, groups) \in SUBSET groups
      BY DEF GroupsOf
    <3> QED
      BY <3>1, FS_Subset
  <2>3. \A h \in GroupsOf(r, groups) \cup {g} : h.allocated[r] \in Nat
    <3>1. \A h \in GroupsOf(r, groups) :
            h \in groups /\ r \in DOMAIN h.allocated
      BY DEF GroupsOf
    <3>2. \A h \in groups : h.allocated \in [DOMAIN h.allocated -> Nat \ {0}]
      BY DEF MatchingTypeOK
    <3>3. \A h \in GroupsOf(r, groups) : h.allocated[r] \in Nat \ {0}
      BY <3>1, <3>2
    <3> QED
      BY <1>2, <3>3
  <2>4. AllocatedBy(r, GroupsOf(r, groups) \cup {g}) =
          g.allocated[r] + AllocatedBy(r, GroupsOf(r, groups))
    BY <2>2, <2>3, AllocatedAdds
  <2> QED
    BY <1>2, <2>1, <2>4
<1> QED
  BY <1>1, <1>2

LEMMA AllocatedType ==
  ASSUME MatchingTypeOK, IsFiniteSet(groups), NEW r
  PROVE  AllocatedBy(r, GroupsOf(r, groups)) \in Nat
<1> DEFINE G == GroupsOf(r, groups)
           f == [h \in G |-> h.allocated[r]]
<1>1. IsFiniteSet(G)
  <2>1. G \in SUBSET groups
    BY DEF GroupsOf
  <2> QED
    BY <2>1, FS_Subset
<1>2. ASSUME NEW h \in G PROVE h.allocated[r] \in Nat
  <2>1. h \in groups /\ r \in DOMAIN h.allocated
    BY DEF GroupsOf
  <2>2. h.allocated \in [DOMAIN h.allocated -> Nat \ {0}]
    BY <2>1 DEF MatchingTypeOK
  <2> QED
    BY <2>1, <2>2
<1>3. (\A h \in G : f[h] = h.allocated[r]) /\ NatOn(f, G)
  BY <1>2 DEF NatOn
<1> HIDE DEF G, f
<1>4. AllocatedBy(r, G) = SumFunctionOnSet(f, G)
  BY <1>1, <1>3, AllocatedIsTotal
<1>5. SumFunctionOnSet(f, G) \in Nat
  <2>1. G \in SUBSET G
    OBVIOUS
  <2>2. \A U \in SUBSET G : SumFunctionOnSet(f, U) \in Nat
    BY <1>1, <1>3, TotalTakes
  <2> QED
    BY <2>1, <2>2
<1> QED
  BY <1>4, <1>5 DEF G

(* An allocation keeps the invariant when one of its records justifies the *)
(* group and one has all it had left allocated.                            *)
Due(type, allocated, i) ==
  /\ type \in GroupTypes /\ Allots(allocated)
  /\ i \in DOMAIN allocated /\ JustifiedBy(i, DOMAIN allocated)
  /\ \E r \in DOMAIN allocated : allocated[r] = remaining[r]

LEMMA AllocatedKeepsType ==
  ASSUME MatchingTypeOK, NEW type, NEW allocated, NEW i, Due(type, allocated, i),
         Allocated(type, allocated), UNCHANGED input, left' \subseteq left
  PROVE  MatchingTypeOK'
<1> DEFINE new == GroupFor(type, allocated)
<1>1. remaining' \in [Records -> Nat]
  <2>1. ASSUME NEW r \in Records
        PROVE  (IF r \in DOMAIN allocated THEN remaining[r] - allocated[r] ELSE remaining[r]) \in Nat
    <3>1. remaining[r] \in Nat
      BY DEF MatchingTypeOK
    <3>2. CASE r \in DOMAIN allocated
      <4>1. allocated[r] \in Nat /\ allocated[r] <= remaining[r]
        BY <3>2 DEF Due, Allots, Allocated, Passes
      <4> QED
        BY <3>1, <3>2, <4>1
    <3> QED
      BY <3>1, <3>2
  <2> QED
    BY <2>1 DEF Allocated
<1>2. /\ new.type \in GroupTypes /\ new.allocated \in [DOMAIN new.allocated -> Nat \ {0}]
      /\ DOMAIN new.allocated \subseteq Records
  <2>1. new.type = type /\ new.allocated = allocated
    BY DEF GroupFor
  <2>2. \A r \in DOMAIN allocated : allocated[r] \in Nat /\ allocated[r] > 0
    BY DEF Due, Allots, Allocated, Passes
  <2>3. allocated \in [DOMAIN allocated -> Nat \ {0}]
    BY <2>2 DEF Due, Allots
  <2> QED
    BY <2>1, <2>3 DEF Due, Allots
<1> HIDE DEF new
<1>3. \A g \in groups' : /\ g.type \in GroupTypes
                         /\ g.allocated \in [DOMAIN g.allocated -> Nat \ {0}]
                         /\ DOMAIN g.allocated \subseteq Records
  <2>1. groups' = groups \cup {new}
    BY DEF Allocated, new
  <2> QED
    BY <1>2, <2>1 DEF MatchingTypeOK
<1>4. issues' = issues /\ round' = round /\ rec' = rec /\ rule' = rule
  BY DEF Allocated, input
<1> QED
  BY <1>1, <1>3, <1>4 DEF MatchingTypeOK

LEMMA AllocatedConserves ==
  ASSUME MatchingTypeOK, IsFiniteSet(groups), GroupsUseUp, AllocationsConserve,
         NEW type, NEW allocated, NEW i, Due(type, allocated, i),
         Allocated(type, allocated), UNCHANGED input
  PROVE  AllocationsConserve'
<1> DEFINE new == GroupFor(type, allocated)
<1>1. groups' = groups \cup {new} /\ new.allocated = allocated /\ rec' = rec
  BY DEF Allocated, GroupFor, input
<1>2. new \notin groups
  BY AllocatesNewGroup DEF Due, Allocated
<1> HIDE DEF new
<1>3. ASSUME NEW g \in groups'
      PROVE  Total(g.allocated, DOMAIN g.allocated \cap Sources) =
               Total(g.allocated, DOMAIN g.allocated \cap Targets)
  <2>1. CASE g \in groups
    BY <2>1 DEF AllocationsConserve
  <2>2. CASE g = new
    BY <1>1, <2>2 DEF Allocated, Passes
  <2> QED
    BY <1>1, <2>1, <2>2
<1>4. ASSUME NEW r \in Records
      PROVE  rec[r].amount = remaining'[r] + AllocatedBy(r, GroupsOf(r, groups'))
  <2> DEFINE before == AllocatedBy(r, GroupsOf(r, groups))
             after == AllocatedBy(r, GroupsOf(r, groups'))
  <2>1. rec[r].amount = remaining[r] + before
    BY DEF AllocationsConserve, GroupsOf
  <2>2. before \in Nat
    BY AllocatedType
  <2>3. \A d \in DOMAIN allocated : allocated[d] \in Nat /\ allocated[d] <= remaining[d]
    BY DEF Due, Allots, Allocated, Passes
  <2>4. /\ r \in DOMAIN allocated => after = allocated[r] + before
        /\ r \notin DOMAIN allocated => after = before
    BY <1>1, <1>2, <2>3, AllocatedGrows
  <2>5. remaining'[r] = IF r \in DOMAIN allocated THEN remaining[r] - allocated[r] ELSE remaining[r]
    BY DEF Allocated
  <2>6. remaining[r] \in Nat
    BY DEF MatchingTypeOK
  <2> HIDE DEF before, after
  <2>7. rec[r].amount = remaining'[r] + after
    BY <2>1, <2>2, <2>3, <2>4, <2>5, <2>6
  <2> QED
    BY <2>7 DEF after
<1> QED
  BY <1>1, <1>3, <1>4 DEF AllocationsConserve, GroupsOf

LEMMA AllocatedIsJustified ==
  ASSUME GroupsAreJustified, GroupsUseUp, MatchingTypeOK,
         NEW type, NEW allocated, NEW i, Due(type, allocated, i),
         Allocated(type, allocated), UNCHANGED input
  PROVE  GroupsAreJustified' /\ GroupsUseUp'
<1> DEFINE new == GroupFor(type, allocated)
<1>1. groups' = groups \cup {new} /\ new.allocated = allocated /\ rec' = rec /\ rule' = rule
  BY DEF Allocated, GroupFor, input
<1> HIDE DEF new
<1>2. ASSUME NEW g \in groups'
      PROVE  \E j \in DOMAIN g.allocated : JustifiedBy(j, DOMAIN g.allocated)
  <2>1. CASE g \in groups
    BY <2>1 DEF GroupsAreJustified, JustifiedBy
  <2>2. CASE g = new
    BY <1>1, <2>2 DEF Due
  <2> QED
    BY <1>1, <2>1, <2>2
<1>3. GroupsAreJustified'
  BY <1>1, <1>2 DEF GroupsAreJustified, JustifiedBy
<1>4. ASSUME NEW g \in groups'
      PROVE  \E r \in DOMAIN g.allocated : remaining'[r] = 0
  <2>1. CASE g = new
    <3>1. PICK r \in DOMAIN allocated : allocated[r] = remaining[r]
      BY DEF Due
    <3>2. r \in Records /\ remaining[r] \in Nat
      BY DEF Due, Allots, MatchingTypeOK
    <3>3. remaining'[r] = 0
      BY <3>1, <3>2 DEF Allocated
    <3> QED
      BY <1>1, <2>1, <3>1, <3>3
  <2>2. CASE g \in groups
    <3>1. PICK r \in DOMAIN g.allocated : remaining[r] = 0
      BY <2>2 DEF GroupsUseUp
    <3>2. r \in Records
      BY <2>2 DEF MatchingTypeOK
    <3>3. r \notin DOMAIN allocated
      BY <3>1 DEF Allocated, Passes, Due, Allots
    <3>4. remaining'[r] = 0
      BY <3>1, <3>2, <3>3 DEF Allocated
    <3> QED
      BY <3>4
  <2> QED
    BY <1>1, <2>1, <2>2
<1> QED
  BY <1>3, <1>4 DEF GroupsUseUp

LEMMA AllocateKeeps ==
  ASSUME MatchingInv, NEW type, NEW allocated, NEW i, Due(type, allocated, i),
         Allocate(type, allocated), UNCHANGED input, left' \subseteq left
  PROVE  MatchingInv'
<1>1. CASE Allocated(type, allocated)
  <2>1. IsFiniteSet(groups')
    BY <1>1, FS_AddElement DEF Allocated, MatchingInv
  <2>2. LeftIsOfRound'
    BY <1>1 DEF Allocated, MatchingInv, LeftIsOfRound
  <2> QED
    BY <1>1, <2>1, <2>2, AllocatedKeepsType, AllocatedConserves, AllocatedIsJustified DEF MatchingInv
<1>2. CASE round' = "error" /\ UNCHANGED result
  <2>1. rec' = rec /\ rule' = rule /\ remaining' = remaining /\ groups' = groups /\ issues' = issues
    BY <1>2 DEF input, result
  <2>2. MatchingTypeOK' /\ IsFiniteSet(groups') /\ GroupsUseUp' /\ LeftIsOfRound'
    BY <1>2, <2>1 DEF MatchingInv, MatchingTypeOK, GroupsUseUp, LeftIsOfRound
  <2>3. AllocationsConserve' /\ GroupsAreJustified'
    BY <2>1 DEF MatchingInv, AllocationsConserve, GroupsAreJustified
  <2> QED
    BY <2>2, <2>3 DEF MatchingInv
<1> QED
  BY <1>1, <1>2, AllocateIs

-----------------------------------------------------------------------------
(* What the rounds allocate is due.                                        *)
LEMMA WholeIs ==
  ASSUME MatchingTypeOK, NEW S, S \subseteq Records
  PROVE  /\ DOMAIN Whole(S) = S /\ Allots(Whole(S))
         /\ \A r \in S : Whole(S)[r] = remaining[r]
<1>1. \A r \in S : remaining[r] \in Nat
  BY RuleIs
<1> QED
  BY <1>1 DEF Whole, Allots

LEMMA PairIs ==
  ASSUME NEW i \in Records, NEW k \in Records, NEW amount \in Nat
  PROVE  /\ DOMAIN Pair(i, k, amount) = {i, k} /\ Allots(Pair(i, k, amount))
         /\ Pair(i, k, amount)[i] = amount /\ Pair(i, k, amount)[k] = amount
<1> DEFINE p == Pair(i, k, amount)
<1>1. p = [r \in {i, k} |-> amount]
  BY DEF Pair
<1> HIDE DEF p
<1>2. DOMAIN p = {i, k} /\ p[i] = amount /\ p[k] = amount /\ p \in [{i, k} -> Nat]
  BY <1>1
<1>3. {i, k} \subseteq Records
  OBVIOUS
<1>4. Allots(p)
  <2>1. DOMAIN p = {i, k} /\ p \in [DOMAIN p -> Nat]
    BY <1>2
  <2> QED
    BY <1>3, <2>1 DEF Allots
<1> QED
  BY <1>2, <1>4 DEF p

LEMMA PairDue ==
  ASSUME MatchingTypeOK, NEW i \in Records, NEW k \in Eligible(i), NEW type \in GroupTypes,
         NEW amount \in {remaining[i], remaining[k]}
  PROVE  Due(type, Pair(i, k, amount), i)
<1>1. PICK S : S = {k}
  OBVIOUS
<1>2. k \in Records /\ JustifiedBy(i, {i, k})
  <2>1. S \subseteq Eligible(i) /\ {i} \cup S = {i, k} /\ k \in S
    BY <1>1
  <2>2. S \subseteq Records /\ JustifiedBy(i, {i} \cup S)
    BY <2>1, EligibleFit
  <2> QED
    BY <2>1, <2>2
<1>3. amount \in Nat
  BY <1>2, RuleIs
<1>4. /\ DOMAIN Pair(i, k, amount) = {i, k} /\ Allots(Pair(i, k, amount))
      /\ Pair(i, k, amount)[i] = amount /\ Pair(i, k, amount)[k] = amount
  BY <1>2, <1>3, PairIs
<1> QED
  BY <1>2, <1>4 DEF Due

LEMMA WholeDue ==
  ASSUME MatchingTypeOK, NEW i \in Records, NEW S, S \subseteq Eligible(i), NEW type \in GroupTypes
  PROVE  Due(type, Whole({i} \cup S), i)
<1>1. {i} \cup S \subseteq Records /\ JustifiedBy(i, {i} \cup S)
  BY EligibleFit
<1>2. /\ DOMAIN Whole({i} \cup S) = {i} \cup S /\ Allots(Whole({i} \cup S))
      /\ Whole({i} \cup S)[i] = remaining[i]
  BY <1>1, WholeIs
<1> QED
  BY <1>1, <1>2 DEF Due

(* The smaller of what two records have left.                              *)
LEMMA SmallerLeft ==
  ASSUME NEW a \in Nat, NEW b \in Nat
  PROVE  /\ Min({a, b}) \in {a, b} /\ Min({a, b}) \in Nat
         /\ Min({a, b}) <= a /\ Min({a, b}) <= b
<1>1. {a, b} \subseteq Nat /\ {a, b} # {}
  OBVIOUS
<1>2. Min({a, b}) \in {a, b} /\ \A y \in {a, b} : Min({a, b}) <= y
  BY <1>1, SmallestNumber
<1> QED
  BY <1>2

(* What uniqueSubset is given: numbered records that have something left.  *)
LEMMA SmallerOwing ==
  ASSUME MatchingTypeOK, NEW i \in Records
  PROVE  /\ Smaller(i) \subseteq 1 .. (SourceCount + TargetCount) /\ Owing(Smaller(i))
         /\ Smaller(i) \subseteq Eligible(i) /\ Smaller(i) \subseteq Records
<1>1. Smaller(i) \subseteq Eligible(i)
  BY DEF Smaller
<1>2. Smaller(i) \subseteq Records
  BY <1>1, EligibleFit
<1>3. IsFiniteSet(Smaller(i))
  BY <1>2, SidesAreApart, FS_Subset
<1>4. \A k \in Smaller(i) : remaining[k] \in Nat /\ remaining[k] > 0
  BY <1>2, RuleIs DEF Smaller
<1>5. Smaller(i) \subseteq 1 .. (SourceCount + TargetCount)
  BY <1>2, SidesAreApart
<1> QED
  BY <1>1, <1>2, <1>3, <1>4, <1>5 DEF Owing

LEMMA SearchOfSmaller ==
  ASSUME MatchingTypeOK, NEW i \in Records
  PROVE  Judges(Search(Smaller(i), remaining[i]), Combinations(Smaller(i), remaining[i]))
<1>1. rule.maxCombinationSize \in Nat /\ remaining[i] \in Nat
  BY RuleIs
<1>2. SourceCount + TargetCount \in Nat
  BY SidesAreApart
<1> QED
  BY <1>1, <1>2, SmallerOwing, SearchIsRight

-----------------------------------------------------------------------------
(* Every step keeps the invariant.                                         *)
LEMMA MatchingInitially == MatchingInit => MatchingInv
<1> SUFFICES ASSUME MatchingInit PROVE MatchingInv
  OBVIOUS
<1>1. rec \in [Records -> Record] /\ rule \in Rule
  BY MatchingAssumption DEF MatchingInit
<1>2. \A r \in Records : rec[r].amount \in Nat /\ remaining[r] = rec[r].amount
  BY <1>1 DEF MatchingInit, AmountOf, Record
<1>3. remaining \in [Records -> Nat]
  BY <1>2 DEF MatchingInit, AmountOf
<1>4. MatchingTypeOK
  BY <1>1, <1>3 DEF MatchingInit, MatchingTypeOK, Rounds, Records
<1>5. AllocationsConserve
  <2>1. \A r : {g \in groups : r \in DOMAIN g.allocated} = {}
    BY DEF MatchingInit
  <2>2. \A r \in Records : rec[r].amount = remaining[r] + 0
    BY <1>2
  <2> QED
    BY <2>1, <2>2, AllocatedNone DEF AllocationsConserve, MatchingInit
<1>6. IsFiniteSet(groups) /\ GroupsUseUp /\ LeftIsOfRound /\ GroupsAreJustified
  BY FS_EmptySet DEF MatchingInit, GroupsUseUp, LeftIsOfRound, GroupsAreJustified
<1> QED
  BY <1>4, <1>5, <1>6 DEF MatchingInv

(* A step that allocates nothing.                                          *)
LEMMA NothingAllocated ==
  ASSUME MatchingInv, UNCHANGED <<input, remaining, groups>>,
         issues' \subseteq [type : IssueTypes, record : Records],
         round' \in Rounds \cup {"done", "error", "budget"}, left' \subseteq Records, LeftIsOfRound'
  PROVE  MatchingInv'
<1>1. rec' = rec /\ rule' = rule /\ remaining' = remaining /\ groups' = groups
  BY DEF input
<1>2. MatchingTypeOK' /\ IsFiniteSet(groups') /\ GroupsUseUp'
  BY <1>1 DEF MatchingInv, MatchingTypeOK, GroupsUseUp
<1>3. AllocationsConserve' /\ GroupsAreJustified'
  BY <1>1 DEF MatchingInv, AllocationsConserve, GroupsAreJustified
<1> QED
  BY <1>2, <1>3 DEF MatchingInv

LEMMA StaysKeeps ==
  ASSUME MatchingInv, UNCHANGED <<input, result, round>>, left' \subseteq left
  PROVE  MatchingInv'
<1>1. LeftIsOfRound'
  BY DEF MatchingInv, LeftIsOfRound
<1>2. issues' = issues /\ remaining' = remaining /\ groups' = groups
  BY DEF result
<1> QED
  BY <1>1, <1>2, NothingAllocated DEF MatchingInv, MatchingTypeOK

LEMMA RaiseKeeps ==
  ASSUME MatchingInv, NEW type \in IssueTypes, NEW i \in Records, Raise(type, i),
         UNCHANGED input, left' \subseteq left
  PROVE  MatchingInv'
<1>1. LeftIsOfRound'
  BY DEF MatchingInv, LeftIsOfRound, Raise
<1>2. [type |-> type, record |-> i] \in [type : IssueTypes, record : Records]
  OBVIOUS
<1> QED
  BY <1>1, <1>2, NothingAllocated DEF MatchingInv, MatchingTypeOK, Raise

LEMMA VisitIs ==
  ASSUME MatchingTypeOK, NEW in, NEW i, Visit(in, i)
  PROVE  i \in Records /\ UNCHANGED input /\ left' \subseteq left /\ i \in left
  BY DEF MatchingTypeOK, Visit

LEMMA VisitExactKeeps ==
  ASSUME MatchingInv, NEW i, VisitExact(i)
  PROVE  MatchingInv'
<1> DEFINE candidates == {k \in Eligible(i) : remaining[k] = remaining[i]}
<1>1. i \in Records /\ UNCHANGED input /\ left' \subseteq left
  BY VisitIs DEF VisitExact, MatchingInv
<1>2. CASE UNCHANGED <<result, round>>
  BY <1>1, <1>2, StaysKeeps
<1>3. CASE Raise("ambiguous_exact", i)
  BY <1>1, <1>3, RaiseKeeps DEF IssueTypes
<1>4. ASSUME NEW k \in candidates, Allocate("one_to_one", Pair(i, k, remaining[i]))
      PROVE  MatchingInv'
  <2>1. Due("one_to_one", Pair(i, k, remaining[i]), i)
    BY <1>1, PairDue DEF GroupTypes, MatchingInv
  <2> QED
    BY <1>1, <1>4, <2>1, AllocateKeeps
<1> QED
  BY <1>2, <1>3, <1>4 DEF VisitExact

LEMMA VisitCombinationKeeps ==
  ASSUME MatchingInv, NEW in \in {"many_to_one", "one_to_many"}, NEW i, VisitCombination(in, i)
  PROVE  MatchingInv'
<1> DEFINE found == Search(Smaller(i), remaining[i])
<1>1. i \in Records /\ UNCHANGED input /\ left' \subseteq left
  BY VisitIs DEF VisitCombination, MatchingInv
<1>2. CASE UNCHANGED <<result, round>>
  BY <1>1, <1>2, StaysKeeps
<1>3. CASE Raise("candidate_limit", i)
  BY <1>1, <1>3, RaiseKeeps DEF IssueTypes
<1>4. CASE Raise("ambiguous_combination", i)
  BY <1>1, <1>4, RaiseKeeps DEF IssueTypes
<1>5. ASSUME NEW S \in found, Allocate(in, Whole({i} \cup S))
      PROVE  MatchingInv'
  <2>1. S \subseteq Smaller(i)
    BY <1>1, SearchOfSmaller DEF Judges, Combinations, MatchingInv
  <2>2. S \subseteq Eligible(i)
    BY <1>1, <2>1, SmallerOwing DEF MatchingInv
  <2>3. Due(in, Whole({i} \cup S), i)
    BY <1>1, <2>2, WholeDue DEF GroupTypes, MatchingInv
  <2> QED
    BY <1>1, <1>5, <2>3, AllocateKeeps
<1> HIDE DEF found
<1> QED
  BY <1>2, <1>3, <1>4, <1>5 DEF VisitCombination, found

LEMMA VisitPartialKeeps ==
  ASSUME MatchingInv, NEW i, VisitPartial(i)
  PROVE  MatchingInv'
<1> DEFINE candidates == {k \in Eligible(i) : remaining[k] > 0}
           least(k) == Min({remaining[i], remaining[k]})
<1>1. i \in Records /\ UNCHANGED input /\ left' \subseteq left
  BY VisitIs DEF VisitPartial, MatchingInv
<1>2. CASE UNCHANGED <<result, round>>
  BY <1>1, <1>2, StaysKeeps
<1>3. CASE Raise("ambiguous_partial", i)
  BY <1>1, <1>3, RaiseKeeps DEF IssueTypes
<1>4. ASSUME NEW k \in candidates, Allocate("partial", Pair(i, k, least(k)))
      PROVE  MatchingInv'
  <2>1. remaining[i] \in Nat /\ remaining[k] \in Nat
    <3>1. {k} \subseteq Eligible(i)
      OBVIOUS
    <3>2. k \in Records
      BY <1>1, <3>1, EligibleFit DEF MatchingInv
    <3> QED
      BY <1>1, <3>2, RuleIs DEF MatchingInv
  <2>2. least(k) \in {remaining[i], remaining[k]}
    BY <2>1, SmallerLeft
  <2>3. Due("partial", Pair(i, k, least(k)), i)
    BY <1>1, <2>2, PairDue DEF GroupTypes, MatchingInv
  <2> QED
    BY <1>1, <1>4, <2>3, AllocateKeeps
<1> QED
  BY <1>2, <1>3, <1>4 DEF VisitPartial

LEMMA NextRoundKeeps ==
  ASSUME MatchingInv, NextRound
  PROVE  MatchingInv'
<1>1. UNCHANGED <<input, remaining, groups>> /\ issues' = issues
  BY DEF NextRound, result
<1>2. round' \in {"many_to_one", "one_to_many", "partial", "done"}
  BY DEF NextRound, Following
<1>3. left' = IF round' = "many_to_one" THEN Targets ELSE IF round' = "done" THEN {} ELSE Sources
  BY DEF NextRound
<1>4. left' \subseteq Records /\ LeftIsOfRound'
  BY <1>2, <1>3, SidesAreApart DEF LeftIsOfRound
<1>5. issues' \subseteq [type : IssueTypes, record : Records] /\ round' \in Rounds \cup {"done", "error", "budget"}
  BY <1>1, <1>2 DEF MatchingInv, MatchingTypeOK, Rounds
<1> QED
  BY <1>1, <1>4, <1>5, NothingAllocated

(* The budget is exceeded: as after the initial state, nothing is          *)
(* allocated.                                                              *)
LEMMA BudgetKeeps ==
  ASSUME MatchingInv, BudgetExceeded
  PROVE  MatchingInv'
<1>1. /\ rec' = rec /\ rule' = rule /\ groups' = {} /\ issues' = {} /\ remaining' = AmountOf
      /\ round' = "budget" /\ left' = {}
  BY DEF BudgetExceeded, input
<1>2. ASSUME NEW r \in Records
      PROVE  rec[r].amount \in Nat /\ remaining'[r] = rec[r].amount
  BY <1>1 DEF MatchingInv, MatchingTypeOK, AmountOf, Record
<1>3. remaining' \in [Records -> Nat]
  BY <1>1, <1>2 DEF AmountOf
<1>4. MatchingTypeOK'
  BY <1>1, <1>3 DEF MatchingInv, MatchingTypeOK
<1>5. AllocationsConserve'
  <2>1. \A r : {g \in groups' : r \in DOMAIN g.allocated} = {}
    BY <1>1
  <2>2. \A r \in Records : rec[r].amount = remaining'[r] + 0
    BY <1>2
  <2> QED
    BY <1>1, <2>1, <2>2, AllocatedNone DEF AllocationsConserve
<1>6. IsFiniteSet(groups') /\ GroupsUseUp' /\ LeftIsOfRound' /\ GroupsAreJustified'
  BY <1>1, FS_EmptySet DEF GroupsUseUp, LeftIsOfRound, GroupsAreJustified
<1> QED
  BY <1>4, <1>5, <1>6 DEF MatchingInv

LEMMA MatchingStep == MatchingInv /\ [MatchingNext]_matchingVars => MatchingInv'
<1> SUFFICES ASSUME MatchingInv, [MatchingNext]_matchingVars PROVE MatchingInv'
  OBVIOUS
<1>1. ASSUME NEW i \in left, PassOver(i) PROVE MatchingInv'
  <2>1. UNCHANGED input /\ left' \subseteq left
    BY <1>1, VisitIs DEF PassOver, MatchingInv
  <2> QED
    BY <1>1, <2>1, StaysKeeps DEF PassOver
<1>2. CASE UNCHANGED matchingVars
  BY <1>2, StaysKeeps DEF matchingVars
<1> QED
  BY <1>1, <1>2, VisitExactKeeps, VisitPartialKeeps, VisitCombinationKeeps, NextRoundKeeps, BudgetKeeps
  DEF MatchingNext

THEOREM MatchingAlways == MatchingSpec => []MatchingInv
  BY MatchingInitially, MatchingStep, PTL DEF MatchingSpec

(* The state of a matching is well typed: amounts left are natural         *)
(* numbers, groups allocate positive amounts to records of the run.        *)
THEOREM MatchingTypeCorrect == MatchingSpec => []MatchingTypeOK
<1>1. MatchingInv => MatchingTypeOK
  BY DEF MatchingInv
<1> QED
  BY <1>1, MatchingAlways, PTL

(* Whatever records are matched, in whatever round, both sides of every    *)
(* group are equal and no amount is created or lost.                       *)
THEOREM AllocationsAlwaysConserve == MatchingSpec => []AllocationsConserve
<1>1. MatchingInv => AllocationsConserve
  BY DEF MatchingInv
<1> QED
  BY <1>1, MatchingAlways, PTL

(* Every group is justified by one of its records: the others are of the   *)
(* other side, in its currency, window and identifiers.                    *)
THEOREM GroupsAlwaysJustified == MatchingSpec => []GroupsAreJustified
<1>1. MatchingInv => GroupsAreJustified
  BY DEF MatchingInv
<1> QED
  BY <1>1, MatchingAlways, PTL

-----------------------------------------------------------------------------
(* The assertions of allocateGroup pass for what the rounds allocate.      *)
LEMMA AllocateSucceeds ==
  ASSUME NEW type, NEW allocated, Allocate(type, allocated), Passes(allocated),
         Total(allocated, DOMAIN allocated \cap Sources) > 0
  PROVE  Allocated(type, allocated)
<1>1. \A r \in DOMAIN allocated : allocated[r] > 0 /\ allocated[r] <= remaining[r]
  BY DEF Passes
<1> QED
  BY <1>1 DEF Allocate, Allocated, Passes, GroupFor

(* The two sides of a group of record i and eligible others.               *)
LEMMA SidesOf ==
  ASSUME MatchingTypeOK, NEW i \in Records, NEW S, S \subseteq Eligible(i), NEW D, D = {i} \cup S
  PROVE  \/ D \cap Sources = {i} /\ D \cap Targets = S
         \/ D \cap Sources = S /\ D \cap Targets = {i}
<1>1. (i \in Sources => S \subseteq Targets) /\ (i \in Targets => S \subseteq Sources)
  BY EligibleFit
<1>2. i \in Sources \/ i \in Targets
  BY DEF Records
<1> QED
  BY <1>1, <1>2, SidesAreApart

LEMMA PairPasses ==
  ASSUME MatchingTypeOK, NEW i \in Records, NEW k \in Eligible(i), NEW amount \in Nat,
         amount > 0, amount <= remaining[i], amount <= remaining[k]
  PROVE  /\ Passes(Pair(i, k, amount))
         /\ Total(Pair(i, k, amount), DOMAIN Pair(i, k, amount) \cap Sources) > 0
<1> DEFINE p == Pair(i, k, amount)
<1>1. PICK S : S = {k}
  OBVIOUS
<1>2. S \subseteq Eligible(i) /\ {i, k} = {i} \cup S
  BY <1>1
<1>3. S \subseteq Records
  BY <1>2, EligibleFit
<1>4. DOMAIN p = {i, k} /\ p[i] = amount /\ p[k] = amount
  BY <1>1, <1>3, PairIs
<1> HIDE DEF p
<1>5. SumFunctionOnSet(p, {i}) = amount /\ SumFunctionOnSet(p, {k}) = amount
  <2>1. p[i] \in Nat /\ p[k] \in Nat
    BY <1>4
  <2> QED
    BY <1>4, <2>1, TotalSingle
<1>6. \/ {i, k} \cap Sources = {i} /\ {i, k} \cap Targets = {k}
      \/ {i, k} \cap Sources = {k} /\ {i, k} \cap Targets = {i}
  BY <1>1, <1>2, SidesOf
<1>7. /\ Total(p, DOMAIN p \cap Sources) = amount
      /\ Total(p, DOMAIN p \cap Targets) = amount
  BY <1>4, <1>5, <1>6 DEF Total
<1> QED
  BY <1>4, <1>7 DEF Passes, p

LEMMA WholePasses ==
  ASSUME MatchingTypeOK, NEW i \in Records, remaining[i] > 0,
         NEW S, S \in Combinations(Smaller(i), remaining[i])
  PROVE  /\ Passes(Whole({i} \cup S))
         /\ Total(Whole({i} \cup S), DOMAIN Whole({i} \cup S) \cap Sources) > 0
<1>1. PICK D : D = {i} \cup S
  OBVIOUS
<1> DEFINE w == Whole(D)
<1>2. S \subseteq Smaller(i) /\ Total(remaining, S) = remaining[i]
  BY DEF Combinations
<1>3. S \subseteq Eligible(i) /\ S \subseteq Records /\ D \subseteq Records
  BY <1>1, <1>2, SmallerOwing
<1>4. DOMAIN w = D /\ \A r \in D : w[r] = remaining[r]
  BY <1>3, WholeIs
<1>5. remaining[i] \in Nat
  BY RuleIs
<1>6. \/ D \cap Sources = {i} /\ D \cap Targets = S
      \/ D \cap Sources = S /\ D \cap Targets = {i}
  <2>1. (i \in Sources => S \subseteq Targets) /\ (i \in Targets => S \subseteq Sources)
    BY <1>3, EligibleFit
  <2>2. (i \in Sources \/ i \in Targets) /\ Sources \cap Targets = {}
    BY SidesAreApart DEF Records
  <2> QED
    BY <1>1, <2>1, <2>2
<1>7. \A r \in D : remaining[r] > 0 /\ w[r] <= remaining[r]
  <2>1. \A r \in S : remaining[r] > 0
    BY <1>2 DEF Smaller
  <2>2. \A r \in D : remaining[r] \in Nat
    BY <1>3, RuleIs
  <2> QED
    BY <1>1, <1>4, <2>1, <2>2
<1>8. i \in D /\ S \subseteq D
  BY <1>1
<1> HIDE DEF w
<1>9. SumFunctionOnSet(w, {i}) = remaining[i]
  <2>1. w[i] = remaining[i] /\ w[i] \in Nat
    BY <1>4, <1>5, <1>8
  <2> QED
    BY <2>1, TotalSingle
<1>10. SumFunctionOnSet(w, S) = remaining[i]
  <2>1. IsFiniteSet(S)
    BY <1>3, SidesAreApart, FS_Subset
  <2>2. NatOn(remaining, S) /\ \A x \in S : w[x] = remaining[x]
    BY <1>3, <1>4, <1>8, RuleIs DEF NatOn
  <2>3. SumFunctionOnSet(w, S) = SumFunctionOnSet(remaining, S)
    BY <2>1, <2>2, TotalSame
  <2> QED
    BY <1>2, <2>3 DEF Total
<1>11. Total(w, D \cap Sources) = remaining[i] /\ Total(w, D \cap Targets) = remaining[i]
  BY <1>6, <1>9, <1>10 DEF Total
<1> QED
  BY <1>1, <1>4, <1>7, <1>11 DEF Passes, w

-----------------------------------------------------------------------------
(* As many alternatives as things to allocate.                             *)
Tells(a, K, A) ==
  IsFiniteSet(K) /\ (\A x, y \in K : a[x] = a[y] => x = y) /\ A = {a[k] : k \in K}

AsManyAs(K, A) ==
  /\ K = {} \/ Cardinality(K) > 1 => Cardinality(A) # 1
  /\ ~(K = {} \/ Cardinality(K) > 1) => Cardinality(A) = 1 /\ \E k : K = {k}

LEMMA WaysCount ==
  ASSUME NEW K, NEW a, NEW A, Tells(a, K, A)
  PROVE  AsManyAs(K, A)
<1>1. IsFiniteSet(K) /\ (\A x, y \in K : a[x] = a[y] => x = y) /\ A = {a[k] : k \in K}
  BY DEF Tells
<1> DEFINE f == [k \in K |-> a[k]]
<1>2. f \in Surjection(K, A) /\ f \in Injection(K, A)
  <2>1. f \in [K -> A]
    BY <1>1
  <2>2. \A t \in A : \E k \in K : f[k] = t
    BY <1>1
  <2>3. \A x, y \in K : f[x] = f[y] => x = y
    BY <1>1
  <2> HIDE DEF f
  <2> QED
    BY <2>1, <2>2, <2>3 DEF Surjection, Injection, IsInjective
<1> HIDE DEF f
<1>3. Cardinality(A) = Cardinality(K)
  BY <1>2, <1>1, FS_Surjection
<1>4. /\ Cardinality(K) \in Nat /\ (Cardinality(K) = 0 <=> K = {})
      /\ Cardinality(K) = 1 => \E k : K = {k}
  BY <1>1, FS_CardinalityType, FS_EmptySet, FS_Singleton
<1> QED
  BY <1>3, <1>4 DEF AsManyAs

(* What is open to a record, in the rounds that pair it with one other.    *)
Equal(i) == {k \in Eligible(i) : remaining[k] = remaining[i]}
OpenTo(i) == {k \in Eligible(i) : remaining[k] > 0}

LEMMA OpenOwing ==
  ASSUME MatchingTypeOK, NEW i \in Records
  PROVE  /\ OpenTo(i) \subseteq Records /\ Owing(OpenTo(i)) /\ i \notin OpenTo(i)
         /\ OpenTo(i) \subseteq Eligible(i) /\ IsFiniteSet(OpenTo(i))
<1>1. OpenTo(i) \subseteq Eligible(i)
  BY DEF OpenTo
<1>2. OpenTo(i) \subseteq Records /\ i \notin OpenTo(i)
  BY <1>1, EligibleFit
<1>3. IsFiniteSet(OpenTo(i))
  BY <1>2, SidesAreApart, FS_Subset
<1>4. \A k \in OpenTo(i) : remaining[k] \in Nat /\ remaining[k] > 0
  BY <1>2, RuleIs DEF OpenTo
<1> QED
  BY <1>1, <1>2, <1>3, <1>4 DEF Owing

LEMMA EqualFit ==
  ASSUME MatchingTypeOK, NEW i \in Records
  PROVE  /\ Equal(i) \subseteq Records /\ i \notin Equal(i)
         /\ Equal(i) \subseteq Eligible(i) /\ IsFiniteSet(Equal(i))
<1>1. Equal(i) \subseteq Eligible(i)
  BY DEF Equal
<1>2. Equal(i) \subseteq Records /\ i \notin Equal(i)
  BY <1>1, EligibleFit
<1>3. IsFiniteSet(Equal(i))
  BY <1>2, SidesAreApart, FS_Subset
<1> QED
  BY <1>1, <1>2, <1>3

LEMMA OpenIs ==
  ASSUME NEW i
  PROVE  {k \in Compatible(i) : remaining[k] > 0 /\ (rule.identified => IdentifiersMatch(i, k))} = OpenTo(i)
  BY DEF OpenTo, Eligible

LEMMA ExactAlternatives ==
  ASSUME round = "exact", NEW i, remaining[i] > 0
  PROVE  Alternatives(i) = {Whole({i, k}) : k \in Equal(i)}
<1>1. {k \in OpenTo(i) : remaining[k] = remaining[i]} = Equal(i)
  BY DEF OpenTo, Equal
<1> QED
  BY <1>1, OpenIs DEF Alternatives

LEMMA PartialAlternatives ==
  ASSUME round = "partial", NEW i
  PROVE  Alternatives(i) = {Pair(i, k, Min({remaining[i], remaining[k]})) : k \in OpenTo(i)}
  BY OpenIs DEF Alternatives

(* Whatever adds up to what a record has left consists of smaller ones.    *)
LEMMA CombinationsAreSmaller ==
  ASSUME MatchingTypeOK, NEW i \in Records
  PROVE  Combinations(OpenTo(i), remaining[i]) = Combinations(Smaller(i), remaining[i])
<1>1. Smaller(i) \subseteq OpenTo(i)
  BY DEF Smaller, OpenTo
<1>2. ASSUME NEW S \in Combinations(OpenTo(i), remaining[i]) PROVE S \subseteq Smaller(i)
  <2>1. S \in SUBSET OpenTo(i) /\ Cardinality(S) \in 2 .. rule.maxCombinationSize
        /\ Total(remaining, S) = remaining[i]
    BY DEF Combinations
  <2>2. ASSUME NEW k \in S PROVE k \in Smaller(i)
    <3>1. {k} # S
      <4>1. Cardinality({k}) = 1
        BY FS_Singleton
      <4>2. rule.maxCombinationSize \in Nat
        BY RuleIs
      <4>3. Cardinality(S) # 1
        BY <2>1, <4>2
      <4> QED
        BY <4>1, <4>3
    <3>2. PICK U : U = {k}
      OBVIOUS
    <3>3. U \in SUBSET S /\ U # S
      BY <3>1, <3>2
    <3>4. Total(remaining, U) < Total(remaining, S)
      BY <2>1, <3>3, OpenOwing, MoreIsMore
    <3>5. k \in OpenTo(i) /\ remaining[k] \in Nat
      BY <2>1, OpenOwing DEF Owing
    <3>6. Total(remaining, {k}) = remaining[k]
      BY <3>5, TotalSingle DEF Total
    <3> QED
      BY <2>1, <3>2, <3>4, <3>5, <3>6 DEF OpenTo, Smaller
  <2> QED
    BY <2>2
<1> QED
  BY <1>1, <1>2 DEF Combinations

LEMMA CombinationAlternatives ==
  ASSUME MatchingTypeOK, round \in {"many_to_one", "one_to_many"}, NEW i \in Records
  PROVE  Alternatives(i) = {Whole({i} \cup S) : S \in Combinations(Smaller(i), remaining[i])}
<1>1. {S \in SUBSET OpenTo(i) : /\ Cardinality(S) \in 2 .. rule.maxCombinationSize
                                /\ Total(remaining, S) = remaining[i]}
        = Combinations(Smaller(i), remaining[i])
  BY CombinationsAreSmaller DEF Combinations
<1> QED
  BY <1>1, OpenIs DEF Alternatives

-----------------------------------------------------------------------------
(* A visit allocates the only way there is, or nothing.                    *)
Ways(i) ==
  IF Cardinality(Alternatives(i)) = 1 /\ ~TooMany(i)
  THEN {[type |-> TypeIn(round), allocated |-> a] : a \in Alternatives(i)} ELSE {}

LEMMA NothingNew ==
  ASSUME groups' = groups, NEW i, Cardinality(Alternatives(i)) # 1 \/ TooMany(i)
  PROVE  groups' \ groups = Ways(i)
  BY DEF Ways

LEMMA OneNew ==
  ASSUME MatchingInv, NEW allocated, NEW type, Allots(allocated), Allocated(type, allocated),
         NEW i, Cardinality(Alternatives(i)) = 1, ~TooMany(i), Alternatives(i) = {allocated},
         type = TypeIn(round)
  PROVE  groups' \ groups = Ways(i) /\ round' = round
<1>1. GroupFor(type, allocated) \notin groups
  BY AllocatesNewGroup DEF MatchingInv, Allocated
<1>2. groups' \ groups = {GroupFor(type, allocated)}
  BY <1>1 DEF Allocated
<1>3. Ways(i) = {GroupFor(type, allocated)}
  BY DEF Ways, GroupFor
<1> QED
  BY <1>2, <1>3 DEF Allocated

LEMMA ExactOnlyWay ==
  ASSUME MatchingInv, NEW i \in Records, VisitExact(i)
  PROVE  groups' \ groups = Ways(i) /\ round' = round
<1> DEFINE a == [k \in Equal(i) |-> Whole({i, k})]
<1>1. /\ i \in Records /\ round = "exact" /\ remaining[i] > 0
      /\ MatchingTypeOK /\ remaining[i] \in Nat
  BY VisitIs, RuleIs DEF VisitExact, Visit, MatchingInv
<1>2. /\ Equal(i) \subseteq Records /\ i \notin Equal(i) /\ IsFiniteSet(Equal(i))
      /\ Equal(i) \subseteq Eligible(i)
  BY <1>1, EqualFit
<1>3. Alternatives(i) = {a[k] : k \in Equal(i)}
  <2>1. Alternatives(i) = {Whole({i, k}) : k \in Equal(i)}
    BY <1>1, ExactAlternatives
  <2> QED
    BY <2>1
<1>4. \A x, y \in Equal(i) : a[x] = a[y] => x = y
  <2> SUFFICES ASSUME NEW x \in Equal(i), NEW y \in Equal(i), a[x] = a[y] PROVE x = y
    OBVIOUS
  <2>1. Whole({i, x}) = Whole({i, y})
    OBVIOUS
  <2>2. {i, x} = {i, y}
    <3>1. DOMAIN Whole({i, x}) = {i, x} /\ DOMAIN Whole({i, y}) = {i, y}
      BY DEF Whole
    <3> QED
      BY <2>1, <3>1
  <2> QED
    BY <1>2, <2>2
<1> HIDE DEF a
<1>5. AsManyAs(Equal(i), Alternatives(i))
  <2>1. Tells(a, Equal(i), Alternatives(i))
    BY <1>2, <1>3, <1>4 DEF Tells
  <2> QED
    BY <2>1, WaysCount
<1>6. CASE Equal(i) = {} \/ Cardinality(Equal(i)) > 1
  <2>1. groups' = groups /\ round' = round
    <3>1. ~(Cardinality({}) > 1)
      BY FS_EmptySet
    <3> QED
      BY <1>6, <3>1 DEF VisitExact, Raise, Equal, result
  <2>2. Cardinality(Alternatives(i)) # 1
    BY <1>5, <1>6 DEF AsManyAs
  <2> QED
    BY <2>1, <2>2, NothingNew
<1>7. CASE Equal(i) # {} /\ ~(Cardinality(Equal(i)) > 1)
  <2>1. PICK k \in Equal(i) : Allocate("one_to_one", Pair(i, k, remaining[i]))
    BY <1>7 DEF VisitExact, Equal
  <2>2. Equal(i) = {k} /\ Cardinality(Alternatives(i)) = 1
    BY <1>5, <1>7, <2>1 DEF AsManyAs
  <2>3. k \in Records /\ remaining[k] = remaining[i] /\ k \in Eligible(i)
    BY <1>2 DEF Equal
  <2>4. Passes(Pair(i, k, remaining[i]))
        /\ Total(Pair(i, k, remaining[i]), DOMAIN Pair(i, k, remaining[i]) \cap Sources) > 0
    BY <1>1, <2>3, PairPasses
  <2>5. Allocated("one_to_one", Pair(i, k, remaining[i]))
    BY <2>1, <2>4, AllocateSucceeds
  <2>6. Pair(i, k, remaining[i]) = Whole({i, k})
    BY <2>3 DEF Pair, Whole
  <2>7. Alternatives(i) = {Pair(i, k, remaining[i])}
    BY <1>3, <2>2, <2>6 DEF a
  <2>8. Allots(Pair(i, k, remaining[i]))
    BY <1>1, <2>3, PairIs
  <2>9. ~TooMany(i) /\ "one_to_one" = TypeIn(round)
    BY <1>1 DEF TooMany, TypeIn
  <2> QED
    BY <2>2, <2>5, <2>7, <2>8, <2>9, OneNew
<1> QED
  BY <1>6, <1>7

LEMMA PartialOnlyWay ==
  ASSUME MatchingInv, NEW i \in Records, VisitPartial(i)
  PROVE  groups' \ groups = Ways(i) /\ round' = round
<1> DEFINE least(k) == Min({remaining[i], remaining[k]})
           a == [k \in OpenTo(i) |-> Pair(i, k, least(k))]
<1>1. /\ round = "partial" /\ remaining[i] > 0
      /\ MatchingTypeOK /\ remaining[i] \in Nat
  BY RuleIs DEF VisitPartial, Visit, MatchingInv
<1>2. /\ OpenTo(i) \subseteq Records /\ i \notin OpenTo(i) /\ IsFiniteSet(OpenTo(i))
      /\ OpenTo(i) \subseteq Eligible(i)
  BY <1>1, OpenOwing
<1>3. Alternatives(i) = {a[k] : k \in OpenTo(i)}
  <2>1. Alternatives(i) = {Pair(i, k, least(k)) : k \in OpenTo(i)}
    BY <1>1, PartialAlternatives
  <2> QED
    BY <2>1
<1>4. \A x, y \in OpenTo(i) : a[x] = a[y] => x = y
  <2> SUFFICES ASSUME NEW x \in OpenTo(i), NEW y \in OpenTo(i), a[x] = a[y] PROVE x = y
    OBVIOUS
  <2>1. Pair(i, x, least(x)) = Pair(i, y, least(y))
    OBVIOUS
  <2> HIDE DEF least
  <2>2. {i, x} = {i, y}
    <3>1. DOMAIN Pair(i, x, least(x)) = {i, x} /\ DOMAIN Pair(i, y, least(y)) = {i, y}
      BY DEF Pair
    <3> QED
      BY <2>1, <3>1
  <2> QED
    BY <1>2, <2>2
<1> HIDE DEF a
<1>5. AsManyAs(OpenTo(i), Alternatives(i))
  <2>1. Tells(a, OpenTo(i), Alternatives(i))
    BY <1>2, <1>3, <1>4 DEF Tells
  <2> QED
    BY <2>1, WaysCount
<1>6. CASE OpenTo(i) = {} \/ Cardinality(OpenTo(i)) > 1
  <2>1. groups' = groups /\ round' = round
    <3>1. ~(Cardinality({}) > 1)
      BY FS_EmptySet
    <3> QED
      BY <1>6, <3>1 DEF VisitPartial, Raise, OpenTo, result
  <2>2. Cardinality(Alternatives(i)) # 1
    BY <1>5, <1>6 DEF AsManyAs
  <2> QED
    BY <2>1, <2>2, NothingNew
<1>7. CASE OpenTo(i) # {} /\ ~(Cardinality(OpenTo(i)) > 1)
  <2>1. PICK k \in OpenTo(i) : Allocate("partial", Pair(i, k, least(k)))
    BY <1>7 DEF VisitPartial, OpenTo
  <2>2. OpenTo(i) = {k} /\ Cardinality(Alternatives(i)) = 1
    BY <1>5, <1>7, <2>1 DEF AsManyAs
  <2>3. k \in Records /\ remaining[k] > 0 /\ k \in Eligible(i) /\ remaining[k] \in Nat
    BY <1>1, <1>2, RuleIs DEF OpenTo
  <2>4. /\ least(k) \in {remaining[i], remaining[k]} /\ least(k) \in Nat
        /\ least(k) <= remaining[i] /\ least(k) <= remaining[k]
    BY <1>1, <2>3, SmallerLeft
  <2> HIDE DEF least
  <2>5. least(k) > 0
    BY <1>1, <2>3, <2>4
  <2>6. Passes(Pair(i, k, least(k)))
        /\ Total(Pair(i, k, least(k)), DOMAIN Pair(i, k, least(k)) \cap Sources) > 0
    BY <1>1, <2>3, <2>4, <2>5, PairPasses
  <2>7. Allocated("partial", Pair(i, k, least(k)))
    BY <2>1, <2>6, AllocateSucceeds
  <2>8. Alternatives(i) = {Pair(i, k, least(k))}
    BY <1>3, <2>2 DEF a
  <2>9. Allots(Pair(i, k, least(k)))
    BY <2>3, <2>4, PairIs
  <2>10. ~TooMany(i) /\ "partial" = TypeIn(round)
    BY <1>1 DEF TooMany, TypeIn
  <2> QED
    BY <2>2, <2>7, <2>8, <2>9, <2>10, OneNew
<1> QED
  BY <1>6, <1>7

LEMMA CombinationOnlyWay ==
  ASSUME MatchingInv, NEW in \in {"many_to_one", "one_to_many"}, NEW i \in Records,
         VisitCombination(in, i)
  PROVE  groups' \ groups = Ways(i) /\ round' = round
<1> DEFINE found == Search(Smaller(i), remaining[i])
           K == Combinations(Smaller(i), remaining[i])
           a == [S \in K |-> Whole({i} \cup S)]
<1>1. round = in /\ remaining[i] > 0 /\ MatchingTypeOK
  BY DEF VisitCombination, Visit, MatchingInv
<1>2. /\ \A S \in K : S \subseteq Smaller(i) /\ i \notin S /\ S \subseteq Records
      /\ IsFiniteSet(K)
  <2>1. Owing(Smaller(i)) /\ Smaller(i) \subseteq Records /\ Smaller(i) \subseteq Eligible(i)
    BY <1>1, SmallerOwing
  <2>2. i \notin Smaller(i)
    <3>1. remaining[i] \in Nat
      BY <1>1 DEF MatchingTypeOK
    <3>2. ~(remaining[i] < remaining[i])
      BY <3>1
    <3> QED
      BY <3>2 DEF Smaller
  <2>3. K \in SUBSET SUBSET Smaller(i)
    BY DEF Combinations
  <2>4. IsFiniteSet(SUBSET Smaller(i))
    BY <2>1, FS_SUBSET DEF Owing
  <2> HIDE DEF K
  <2>5. IsFiniteSet(K)
    BY <2>3, <2>4, FS_Subset
  <2>6. ASSUME NEW S \in K PROVE S \subseteq Smaller(i) /\ i \notin S /\ S \subseteq Records
    <3>1. S \subseteq Smaller(i)
      BY <2>3
    <3> HIDE DEF K
    <3>2. i \notin S
      BY <3>1, <2>2
    <3>3. S \subseteq Records
      BY <3>1, <2>1
    <3> QED
      BY <3>1, <3>2, <3>3
  <2> QED
    BY <2>5, <2>6
<1>3. Alternatives(i) = {a[S] : S \in K}
  <2>1. Alternatives(i) = {Whole({i} \cup S) : S \in K}
    <3>1. round \in {"many_to_one", "one_to_many"} /\ MatchingTypeOK
      BY <1>1
    <3> HIDE DEF a
    <3>2. Alternatives(i) =
            {Whole({i} \cup S) : S \in Combinations(Smaller(i), remaining[i])}
      BY <3>1, CombinationAlternatives
    <3> QED
      BY <3>2
  <2> QED
    BY <2>1
<1>4. \A x, y \in K : a[x] = a[y] => x = y
  <2> SUFFICES ASSUME NEW x \in K, NEW y \in K, a[x] = a[y] PROVE x = y
    OBVIOUS
  <2>1. Whole({i} \cup x) = Whole({i} \cup y)
    OBVIOUS
  <2> HIDE DEF K
  <2>2. {i} \cup x = {i} \cup y
    <3>1. /\ DOMAIN Whole({i} \cup x) = {i} \cup x
          /\ DOMAIN Whole({i} \cup y) = {i} \cup y
      BY DEF Whole
    <3> QED
      BY <2>1, <3>1
  <2>3. i \notin x /\ i \notin y
    BY <1>2
  <2> QED
    BY <2>2, <2>3
<1>5. Judges(found, K)
  BY <1>1, SearchOfSmaller
<1>6. IF Cardinality(Smaller(i)) > rule.maxCandidates THEN Raise("candidate_limit", i)
      ELSE CASE found = {} -> UNCHANGED <<result, round>>
             [] Cardinality(found) > 1 -> Raise("ambiguous_combination", i)
             [] OTHER -> \E S \in found : Allocate(in, Whole({i} \cup S))
  BY DEF VisitCombination
<1>7. \A S \in K : Passes(Whole({i} \cup S))
        /\ Total(Whole({i} \cup S), DOMAIN Whole({i} \cup S) \cap Sources) > 0
  BY <1>1, WholePasses
<1>8. TooMany(i) <=> Cardinality(Smaller(i)) > rule.maxCandidates
  BY <1>1 DEF TooMany
<1> HIDE DEF a, found, K
<1>9. AsManyAs(K, Alternatives(i))
  <2>1. Tells(a, K, Alternatives(i))
    BY <1>2, <1>3, <1>4 DEF Tells
  <2> QED
    BY <2>1, WaysCount
<1>10. ~(Cardinality({}) > 1)
  BY FS_EmptySet
<1>11. CASE TooMany(i)
  <2>1. groups' = groups /\ round' = round
    BY <1>6, <1>8, <1>11 DEF Raise
  <2> QED
    BY <1>11, <2>1, NothingNew
<1>12. CASE ~TooMany(i) /\ (found = {} \/ Cardinality(found) > 1)
  <2>1. groups' = groups /\ round' = round
    BY <1>6, <1>8, <1>10, <1>12 DEF Raise, result
  <2>2. K = {} \/ Cardinality(K) > 1
    <3>1. CASE found = {}
      BY <1>5, <1>10, <3>1 DEF Judges
    <3>2. CASE Cardinality(found) > 1
      <4>1. found \in SUBSET K
        BY <1>5 DEF Judges
      <4>2. /\ Cardinality(found) <= Cardinality(K)
            /\ Cardinality(found) \in Nat /\ Cardinality(K) \in Nat
        BY <1>2, <4>1, FS_Subset, FS_CardinalityType
      <4> QED
        BY <3>2, <4>2
    <3> QED
      BY <1>12, <3>1, <3>2
  <2>3. Cardinality(Alternatives(i)) # 1
    BY <1>9, <2>2 DEF AsManyAs
  <2> QED
    BY <2>1, <2>3, NothingNew
<1>13. CASE ~TooMany(i) /\ found # {} /\ ~(Cardinality(found) > 1)
  <2>1. PICK S \in found : Allocate(in, Whole({i} \cup S))
    BY <1>6, <1>8, <1>13
  <2>2. found = K
    BY <1>5, <1>13 DEF Judges
  <2>3. K = {S} /\ Cardinality(Alternatives(i)) = 1
    BY <1>9, <1>13, <2>1, <2>2 DEF AsManyAs
  <2>4. Allocated(in, Whole({i} \cup S))
    BY <1>7, <2>1, <2>2, AllocateSucceeds
  <2>5. Alternatives(i) = {Whole({i} \cup S)}
    BY <1>3, <2>3 DEF a
  <2>6. Allots(Whole({i} \cup S))
    <3>1. {i} \cup S \subseteq Records
      BY <1>2, <2>1, <2>2
    <3> QED
      BY <1>1, <3>1, WholeIs
  <2>7. in = TypeIn(round)
    BY <1>1 DEF TypeIn
  <2> QED
    BY <1>13, <2>3, <2>4, <2>5, <2>6, <2>7, OneNew
<1> QED
  BY <1>11, <1>12, <1>13

LEMMA OnlyWayStep ==
  ASSUME MatchingInv, MatchingNext
  PROVE  \A i \in left \ left' : remaining[i] > 0 /\ round' # "budget" =>
           round' = round /\ groups' \ groups = Ways(i)
<1> SUFFICES ASSUME NEW i \in left \ left', remaining[i] > 0, round' # "budget"
             PROVE  round' = round /\ groups' \ groups = Ways(i)
  OBVIOUS
<1>1. i \in Records
  BY DEF MatchingInv, MatchingTypeOK
<1>2. ASSUME NEW in, NEW j, Visit(in, j) PROVE i = j
  BY <1>2 DEF Visit
<1>3. ASSUME NEW j \in left, PassOver(j) PROVE FALSE
  <2>1. i = j /\ remaining[j] = 0
    BY <1>2, <1>3 DEF PassOver
  <2> QED
    BY <2>1
<1>4. ASSUME NEW j \in left, VisitExact(j) PROVE round' = round /\ groups' \ groups = Ways(i)
  <2>1. i = j
    BY <1>2, <1>4 DEF VisitExact
  <2> QED
    BY <1>1, <1>4, <2>1, ExactOnlyWay
<1>5. ASSUME NEW j \in left, VisitPartial(j) PROVE round' = round /\ groups' \ groups = Ways(i)
  <2>1. i = j
    BY <1>2, <1>5 DEF VisitPartial
  <2> QED
    BY <1>1, <1>5, <2>1, PartialOnlyWay
<1>6. ASSUME NEW j \in left, NEW in \in {"many_to_one", "one_to_many"}, VisitCombination(in, j)
      PROVE  round' = round /\ groups' \ groups = Ways(i)
  <2>1. i = j
    BY <1>2, <1>6 DEF VisitCombination
  <2> QED
    BY <1>1, <1>6, <2>1, CombinationOnlyWay
<1>7. CASE NextRound
  BY <1>7 DEF NextRound
<1>8. CASE BudgetExceeded
  BY <1>8 DEF BudgetExceeded
<1> QED
  BY <1>3, <1>4, <1>5, <1>6, <1>7, <1>8 DEF MatchingNext

(* A record is allocated when there is exactly one way to do it, in that   *)
(* way, and left alone otherwise, for any records, amounts and rule: what  *)
(* the search of uniqueSubset finds with its cuts and its early end is     *)
(* what an enumeration of all combinations finds, and no assertion of      *)
(* allocateGroup ever fails.                                               *)
THEOREM AllocationIsAlwaysTheOnlyWay == MatchingSpec => AllocatesTheOnlyWay
<1> DEFINE OnlyWay ==
             \A i \in left \ left' : remaining[i] > 0 /\ round' # "budget" =>
               /\ round' = round
               /\ groups' \ groups =
                    IF Cardinality(Alternatives(i)) = 1 /\ ~TooMany(i)
                    THEN {[type |-> TypeIn(round), allocated |-> a] : a \in Alternatives(i)} ELSE {}
<1>1. MatchingInv /\ [MatchingNext]_matchingVars => [OnlyWay]_matchingVars
  <2> SUFFICES ASSUME MatchingInv, MatchingNext PROVE OnlyWay
    OBVIOUS
  <2> QED
    BY OnlyWayStep DEF Ways
<1>2. MatchingSpec => [][OnlyWay]_matchingVars
  BY <1>1, MatchingAlways, PTL DEF MatchingSpec
<1> QED
  BY <1>2 DEF AllocatesTheOnlyWay
===============================================================================
