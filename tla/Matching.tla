------------------------------- MODULE Matching -------------------------------
(***************************************************************************)
(* matchRecords of src/matching.mjs: four rounds over the source or the    *)
(* target records of a run, one action per record visited.  A record is    *)
(* named by its position: sources first, each side sorted by compareState, *)
(* so that the order of the numbers is the order of the loops.             *)
(***************************************************************************)
EXTENDS Integers, FiniteSets, FiniteSetsExt, Functions

CONSTANTS
  SourceCount, \* source records handed to matchRecords
  TargetCount, \* target records
  Inputs       \* pairs of records and rule, as prepare and validateOptions pass them

Sources == 1 .. SourceCount
Targets == SourceCount + 1 .. SourceCount + TargetCount
Records == Sources \cup Targets
\* identifier 0: a field of identifierPairs is empty
Record == [amount : Nat \ {0}, day : Nat, currency : STRING, identifier : Nat]
\* identified: identifierPairs is not empty
Rule == [dateWindowDays : 0 .. 366, maxCandidates : 1 .. 100, maxCombinationSize : 2 .. 10,
         allowPartial : BOOLEAN, identified : BOOLEAN]

ASSUME MatchingAssumption ==
  /\ SourceCount \in Nat /\ TargetCount \in Nat
  /\ \A in \in Inputs :
       /\ in.rec \in [Records -> Record] /\ in.rule \in Rule
       /\ \A Side \in {Sources, Targets} : \A i, k \in Side :
            i < k => in.rec[i].day <= in.rec[k].day

VARIABLES
  rec, rule, \* the arguments
  remaining, \* of the amount of each record
  groups,    \* each with the amounts it allocates
  issues,    \* without duplicates
  round,     \* the loop that runs
  left       \* the records it has still to visit

input == <<rec, rule>>
result == <<remaining, groups, issues>>
matchingVars == <<input, result, round, left>>

GroupTypes == {"one_to_one", "many_to_one", "one_to_many", "partial"}
IssueTypes == {"ambiguous_exact", "candidate_limit", "ambiguous_combination", "ambiguous_partial"}
Rounds == {"exact", "many_to_one", "one_to_many", "partial"}
Total(amount, S) == SumFunctionOnSet(amount, S)
AmountOf == [i \in Records |-> rec[i].amount]

MatchingTypeOK ==
  /\ rec \in [Records -> Record] /\ rule \in Rule
  /\ remaining \in [Records -> Nat]
  /\ \A g \in groups : g.type \in GroupTypes /\ g.allocated \in [DOMAIN g.allocated -> Nat \ {0}]
                       /\ DOMAIN g.allocated \subseteq Records
  /\ issues \subseteq [type : IssueTypes, record : Records]
  /\ round \in Rounds \cup {"done", "error", "budget"}
  /\ left \subseteq Records

MatchingInit ==
  /\ \E in \in Inputs : rec = in.rec /\ rule = in.rule
  /\ remaining = AmountOf
  /\ groups = {} /\ issues = {}
  /\ round = "exact" /\ left = Sources

-----------------------------------------------------------------------------

Distance(i, k) == IF rec[i].day < rec[k].day THEN rec[k].day - rec[i].day ELSE rec[i].day - rec[k].day
OtherSide(i) == IF i \in Sources THEN Targets ELSE Sources
IdentifiersMatch(i, k) == rec[i].identifier # 0 /\ rec[i].identifier = rec[k].identifier

Compatible(i) ==
  {k \in OtherSide(i) : rec[k].currency = rec[i].currency /\ Distance(i, k) <= rule.dateWindowDays}

(* Mistake: identifiers may be missing on both sides.                      *)
EligibleIfEqual(i) ==
  {k \in Compatible(i) : rule.identified => rec[i].identifier = rec[k].identifier}

Eligible(i) == {k \in Compatible(i) : rule.identified => IdentifiersMatch(i, k)}

(* What the search of uniqueSubset may combine for record i.               *)
Smaller(i) == {k \in Eligible(i) : remaining[k] > 0 /\ remaining[k] < remaining[i]}

(* The depth first search: the combinations found below a selection that   *)
(* may be extended by candidates from position k on.  It gives up as soon  *)
(* as it knows of two.                                                     *)
SearchBelow(candidates, amount) ==
  LET last == Max({0} \cup candidates)
      visit[start \in 0 .. last + 1] == [selected \in SUBSET candidates |->
        LET total == Total(remaining, selected)
            following == {c \in candidates : c >= start}
        IN IF total = amount /\ Cardinality(selected) >= 2 THEN {selected}
           ELSE IF \/ total >= amount \/ Cardinality(selected) >= rule.maxCombinationSize
                   \/ following = {} THEN {}
           ELSE LET c == Min(following)
                    taken == IF total + remaining[c] > amount THEN {} ELSE visit[c + 1][selected \cup {c}]
                IN IF Cardinality(taken) > 1 THEN taken ELSE taken \cup visit[c + 1][selected]]
  IN visit[0][{}]

(* Mistake: the search gives up at the first combination.                  *)
SearchFirst(candidates, amount) ==
  LET all == SearchBelow(candidates, amount) IN IF all = {} THEN {} ELSE {CHOOSE s \in all : TRUE}

Search(candidates, amount) == SearchBelow(candidates, amount)

-----------------------------------------------------------------------------

Pair(i, k, amount) == [r \in {i, k} |-> amount]
Whole(S) == [r \in S |-> remaining[r]]

(* Mistake: every record is charged the amount of the whole group.         *)
AllocateTotal(type, allocated) ==
  /\ groups' = groups \cup {[type |-> type, allocated |-> allocated]}
  /\ remaining' = [r \in Records |->
       IF r \in DOMAIN allocated THEN remaining[r] - Total(allocated, DOMAIN allocated \cap Sources)
       ELSE remaining[r]]
  /\ UNCHANGED <<issues, round>>

(* allocateGroup.  An allocation out of balance, or of more than remains,  *)
(* throws and ends the run.                                                *)
Allocate(type, allocated) ==
  LET from == DOMAIN allocated \cap Sources
      to == DOMAIN allocated \cap Targets
  IN IF /\ Total(allocated, from) = Total(allocated, to) /\ Total(allocated, from) > 0
        /\ \A r \in DOMAIN allocated : allocated[r] > 0 /\ allocated[r] <= remaining[r]
     THEN /\ groups' = groups \cup {[type |-> type, allocated |-> allocated]}
          /\ remaining' = [r \in Records |->
               IF r \in DOMAIN allocated THEN remaining[r] - allocated[r] ELSE remaining[r]]
          /\ UNCHANGED <<issues, round>>
     ELSE round' = "error" /\ UNCHANGED result

Raise(type, i) ==
  /\ issues' = issues \cup {[type |-> type, record |-> i]}
  /\ UNCHANGED <<remaining, groups, round>>

(* One iteration of the loop of a round.  What is used up is passed over.  *)
Visit(in, i) ==
  /\ round = in
  /\ i \in left /\ \A k \in left : i <= k
  /\ left' = left \ {i}
  /\ UNCHANGED input

PassOver(i) ==
  /\ round \in Rounds /\ Visit(round, i)
  /\ remaining[i] = 0
  /\ UNCHANGED <<result, round>>

VisitExact(i) ==
  LET candidates == {k \in Eligible(i) : remaining[k] = remaining[i]} IN
  /\ Visit("exact", i)
  /\ remaining[i] > 0
  /\ CASE candidates = {} -> UNCHANGED <<result, round>>
       [] Cardinality(candidates) > 1 -> Raise("ambiguous_exact", i)
       [] OTHER -> \E k \in candidates : Allocate("one_to_one", Pair(i, k, remaining[i]))

(* Many sources settle into one target, then many targets pay one source.  *)
VisitCombination(in, i) ==
  LET found == Search(Smaller(i), remaining[i]) IN
  /\ Visit(in, i)
  /\ remaining[i] > 0
  /\ IF Cardinality(Smaller(i)) > rule.maxCandidates THEN Raise("candidate_limit", i)
     ELSE CASE found = {} -> UNCHANGED <<result, round>>
            [] Cardinality(found) > 1 -> Raise("ambiguous_combination", i)
            [] OTHER -> \E S \in found : Allocate(in, Whole({i} \cup S))

VisitPartial(i) ==
  LET candidates == {k \in Eligible(i) : remaining[k] > 0} IN
  /\ Visit("partial", i)
  /\ remaining[i] > 0
  /\ CASE candidates = {} -> UNCHANGED <<result, round>>
       [] Cardinality(candidates) > 1 -> Raise("ambiguous_partial", i)
       [] OTHER -> \E k \in candidates :
            Allocate("partial", Pair(i, k, Min({remaining[i], remaining[k]})))

Following(in) ==
  CASE in = "exact" -> "many_to_one"
    [] in = "many_to_one" -> "one_to_many"
    [] in = "one_to_many" /\ rule.allowPartial -> "partial"
    [] OTHER -> "done"

NextRound ==
  /\ round \in Rounds /\ left = {}
  /\ round' = Following(round)
  /\ left' = CASE round' = "many_to_one" -> Targets [] round' = "done" -> {} [] OTHER -> Sources
  /\ UNCHANGED <<input, result>>

(* The time is up: MatchingBudgetExceeded, and nothing of the result is    *)
(* kept.                                                                   *)
BudgetExceeded ==
  /\ round \in Rounds /\ left # {}
  /\ round' = "budget" /\ left' = {}
  /\ remaining' = AmountOf /\ groups' = {} /\ issues' = {}
  /\ UNCHANGED input

MatchingNext ==
  \/ \E i \in left :
       \/ PassOver(i) \/ VisitExact(i) \/ VisitPartial(i)
       \/ \E in \in {"many_to_one", "one_to_many"} : VisitCombination(in, i)
  \/ NextRound
  \/ BudgetExceeded

MatchingSpec == MatchingInit /\ [][MatchingNext]_matchingVars

-----------------------------------------------------------------------------

(* What the groups G allocate of record r.                                 *)
AllocatedBy(r, G) == MapThenSumSet(LAMBDA g : g.allocated[r], G)

(* Nothing is created or lost: both sides of a group are equal, and what a *)
(* record has left and what its groups allocate of it make up its amount,  *)
(* over all rounds; so no record is ever allocated beyond its amount.      *)
AllocationsConserve ==
  /\ \A g \in groups : LET D == DOMAIN g.allocated IN
       Total(g.allocated, D \cap Sources) = Total(g.allocated, D \cap Targets)
  /\ \A r \in Records :
       rec[r].amount = remaining[r] + AllocatedBy(r, {g \in groups : r \in DOMAIN g.allocated})

(* Every group has one record that all others of the group pay for: of the *)
(* other side, in its currency, within the date window, and with its       *)
(* identifiers when the rule names any.  In no round does an explicit      *)
(* identifier fall back to the amount.                                     *)
GroupsAreJustified ==
  \A g \in groups : \E i \in DOMAIN g.allocated : \A k \in DOMAIN g.allocated \ {i} :
    /\ i \in Sources <=> k \in Targets
    /\ rec[k].currency = rec[i].currency
    /\ rec[k].day - rec[i].day \in -rule.dateWindowDays .. rule.dateWindowDays
    /\ rule.identified => rec[i].identifier = rec[k].identifier /\ rec[i].identifier # 0

(* Declaratively, the ways to allocate record i in the current round.      *)
Alternatives(i) ==
  LET open == {k \in Compatible(i) : remaining[k] > 0 /\ (rule.identified => IdentifiersMatch(i, k))}
  IN CASE round = "exact" -> {Whole({i, k}) : k \in {k \in open : remaining[k] = remaining[i]}}
       [] round = "partial" -> {Pair(i, k, Min({remaining[i], remaining[k]})) : k \in open}
       [] OTHER -> {Whole({i} \cup S) : S \in {S \in SUBSET open :
                      /\ Cardinality(S) \in 2 .. rule.maxCombinationSize
                      /\ Total(remaining, S) = remaining[i]}}
TypeIn(in) == IF in = "exact" THEN "one_to_one" ELSE in
TooMany(i) == round \in {"many_to_one", "one_to_many"} /\ Cardinality(Smaller(i)) > rule.maxCandidates

(* A record is allocated when there is exactly one way to do it, in that   *)
(* way, and left alone otherwise: the search with its cuts finds what an   *)
(* enumeration of all combinations finds, and no assertion of the code     *)
(* ever fails.                                                             *)
AllocatesTheOnlyWay ==
  [][\A i \in left \ left' : remaining[i] > 0 /\ round' # "budget" =>
       /\ round' = round
       /\ groups' \ groups =
            IF Cardinality(Alternatives(i)) = 1 /\ ~TooMany(i)
            THEN {[type |-> TypeIn(round), allocated |-> a] : a \in Alternatives(i)} ELSE {}]_matchingVars

(* "Amount-only matching is automatic only when unique": without           *)
(* identifiers, a one-to-one group leaves no other record unmatched that   *)
(* fits its partner as well as the one that was taken.                     *)
AmountOnlyMatchIsUnique ==
  round = "done" /\ ~rule.identified =>
    \A g \in {g \in groups : g.type = "one_to_one"} : \A i \in DOMAIN g.allocated : \A k \in Compatible(i) :
      k \notin DOMAIN g.allocated => ~(rec[k].amount = rec[i].amount /\ remaining[k] = rec[k].amount)
===============================================================================
