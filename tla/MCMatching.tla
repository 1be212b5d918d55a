------------------------------ MODULE MCMatching ------------------------------
(* Small amounts on two days, so that sums coincide in many ways.          *)
EXTENDS Matching

CONSTANT MaxAmount \* bound of the amounts

MCRule(window, candidates, size, partial, identified) ==
  [dateWindowDays |-> window, maxCandidates |-> candidates, maxCombinationSize |-> size,
   allowPartial |-> partial, identified |-> identified]

\* by the amount alone, or with identifiers; few or enough candidates and terms
MCRules ==
  {MCRule(w, 20, n, p, FALSE) : w \in {0, 1}, n \in {2, 5}, p \in BOOLEAN} \cup
  {MCRule(1, 2, 5, p, i) : p \in BOOLEAN, i \in BOOLEAN}

MCLater == {SourceCount, SourceCount + TargetCount}
\* the last record of each side is a day later or has another currency, or none does;
\* the first of each side, or none, has an empty identifier
MCRecords ==
  {[r \in Records |->
      [amount |-> amount[r], day |-> IF r \in later THEN 2 ELSE 1,
       currency |-> IF r \in foreign THEN "EUR" ELSE "USD",
       identifier |-> IF r \in empty THEN 0 ELSE 7]] :
     amount \in [Records -> 1 .. MaxAmount], later \in SUBSET MCLater,
     foreign \in {{}, {SourceCount}}, empty \in {{}, {1}, {1, SourceCount + 1}}}

MCInputs ==
  {in \in [rec : MCRecords, rule : MCRules] :
     in.rule.identified \/ \A r \in Records : in.rec[r].identifier # 0}
===============================================================================
