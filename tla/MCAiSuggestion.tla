---------------------------- MODULE MCAiSuggestion ----------------------------
(* One exception and two requests: one of a member who reviews until its   *)
(* role changes, the other of that member or of the operator.              *)
EXTENDS AiSuggestion

CONSTANTS ann, bob, e1, r1, s1, q1, q2

MCCanHold == ann :> {"operator"} @@ bob :> {"reviewer", "auditor"}
MCRunOf == [e \in Exceptions |-> r1]
MCPeriodOf == [r \in Runs |-> 1]
MCReplies == {<<s1>>}

MCInit == AiInit /\ ask[q1].by = bob
MCSpec == MCInit /\ [][AiNext]_aiVars /\ AiFairness
===============================================================================
