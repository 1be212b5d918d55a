------------------------- MODULE MCExceptionWorkflow -------------------------
(* Values for the constants of ExceptionWorkflow that a cfg cannot write.  *)
EXTENDS ExceptionWorkflow

CONSTANTS ann, bob, eve, r1, r2, r3, r4, e1, e2, e3, s1, s2

\* ann only operates, bob operates and reviews in turn, eve administers
MCCanHold ==
  ann :> {"operator"} @@ bob :> {"operator", "reviewer"} @@ eve :> {"admin"}

\* two exceptions in run r1, one in r2, none in r3 and r4
MCRunOf == [e \in Exceptions |-> IF e = e3 THEN r2 ELSE r1]

\* run r4 belongs to another period
MCPeriodOf == [r \in Runs |-> IF r = r4 THEN 2 ELSE 1]

\* a usable suggestion, one that repeats a step, one with a step too short
MCReplies == {<<s1, s2>>, <<s1, s1>>, <<s2>>}
===============================================================================
