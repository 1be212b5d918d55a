--------------------------- MODULE MCReviewConsole ---------------------------
(* One operator and, at a console, a member who is operator or admin; up   *)
(* to two exceptions of one run.                                           *)
EXTENDS ReviewConsole

CONSTANTS ann, rob, r1, s1

MCCanHold == ann :> {"operator"} @@ rob :> {"operator", "admin"}
MCRunOf == [e \in Exceptions |-> r1]
MCPeriodOf == r1 :> 1
MCReplies == {<<s1>>}
===============================================================================
