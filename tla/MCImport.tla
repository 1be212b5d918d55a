------------------------------- MODULE MCImport -------------------------------
EXTENDS Import

CONSTANTS q1, q2, q3, s1, s2, c1

(* Of three uploads at least two go to one source; which ones, and to      *)
(* which of the two sources, makes no difference.                          *)
MCInit == ImportInit /\ upload[q1].source = s1 /\ upload[q2].source = s1

MCSpec == MCInit /\ [][ImportNext]_importVars /\ ImportFairness
===============================================================================
