--------------------------- MODULE MCReconciliation ---------------------------
(* Two uploads.  For requests of different keys they are the two sides of  *)
(* a match; for requests of one key one side and content z, which has a    *)
(* record of amount zero: which of them makes the run does not depend on   *)
(* what it matches.  Which key the first request carries makes no          *)
(* difference.                                                             *)
EXTENDS Reconciliation

CONSTANTS u1, u2, s1, s2, c, z, q1, q2, k, l

Brings(source, content) == [source |-> source, content |-> content]
MCInit ==
  /\ ReconInit
  /\ key[q1] = k
  /\ upload[u1] = Brings(s1, c)
  /\ upload[u2] = Brings(s2, IF key[q2] = k THEN z ELSE c)

MCSpec == MCInit /\ [][ReconNext]_booksVars /\ ReconFairness
===============================================================================
