---------------------------- MODULE MCPeriodClose ----------------------------
(* Up to three runs of one period: r1 and r2 leave exceptions behind, r3   *)
(* does not, and allocates the record of r1 again, as a rerun of r1 would. *)
(* Run r4 belongs to another period.                                       *)
EXTENDS PeriodClose, TLC

CONSTANTS r1, r2, r3, r4, e1, e2

MCRunOf == [e \in Exceptions |-> IF e = e1 THEN r1 ELSE r2]
MCPeriodOf == [r \in Runs |-> IF r = r4 THEN 2 ELSE 1]
MCRecordsOf == [r \in Runs |-> IF r \in {r1, r3} THEN {1} ELSE {2}]
===============================================================================
