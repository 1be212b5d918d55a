---------------------------- MODULE PeriodVersions ----------------------------
(***************************************************************************)
(* What the period close promises to reconciliation, imports and readers,  *)
(* and nothing else: a period has versions, opened one after another;      *)
(* the open one is locked over runs that may be closed, and a locked one   *)
(* is final.  Each operation is one step, whatever locks and statements    *)
(* it takes.  PeriodClose implements this specification; Reconciliation    *)
(* is built on it.                                                         *)
(***************************************************************************)
EXTENDS Integers

CONSTANTS
  Runs,    \* ids of reconciliation runs
  Bounds   \* pairs (period_start, period_end)

VARIABLES
  periods,  \* rows of close_periods, with their close_period_runs
  closable  \* completed runs without open exceptions: [run, bounds, records]

versionVars == <<periods, closable>>

Versions(b) == {p.version : p \in {x \in periods : x.bounds = b}}
HasOpen(b) == \E p \in periods : p.bounds = b /\ p.status = "open"

(* assertPeriodWritable: no locked version without a newer one that is     *)
(* open.                                                                   *)
Writable(b) ==
  \A p \in periods : p.bounds = b /\ p.status = "locked" =>
    \E n \in periods : n.bounds = b /\ n.version > p.version /\ n.status = "open"

VersionsInit == periods = {} /\ closable = {}

(* A version is added after the newest, which is v, and none is open.      *)
OpenAfter(b, v, parent) ==
  /\ ~HasOpen(b)
  /\ \A w \in Versions(b) : w <= v
  /\ periods' = periods \cup
       {[bounds |-> b, version |-> v + 1, status |-> "open", parent |-> parent, runs |-> {}]}

(* createPeriod; nothing asks for a reason after a lock.                   *)
Create(b) == \E v \in {0} \cup Versions(b) : OpenAfter(b, v, 0)

(* reopenPeriod.                                                           *)
Reopen(b) == \E v \in Versions(b) : OpenAfter(b, v, v)

(* closePeriod: the rows cs of runs that may be closed are of the period   *)
(* and have no record in common.                                           *)
Lock(p, cs) ==
  /\ p.status = "open"
  /\ cs # {} /\ \A c \in cs : c.bounds = p.bounds
  /\ \A c, d \in cs : c # d => c.records \cap d.records = {}
  /\ periods' = (periods \ {p}) \cup {[p EXCEPT !.status = "locked", !.runs = {c.run : c \in cs}]}

VersionsNext ==
  \/ UNCHANGED closable /\ \E b \in Bounds : Create(b) \/ Reopen(b)
  \/ UNCHANGED closable /\ \E p \in periods, cs \in (SUBSET closable) : Lock(p, cs)
  \/ UNCHANGED periods /\ closable \subseteq closable'  \* what may be closed stays so

VersionsSpec == VersionsInit /\ [][VersionsNext]_versionVars
===============================================================================
