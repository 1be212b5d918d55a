------------------------- MODULE ResolutionLedgerProofs -------------------------
(***************************************************************************)
(* Proofs about ResolutionLedger, for any runs, exceptions and periods.    *)
(* The inductive invariant adds nothing to the three invariants of the     *)
(* model: a replacement stays valid because runs never leave 'completed'   *)
(* and a resolved exception stays resolved; a new edge closes no circle    *)
(* because it starts at a run that was not clean, and nothing replaced a   *)
(* run by it.                                                              *)
(***************************************************************************)
EXTENDS ResolutionLedger, TLAPS

LedgerInv == LedgerTypeOK /\ ReplacementsStayValid /\ NoSupersessionCycle

(* A step assigns a run one of its statuses, and an exception a run, no    *)
(* run, or nothing.                                                        *)
LEMMA LedgerTypeStep == LedgerTypeOK /\ [LedgerNext]_ledgerVars => LedgerTypeOK'
<1> SUFFICES ASSUME LedgerTypeOK, [LedgerNext]_ledgerVars PROVE LedgerTypeOK'
  OBVIOUS
<1>1. ASSUME NEW r \in Runs, CompleteRun(r) PROVE LedgerTypeOK'
  BY <1>1 DEF LedgerTypeOK, CompleteRun, RunStatuses
<1>2. ASSUME NEW r \in Runs, FailRun(r) PROVE LedgerTypeOK'
  BY <1>2 DEF LedgerTypeOK, FailRun, RunStatuses
<1>3. ASSUME NEW e \in Exceptions, NEW r \in Runs \cup {NoRun}, Approve(e, r)
      PROVE  LedgerTypeOK'
  BY <1>3 DEF LedgerTypeOK, Approve
<1>4. CASE UNCHANGED ledgerVars
  BY <1>4 DEF LedgerTypeOK, ledgerVars
<1> QED
  BY <1>1, <1>2, <1>3, <1>4 DEF LedgerNext

(* Type correctness of the ledger: no transaction leaves a row of          *)
(* recon_runs or an outcome outside its domain.                            *)
THEOREM LedgerTypeCorrect == LedgerSpec => []LedgerTypeOK
<1>1. LedgerInit => LedgerTypeOK
  BY DEF LedgerInit, LedgerTypeOK, RunStatuses
<1> QED
  BY <1>1, LedgerTypeStep, PTL DEF LedgerSpec

-----------------------------------------------------------------------------
(* Steps on the rows of recon_runs add no edge and open no exception.      *)

(* A run that ends keeps every replacement valid and adds no edge.         *)
LEMMA RunEndsPreserves ==
  ASSUME LedgerInv, NEW r \in Runs, CompleteRun(r) \/ FailRun(r)
  PROVE  ReplacementsStayValid' /\ NoSupersessionCycle'
<1>1. resolution' = resolution
  BY DEF CompleteRun, FailRun
<1>2. \A q \in Runs : runStatus[q] = "completed" => runStatus'[q] = "completed"
  BY DEF LedgerInv, LedgerTypeOK, CompleteRun, FailRun
<1>3. ReplacementsStayValid'
  BY <1>1, <1>2 DEF LedgerInv, ReplacementsStayValid, ValidReplacement, Clean
<1>4. NoSupersessionCycle'
  BY <1>1 DEF LedgerInv, NoSupersessionCycle, Replaces
<1> QED
  BY <1>3, <1>4

(* The resolved exceptions after an approval are those before, and e.      *)
LEMMA ApproveResolves ==
  ASSUME LedgerTypeOK, NEW e \in Exceptions, NEW r \in Runs \cup {NoRun}, Approve(e, r)
  PROVE  /\ runStatus' = runStatus
         /\ resolution'[e] = r
         /\ \A x \in Exceptions : x # e => resolution'[x] = resolution[x]
         /\ \A q \in Runs : Clean(q) => Clean(q)'
<1>1. /\ runStatus' = runStatus
      /\ resolution'[e] = r
      /\ \A x \in Exceptions : x # e => resolution'[x] = resolution[x]
  BY DEF LedgerTypeOK, Approve
<1>2. r # Unresolved
  BY LedgerAssumption
<1>3. \A q \in Runs : Clean(q) => Clean(q)'
  BY <1>1, <1>2 DEF Clean
<1> QED
  BY <1>1, <1>3

(* Approving e in favour of r keeps the replacements approved before valid *)
(* and was checked itself.                                                 *)
LEMMA ApproveKeepsValid ==
  ASSUME LedgerInv, NEW e \in Exceptions, NEW r \in Runs \cup {NoRun}, Approve(e, r)
  PROVE  ReplacementsStayValid'
<1>1. /\ runStatus' = runStatus
      /\ resolution'[e] = r
      /\ \A x \in Exceptions : x # e => resolution'[x] = resolution[x]
      /\ \A q \in Runs : Clean(q) => Clean(q)'
  BY ApproveResolves DEF LedgerInv
<1>2. SUFFICES ASSUME NEW x \in Exceptions, NEW s \in Runs, resolution'[x] = s
               PROVE  ValidReplacement(x, s)'
  BY DEF ReplacementsStayValid, ValidReplacement, Clean
<1>3. ValidReplacement(x, s)
  <2>1. CASE x = e
    <3>1. s = r /\ r # NoRun
      BY <1>1, <1>2, <2>1, LedgerAssumption
    <3> QED
      BY <2>1, <3>1 DEF Approve
  <2>2. CASE x # e
    BY <1>1, <1>2, <2>2 DEF LedgerInv, ReplacementsStayValid
  <2> QED
    BY <2>1, <2>2
<1>4. Clean(s)'
  BY <1>1, <1>3 DEF ValidReplacement
<1> QED
  BY <1>1, <1>3, <1>4 DEF ValidReplacement

(* The run whose exception is approved has replaced none so far: it still  *)
(* has an open exception, so nothing could be superseded by it.            *)
LEMMA ApprovedRunReplacesNone ==
  ASSUME LedgerInv, NEW e \in Exceptions, NEW r \in Runs \cup {NoRun}, Approve(e, r)
  PROVE  \A q \in Runs : ~Replaces(q, RunOf[e])
<1>1. RunOf[e] \in Runs /\ ~Clean(RunOf[e])
  BY LedgerAssumption DEF Approve, Clean
<1>2. \A x \in Exceptions : resolution[x] # RunOf[e]
  BY <1>1 DEF LedgerInv, ReplacementsStayValid, ValidReplacement
<1> QED
  BY <1>2 DEF Replaces

(* After the approval each set of runs still has a member that none of the *)
(* set replaces.  If the set without the run of e is not empty, the old    *)
(* member of that set serves: its edges are the old ones, and none of them *)
(* leads to the run of e.  Otherwise the run of e itself does.             *)
LEMMA ApproveClosesNoCycle ==
  ASSUME LedgerInv, NEW e \in Exceptions, NEW r \in Runs \cup {NoRun}, Approve(e, r)
  PROVE  NoSupersessionCycle'
<1> DEFINE R == RunOf[e]
<1>1. /\ resolution'[e] = r
      /\ \A x \in Exceptions : x # e => resolution'[x] = resolution[x]
  BY ApproveResolves DEF LedgerInv
<1>2. R \in Runs
  BY LedgerAssumption
<1>3. \A q \in Runs : ~Replaces(q, R)
  BY ApprovedRunReplacesNone
<1>4. \A q \in Runs, s \in Runs : q # R => (Replaces(q, s)' <=> Replaces(q, s))
  BY <1>1 DEF Replaces
<1>5. ~Replaces(R, R)'
  BY ApproveKeepsValid, <1>2 DEF ReplacementsStayValid, ValidReplacement, Replaces
<1>6. SUFFICES ASSUME NEW S \in (SUBSET Runs) \ {{}}
               PROVE  \E q \in S : \A s \in S : ~Replaces(q, s)'
  BY DEF NoSupersessionCycle
<1>7. CASE S \ {R} = {}
  <2>1. S = {R}
    BY <1>6, <1>7
  <2> QED
    BY <2>1, <1>5
<1>8. CASE S \ {R} # {}
  <2>1. S \ {R} \in (SUBSET Runs) \ {{}}
    BY <1>6, <1>8
  <2>2. PICK q \in S \ {R} : \A s \in S \ {R} : ~Replaces(q, s)
    BY <2>1 DEF LedgerInv, NoSupersessionCycle
  <2>3. \A s \in S : ~Replaces(q, s)
    BY <2>2, <1>3, <1>6
  <2> QED
    BY <2>2, <2>3, <1>4, <1>6
<1> QED
  BY <1>7, <1>8

(* No step leaves the invariant.                                           *)
LEMMA LedgerStep == LedgerInv /\ [LedgerNext]_ledgerVars => LedgerInv'
<1> SUFFICES ASSUME LedgerInv, [LedgerNext]_ledgerVars
             PROVE  ReplacementsStayValid' /\ NoSupersessionCycle'
  BY LedgerTypeStep DEF LedgerInv
<1>1. ASSUME NEW r \in Runs, CompleteRun(r) \/ FailRun(r)
      PROVE  ReplacementsStayValid' /\ NoSupersessionCycle'
  BY <1>1, RunEndsPreserves
<1>2. ASSUME NEW e \in Exceptions, NEW r \in Runs \cup {NoRun}, Approve(e, r)
      PROVE  ReplacementsStayValid' /\ NoSupersessionCycle'
  BY <1>2, ApproveKeepsValid, ApproveClosesNoCycle
<1>3. CASE UNCHANGED ledgerVars
  BY <1>3 DEF LedgerInv, ReplacementsStayValid, ValidReplacement, Clean,
              NoSupersessionCycle, Replaces, ledgerVars
<1> QED
  BY <1>1, <1>2, <1>3 DEF LedgerNext

(* Before any run has ended there are no edges at all.                     *)
LEMMA LedgerStart == LedgerInit => LedgerInv
<1> SUFFICES ASSUME LedgerInit PROVE LedgerInv
  OBVIOUS
<1>1. LedgerTypeOK
  BY DEF LedgerInit, LedgerTypeOK, RunStatuses
<1>2. \A x \in Exceptions : resolution[x] \notin Runs
  BY LedgerAssumption DEF LedgerInit
<1>3. ReplacementsStayValid
  BY <1>2 DEF ReplacementsStayValid
<1>4. \A q, s \in Runs : ~Replaces(q, s)
  BY <1>2 DEF Replaces
<1>5. NoSupersessionCycle
  BY <1>4 DEF NoSupersessionCycle
<1> QED
  BY <1>1, <1>3, <1>5 DEF LedgerInv

(* The replacement named by an approved decision stays a completed run of  *)
(* the same period without open exceptions, for ever.                      *)
THEOREM ReplacementsAlwaysValid == LedgerSpec => []ReplacementsStayValid
<1>1. LedgerInv => ReplacementsStayValid
  BY DEF LedgerInv
<1> QED
  BY <1>1, LedgerStart, LedgerStep, PTL DEF LedgerSpec

(* Approvals never make runs supersede one another in a circle.            *)
THEOREM SupersessionIsAcyclic == LedgerSpec => []NoSupersessionCycle
<1>1. LedgerInv => NoSupersessionCycle
  BY DEF LedgerInv
<1> QED
  BY <1>1, LedgerStart, LedgerStep, PTL DEF LedgerSpec

(* In every set of runs of one period that contains a superseded one, the  *)
(* last of the superseded ones was replaced by a run the close accepts.    *)
LEMMA InvGivesClosableRun == LedgerInv => SupersededHasClosableRun
<1> SUFFICES ASSUME LedgerInv, NEW r \in Runs, Superseded(r)
             PROVE  \E s \in Runs : PeriodOf[s] = PeriodOf[r] /\ ClosableRun(s)
  BY DEF SupersededHasClosableRun
<1> DEFINE S == {q \in Runs : PeriodOf[q] = PeriodOf[r] /\ Superseded(q)}
<1>1. S \in (SUBSET Runs) \ {{}}
  <2>1. r \in S
    OBVIOUS
  <2> QED
    BY <2>1
<1>2. PICK q \in S : \A s \in S : ~Replaces(q, s)
  BY <1>1 DEF LedgerInv, NoSupersessionCycle
<1>3. q \in Runs /\ PeriodOf[q] = PeriodOf[r] /\ Superseded(q)
  BY <1>2
<1>4. PICK s \in Runs : Replaces(q, s)
  BY <1>3 DEF Superseded
<1>5. PICK e \in Exceptions : RunOf[e] = q /\ resolution[e] = s
  BY <1>4 DEF Replaces
<1>6. ValidReplacement(e, s)
  BY <1>4, <1>5 DEF LedgerInv, ReplacementsStayValid
<1>7. PeriodOf[s] = PeriodOf[r] /\ runStatus[s] = "completed" /\ Clean(s)
  BY <1>3, <1>5, <1>6 DEF ValidReplacement
<1>8. ~Superseded(s)
  BY <1>2, <1>4, <1>7
<1> QED
  BY <1>4, <1>7, <1>8 DEF ClosableRun

(* Whenever the close rejects a run as superseded it would accept another  *)
(* run of the same period.                                                 *)
THEOREM SupersededAlwaysHasClosableRun == LedgerSpec => []SupersededHasClosableRun
<1> QED
  BY InvGivesClosableRun, LedgerStart, LedgerStep, PTL DEF LedgerSpec
===============================================================================
