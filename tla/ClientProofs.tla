---------------------------- MODULE ClientProofs ----------------------------
(***************************************************************************)
(* Proofs about the two clients of the workflow that take their time: the  *)
(* request for a suggestion (AiSuggestion) and the exception page of the   *)
(* console (ReviewConsole).  Both act on what they have read before, and   *)
(* both arguments rest on the same fact: what was read of an exception is  *)
(* right as long as its version is.                                        *)
(***************************************************************************)
EXTENDS AiSuggestion, ReviewConsole, ExceptionWorkflowProofs

-----------------------------------------------------------------------------
(* The request for a suggestion: the invariant.                            *)

(* What was read of an exception is as old as its version says: while the  *)
(* version is the same, so is the status.                                  *)
StillTells(e, known) ==
  known.row =>
    /\ known.version <= version[e]
    /\ known.found => Exists(e)
    /\ known.version = version[e] => (known.open <=> status[e] # "resolved")

EvidenceTells == \A a \in Asks : StillTells(ask[a].exc, evidence[a])

(* The provider is only asked about an exception that was there and open.  *)
AskedOfOpen ==
  \A a \in Asks :
    ask[a].at \in {"asking", "body", "parsed"} =>
      evidence[a].row /\ evidence[a].found /\ evidence[a].open

ParsedHasReply == \A a \in Asks : ask[a].at = "parsed" => reply[a] \in Replies

(* A client is told something when its request ends, and once.             *)
ToldAtEnd == \A a \in Asks : told[a] # "nothing" => ask[a].at = "answered"

VersionsBounded == \A e \in Exceptions : version[e] <= MaxVersion

AiInv ==
  /\ AiTypeOK
  /\ EvidenceTells
  /\ AskedOfOpen
  /\ ParsedHasReply
  /\ ToldAtEnd
  /\ VersionsBounded
  /\ SuggestionsAreAccounted

(* The requests that stored their suggestion, and those that may have.     *)
Stored(e) == OfExc(e, {"stored"})
MayHaveStored(e) == OfExc(e, {"stored", "failed", "nothing"})

-----------------------------------------------------------------------------
(* The steps that store nothing and answer nothing.                        *)

(* A request under way counts for nothing yet.                             *)
LEMMA UnderWay ==
  ASSUME NEW a \in Asks, ask[a].at \in InServer \cup {"idle"}, NEW e, NEW W
  PROVE  a \notin OfExc(e, W)
BY DEF OfExc, InServer

LEMMA VersionOfExc ==
  ASSUME AiTypeOK, NEW a \in Asks
  PROVE  /\ ask[a].exc \in Exceptions /\ ask[a].by \in Users
         /\ version[ask[a].exc] \in Nat /\ status[ask[a].exc] \in Statuses
BY DEF AiTypeOK, Ask, TypeOK

(* One more step of a request, which may change what it has read.          *)
LEMMA QuietStep ==
  ASSUME AiInv, NEW a \in Asks, NEW from \in InServer \cup {"idle"}, NEW to \in InServer,
         Continues(a, from, to),
         NEW known \in Evidence, evidence' = [evidence EXCEPT ![a] = known],
         NEW steps \in Replies \cup {<<>>}, reply' = [reply EXCEPT ![a] = steps],
         StillTells(ask[a].exc, known),
         to \in {"asking", "body", "parsed"} => known.row /\ known.found /\ known.open,
         to = "parsed" => steps \in Replies
  PROVE  AiInv'
<1>1. /\ UNCHANGED <<vars, told, sessions>>
      /\ ask[a].at = from /\ ask' = [ask EXCEPT ![a].at = to]
  BY DEF Continues, Goes
<1>2. UNCHANGED <<role, runStatus, status, version, suggestions>>
  BY <1>1 DEF vars, runVars, rowVars
<1>3. AiTypeOK
  BY DEF AiInv
<1>4. /\ ask' \in [Asks -> Ask]
      /\ ask'[a].at = to
      /\ \A b \in Asks : ask'[b].exc = ask[b].exc /\ (b # a => ask'[b] = ask[b])
  BY <1>1, <1>3 DEF AiTypeOK, Ask, InServer
<1>5. TypeOK'
  BY <1>1, <1>3, TypedStep DEF AiTypeOK
<1>6. AiTypeOK'
  BY <1>1, <1>3, <1>4, <1>5 DEF AiTypeOK
<1>7. \A b \in Asks : evidence'[b] = IF b = a THEN known ELSE evidence[b]
  BY <1>3 DEF AiTypeOK
<1>8. \A b \in Asks : reply'[b] = IF b = a THEN steps ELSE reply[b]
  BY <1>3 DEF AiTypeOK
<1>9. EvidenceTells'
  <2> SUFFICES ASSUME NEW b \in Asks PROVE StillTells(ask[b].exc, evidence[b])'
    BY DEF EvidenceTells
  <2>1. StillTells(ask[b].exc, evidence[b])
    BY DEF AiInv, EvidenceTells
  <2> QED
    BY <1>2, <1>4, <1>7, <2>1 DEF StillTells, Exists
<1>10. AskedOfOpen'
  BY <1>4, <1>7 DEF AiInv, AskedOfOpen
<1>11. ParsedHasReply'
  BY <1>4, <1>8 DEF AiInv, ParsedHasReply
<1>12. ToldAtEnd'
  <2>1. told[a] = "nothing"
    BY <1>1 DEF AiInv, ToldAtEnd, InServer
  <2> QED
    BY <1>1, <1>4, <2>1 DEF AiInv, ToldAtEnd
<1>13. \A e \in Exceptions : Stored(e)' = Stored(e) /\ MayHaveStored(e)' = MayHaveStored(e)
  BY <1>1, <1>4 DEF Stored, MayHaveStored, OfExc, InServer
<1>14. SuggestionsAreAccounted'
  BY <1>2, <1>13 DEF AiInv, SuggestionsAreAccounted, Stored, MayHaveStored
<1>15. VersionsBounded'
  BY <1>2 DEF AiInv, VersionsBounded
<1> QED
  BY <1>6, <1>9, <1>10, <1>11, <1>12, <1>14, <1>15 DEF AiInv

-----------------------------------------------------------------------------
(* The end of a request.                                                   *)

(* Nothing but the suggestions of an exception changes in a write, and     *)
(* there the reply is the last.                                            *)
LEMMA WriteIsStore ==
  ASSUME AiInv, NEW a \in Asks, ask[a].at = "parsed", Unchanged(a), Writes(a)
  PROVE  /\ Next
         /\ ask[a].exc \in Exceptions
         /\ suggestions' = [suggestions EXCEPT ![ask[a].exc] = Append(@, reply[a])]
<1> DEFINE e == ask[a].exc
           P == MayHaveStored(e)
<1>1. /\ e \in Exceptions /\ version[e] \in Nat
      /\ reply[a] \in Replies /\ evidence[a].row /\ evidence[a].found /\ evidence[a].open
      /\ StillTells(e, evidence[a])
  BY VersionOfExc DEF AiInv, ParsedHasReply, AskedOfOpen, EvidenceTells
<1>2. version[e] \in 0..MaxVersion
  BY <1>1, WorkflowAssumption DEF AiInv, VersionsBounded
<1>3. Exists(e) /\ status[e] # "resolved"
  BY <1>1 DEF StillTells, Unchanged
<1>4. Len(suggestions[e]) < MaxSuggestions
  <2>1. P \subseteq Asks /\ a \notin P
    BY UnderWay DEF MayHaveStored, OfExc, InServer
  <2> HIDE DEF P
  <2>2. IsFiniteSet(P) /\ Cardinality(P) \in Nat /\ Cardinality(P \cup {a}) = Cardinality(P) + 1
    BY <2>1, AskAssumption, FS_Subset, FS_AddElement, FS_CardinalityType
  <2>3. Cardinality(P \cup {a}) <= Cardinality(Asks) /\ Cardinality(Asks) \in Nat
    BY <2>1, AskAssumption, FS_Subset, FS_CardinalityType
  <2>4. Len(suggestions[e]) <= Cardinality(P) /\ Len(suggestions[e]) \in Nat
    BY <1>1 DEF P, MayHaveStored, AiInv, SuggestionsAreAccounted, AiTypeOK, TypeOK
  <2> QED
    BY <2>2, <2>3, <2>4, AskAssumption, WorkflowAssumption
<1>5. StoreSuggestion(e, reply[a], version[e])
  BY <1>3, <1>4 DEF StoreSuggestion, Writes
<1>6. Next
  BY <1>1, <1>2, <1>5 DEF Next, Environment
<1> QED
  BY <1>1, <1>6 DEF Writes

(* How an answer changes the accounts.                                     *)
LEMMA AnswerCounts ==
  ASSUME AiTypeOK, NEW a \in Asks, ask[a].at \in InServer,
         NEW what, told' = [told EXCEPT ![a] = what], ask' = [ask EXCEPT ![a].at = "answered"],
         NEW e \in Exceptions
  PROVE  /\ a \notin Stored(e) /\ a \notin MayHaveStored(e)
         /\ what = "stored" /\ ask[a].exc = e => Stored(e)' = Stored(e) \cup {a}
         /\ ~(what = "stored" /\ ask[a].exc = e) => Stored(e)' = Stored(e)
         /\ what \in {"stored", "failed"} /\ ask[a].exc = e =>
              MayHaveStored(e)' = MayHaveStored(e) \cup {a}
         /\ MayHaveStored(e)' \in {MayHaveStored(e), MayHaveStored(e) \cup {a}}
<1>1. /\ told'[a] = what /\ ask'[a].at = "answered" /\ ask'[a].exc = ask[a].exc
      /\ \A b \in Asks : b # a => told'[b] = told[b] /\ ask'[b] = ask[b]
  BY DEF AiTypeOK, Ask
<1>2. a \notin Stored(e) /\ a \notin MayHaveStored(e)
  BY UnderWay DEF Stored, MayHaveStored
<1> QED
  BY <1>1, <1>2 DEF Stored, MayHaveStored, OfExc

LEMMA AccountFinite ==
  ASSUME NEW e
  PROVE  /\ IsFiniteSet(Stored(e)) /\ Cardinality(Stored(e)) \in Nat
         /\ IsFiniteSet(MayHaveStored(e)) /\ Cardinality(MayHaveStored(e)) \in Nat
<1>1. Stored(e) \subseteq Asks /\ MayHaveStored(e) \subseteq Asks
  BY DEF OfExc, Stored, MayHaveStored
<1> QED
  BY <1>1, AskAssumption, FS_Subset, FS_CardinalityType

(* A request ends: what it read is forgotten, and a suggestion was         *)
(* appended only if it may say so.                                         *)
LEMMA AnswerStep ==
  ASSUME AiInv, TypeOK', NEW a \in Asks, NEW from \in InServer, NEW what \in Answers \ {"nothing"},
         Answered(a, from, what), UNCHANGED <<runStatus, status, version>>,
         \/ UNCHANGED suggestions /\ what # "stored"
         \/ /\ what \in {"stored", "failed"}
            /\ suggestions' = [suggestions EXCEPT ![ask[a].exc] = Append(@, reply[a])]
            /\ reply[a] \in Replies
  PROVE  AiInv'
<1>1. /\ ask[a].at = from /\ ask' = [ask EXCEPT ![a].at = "answered"]
      /\ UNCHANGED sessions
      /\ told' = [told EXCEPT ![a] = what]
      /\ evidence' = [evidence EXCEPT ![a] = Nothing]
      /\ reply' = [reply EXCEPT ![a] = <<>>]
  BY DEF Answered, Goes
<1>2. AiTypeOK
  BY DEF AiInv
<1>3. /\ ask' \in [Asks -> Ask]
      /\ ask'[a].at = "answered"
      /\ \A b \in Asks : ask'[b].exc = ask[b].exc /\ (b # a => ask'[b] = ask[b])
  BY <1>1, <1>2 DEF AiTypeOK, Ask
<1>4. Nothing \in Evidence /\ ~Nothing.row
  BY DEF Nothing, Evidence
<1>5. AiTypeOK'
  BY <1>1, <1>2, <1>3, <1>4 DEF AiTypeOK
<1>6. \A b \in Asks : evidence'[b] = IF b = a THEN Nothing ELSE evidence[b]
  BY <1>1, <1>2 DEF AiTypeOK
<1>7. \A b \in Asks : b # a => reply'[b] = reply[b] /\ told'[b] = told[b]
  BY <1>1, <1>2 DEF AiTypeOK
<1>8. EvidenceTells'
  <2> SUFFICES ASSUME NEW b \in Asks PROVE StillTells(ask[b].exc, evidence[b])'
    BY DEF EvidenceTells
  <2>1. StillTells(ask[b].exc, evidence[b])
    BY DEF AiInv, EvidenceTells
  <2> QED
    BY <1>3, <1>4, <1>6, <2>1 DEF StillTells, Exists
<1>9. AskedOfOpen' /\ ParsedHasReply' /\ ToldAtEnd'
  BY <1>3, <1>6, <1>7 DEF AiInv, AskedOfOpen, ParsedHasReply, ToldAtEnd
<1>10. VersionsBounded'
  BY DEF AiInv, VersionsBounded
<1>11. SuggestionsAreAccounted'
  <2> SUFFICES ASSUME NEW e \in Exceptions
               PROVE  /\ Cardinality(Stored(e)') <= Len(suggestions'[e])
                      /\ Len(suggestions'[e]) <= Cardinality(MayHaveStored(e)')
    BY DEF SuggestionsAreAccounted, Stored, MayHaveStored
  <2>1. /\ Cardinality(Stored(e)) <= Len(suggestions[e])
        /\ Len(suggestions[e]) <= Cardinality(MayHaveStored(e))
        /\ Len(suggestions[e]) \in Nat
    BY <1>2 DEF AiInv, SuggestionsAreAccounted, Stored, MayHaveStored, AiTypeOK, TypeOK
  <2>2. /\ Cardinality(Stored(e)) \in Nat /\ Cardinality(MayHaveStored(e)) \in Nat
        /\ Cardinality(Stored(e) \cup {a}) = Cardinality(Stored(e)) + 1
        /\ Cardinality(MayHaveStored(e) \cup {a}) = Cardinality(MayHaveStored(e)) + 1
    BY <1>1, <1>2, AccountFinite, AnswerCounts, FS_AddElement
  <2>3. /\ what = "stored" /\ ask[a].exc = e => Stored(e)' = Stored(e) \cup {a}
        /\ ~(what = "stored" /\ ask[a].exc = e) => Stored(e)' = Stored(e)
        /\ what \in {"stored", "failed"} /\ ask[a].exc = e =>
             MayHaveStored(e)' = MayHaveStored(e) \cup {a}
        /\ MayHaveStored(e)' \in {MayHaveStored(e), MayHaveStored(e) \cup {a}}
    BY <1>1, <1>2, AnswerCounts
  <2> DEFINE m == Cardinality(Stored(e))
             n == Cardinality(MayHaveStored(e))
             l == Len(suggestions[e])
  <2>4. /\ what = "stored" /\ ask[a].exc = e => Cardinality(Stored(e)') = m + 1
        /\ what # "stored" \/ ask[a].exc # e => Cardinality(Stored(e)') = m
        /\ what \in {"stored", "failed"} /\ ask[a].exc = e => Cardinality(MayHaveStored(e)') = n + 1
        /\ Cardinality(MayHaveStored(e)') \in {n, n + 1}
    BY <2>2, <2>3
  <2>5. m \in Nat /\ n \in Nat /\ l \in Nat /\ m <= l /\ l <= n
    BY <2>1, <2>2
  <2> HIDE DEF m, n
  <2>6. CASE UNCHANGED suggestions /\ what # "stored"
    <3>1. Len(suggestions'[e]) = l
      BY <2>6
    <3> QED
      BY <2>4, <2>5, <2>6, <3>1
  <2>7. CASE /\ what \in {"stored", "failed"}
             /\ suggestions' = [suggestions EXCEPT ![ask[a].exc] = Append(@, reply[a])]
    <3>1. ask[a].exc # e => suggestions'[e] = suggestions[e]
      BY <1>2, <2>7 DEF AiTypeOK, TypeOK
    <3>2. ask[a].exc = e => Len(suggestions'[e]) = l + 1
      BY <1>2, <2>7 DEF AiTypeOK, TypeOK
    <3> QED
      BY <2>4, <2>5, <2>7, <3>1, <3>2
  <2> QED
    BY <2>6, <2>7
<1> QED
  BY <1>5, <1>8, <1>9, <1>10, <1>11 DEF AiInv

-----------------------------------------------------------------------------
(* The steps of everyone else.                                             *)

(* The server dies: every request under way ends at once, and one of them  *)
(* may have stored its suggestion without telling anyone.                  *)
LEMMA DeathCounts ==
  ASSUME AiInv, NEW e \in Exceptions, UNCHANGED told,
         ask' = [a \in Asks |-> IF ask[a].at \in InServer THEN [ask[a] EXCEPT !.at = "crashed"] ELSE ask[a]]
  PROVE  /\ Stored(e)' = Stored(e)
         /\ MayHaveStored(e) \subseteq MayHaveStored(e)'
         /\ \A a \in Asks : ask[a].at \in InServer /\ ask[a].exc = e => a \in MayHaveStored(e)'
<1>1. ASSUME NEW a \in Asks
      PROVE  /\ ask'[a].exc = ask[a].exc
             /\ ask[a].at \in InServer => ask'[a].at = "crashed" /\ told[a] = "nothing"
             /\ ask[a].at \notin InServer => ask'[a].at = ask[a].at
  BY DEF AiInv, AiTypeOK, Ask, ToldAtEnd, InServer
<1> QED
  BY <1>1 DEF Stored, MayHaveStored, OfExc, InServer

LEMMA DeathStep ==
  ASSUME AiInv, TypeOK', Dies
  PROVE  AiInv'
<1>1. /\ ask' = [a \in Asks |-> IF ask[a].at \in InServer THEN [ask[a] EXCEPT !.at = "crashed"] ELSE ask[a]]
      /\ evidence' = [a \in Asks |-> Nothing] /\ reply' = [a \in Asks |-> <<>>]
      /\ UNCHANGED <<sessions, told>>
      /\ UNCHANGED version
  BY DEF Dies, Writes, vars
<1>2. AiTypeOK
  BY DEF AiInv
<1>3. /\ ask' \in [Asks -> Ask]
      /\ \A a \in Asks : ask'[a].at \notin InServer /\ (ask[a].at = "answered" => ask'[a].at = "answered")
  BY <1>1, <1>2 DEF AiTypeOK, Ask, InServer
<1>4. Nothing \in Evidence /\ ~Nothing.row
  BY DEF Nothing, Evidence
<1>5. AiTypeOK'
  BY <1>1, <1>2, <1>3, <1>4 DEF AiTypeOK
<1>6. EvidenceTells' /\ AskedOfOpen' /\ ParsedHasReply' /\ ToldAtEnd'
  BY <1>1, <1>3, <1>4 DEF AiInv, EvidenceTells, StillTells, AskedOfOpen, ParsedHasReply, ToldAtEnd, InServer
<1>7. VersionsBounded'
  BY <1>1 DEF AiInv, VersionsBounded
<1>8. SuggestionsAreAccounted'
  <2> SUFFICES ASSUME NEW e \in Exceptions
               PROVE  /\ Cardinality(Stored(e)') <= Len(suggestions'[e])
                      /\ Len(suggestions'[e]) <= Cardinality(MayHaveStored(e)')
    BY DEF SuggestionsAreAccounted, Stored, MayHaveStored
  <2>1. /\ Cardinality(Stored(e)) <= Len(suggestions[e])
        /\ Len(suggestions[e]) <= Cardinality(MayHaveStored(e))
        /\ Len(suggestions[e]) \in Nat
        /\ Cardinality(Stored(e)) \in Nat /\ Cardinality(MayHaveStored(e)) \in Nat
    BY <1>2, AccountFinite DEF AiInv, SuggestionsAreAccounted, Stored, MayHaveStored, AiTypeOK, TypeOK
  <2>2. /\ Stored(e)' = Stored(e)
        /\ MayHaveStored(e) \subseteq MayHaveStored(e)'
        /\ \A a \in Asks : ask[a].at \in InServer /\ ask[a].exc = e => a \in MayHaveStored(e)'
    BY <1>1, DeathCounts
  <2>3. /\ IsFiniteSet(MayHaveStored(e)') /\ Cardinality(MayHaveStored(e)') \in Nat
        /\ Cardinality(MayHaveStored(e)) <= Cardinality(MayHaveStored(e)')
    <3>1. MayHaveStored(e)' \subseteq Asks
      BY DEF MayHaveStored, OfExc
    <3> QED
      BY <2>2, <3>1, AskAssumption, FS_Subset, FS_CardinalityType
  <2>4. CASE suggestions'[e] = suggestions[e]
    BY <2>1, <2>2, <2>3, <2>4
  <2>5. CASE suggestions'[e] # suggestions[e]
    <3>1. PICK a \in Asks : ask[a].at = "parsed" /\ Writes(a)
      BY <2>5 DEF Dies, vars
    <3>2. ask[a].exc = e /\ Len(suggestions'[e]) = Len(suggestions[e]) + 1
      BY <1>2, <2>5, <3>1 DEF Writes, AiTypeOK, TypeOK
    <3>3. a \notin MayHaveStored(e) /\ a \in MayHaveStored(e)'
      BY <2>2, <3>1, <3>2, UnderWay DEF MayHaveStored, InServer
    <3>4. Cardinality(MayHaveStored(e)) + 1 <= Cardinality(MayHaveStored(e)')
      <4>1. Cardinality(MayHaveStored(e) \cup {a}) = Cardinality(MayHaveStored(e)) + 1
        BY <3>3, AccountFinite, FS_AddElement
      <4>2. MayHaveStored(e) \cup {a} \subseteq MayHaveStored(e)'
        BY <2>2, <3>3
      <4>3. Cardinality(MayHaveStored(e) \cup {a}) <= Cardinality(MayHaveStored(e)')
        BY <2>3, <4>2, FS_Subset
      <4> QED
        BY <4>1, <4>3
    <3>5. Cardinality(Stored(e)') = Cardinality(Stored(e))
      BY <2>2
    <3> QED
      BY <2>1, <2>3, <3>2, <3>4, <3>5
  <2> QED
    BY <2>4, <2>5
<1> QED
  BY <1>5, <1>6, <1>7, <1>8 DEF AiInv

(* The workflow moves versions up, and a row only changes with its         *)
(* version: what the requests have read stays true of it, or is old.       *)
LEMMA MeanwhileStep ==
  ASSUME AiInv, TypeOK', Meanwhile
  PROVE  AiInv'
<1>1. AiTypeOK /\ TypeOK
  BY DEF AiInv, AiTypeOK
<1>2. UNCHANGED <<sessions, ask, evidence, reply, told>>
  BY DEF Meanwhile, askVars
<1>3. ASSUME NEW e \in Exceptions
      PROVE  /\ suggestions'[e] = suggestions[e]
             /\ Exists(e) => Exists(e)'
             /\ version[e] <= version'[e] /\ version'[e] <= MaxVersion
             /\ version'[e] = version[e] => status'[e] = status[e]
  <2>1. version[e] \in Nat /\ version[e] <= MaxVersion /\ MaxVersion \in Nat /\ RunOf[e] \in Runs
    BY <1>1, WorkflowAssumption DEF TypeOK, AiInv, VersionsBounded
  <2>2. CASE \/ \E r \in Runs : CompleteRun(r) \/ FailRun(r)
             \/ \E u \in Users, x \in Roles : ChangeRole(u, x)
    BY <1>1, <2>1, <2>2 DEF CompleteRun, FailRun, ChangeRole, rowVars, Exists, TypeOK
  <2>3. ASSUME NEW u \in Users, NEW y \in Exceptions, NEW x \in 0..MaxVersion,
               Work(u, y, x) \/ Review(u, y, x)
        PROVE  /\ suggestions'[e] = suggestions[e]
               /\ Exists(e) => Exists(e)'
               /\ version[e] <= version'[e] /\ version'[e] <= MaxVersion
               /\ version'[e] = version[e] => status'[e] = status[e]
    <3>1. HandlesOnly(y)
      BY <1>1, <2>3, WorkHandles, ReviewHandles
    <3>2. version[y] < MaxVersion
      BY <2>3 DEF Work, Review, ClaimException, ReleaseException, AddExceptionNote, SubmitResolution,
                  AdoptAiSuggestion, AddInvestigationItem, UpdateInvestigationItem,
                  ApproveResolution, RejectResolution, LockedException
    <3>3. UNCHANGED <<suggestions, runStatus>>
      BY <3>1 DEF HandlesOnly, runVars
    <3>4. CASE e = y
      BY <1>1, <2>1, <3>1, <3>2, <3>3, <3>4 DEF HandlesOnly, Exists, TypeOK
    <3>5. CASE e # y
      BY <1>1, <2>1, <3>1, <3>3, <3>5 DEF HandlesOnly, Exists, TypeOK
    <3> QED
      BY <3>4, <3>5
  <2> QED
    BY <2>2, <2>3 DEF Meanwhile
<1>4. AiTypeOK'
  BY <1>1, <1>2 DEF AiTypeOK
<1>5. EvidenceTells'
  <2> SUFFICES ASSUME NEW a \in Asks PROVE StillTells(ask[a].exc, evidence[a])'
    BY DEF EvidenceTells
  <2>1. /\ StillTells(ask[a].exc, evidence[a]) /\ evidence[a] \in Evidence
        /\ ask[a].exc \in Exceptions /\ version[ask[a].exc] \in Nat
    BY <1>1, VersionOfExc DEF AiInv, EvidenceTells, AiTypeOK
  <2>2. evidence[a].version \in Nat /\ version'[ask[a].exc] \in Nat
    BY <2>1 DEF Evidence, TypeOK
  <2> QED
    BY <1>2, <1>3, <2>1, <2>2 DEF StillTells
<1>6. AskedOfOpen' /\ ParsedHasReply' /\ ToldAtEnd'
  BY <1>2 DEF AiInv, AskedOfOpen, ParsedHasReply, ToldAtEnd
<1>7. VersionsBounded'
  BY <1>3 DEF VersionsBounded
<1>8. SuggestionsAreAccounted'
  BY <1>2, <1>3 DEF AiInv, SuggestionsAreAccounted, OfExc
<1> QED
  BY <1>4, <1>5, <1>6, <1>7, <1>8 DEF AiInv

-----------------------------------------------------------------------------
(* Every step of the specification.                                        *)

(* A request that goes on without reading.                                 *)
LEMMA GoesOn ==
  ASSUME AiInv, NEW a \in Asks, NEW from \in InServer \cup {"idle"}, NEW to \in InServer,
         Continues(a, from, to), UNCHANGED <<evidence, reply>>,
         to \in {"asking", "body", "parsed"} =>
           evidence[a].row /\ evidence[a].found /\ evidence[a].open,
         to # "parsed"
  PROVE  AiInv'
<1>1. /\ evidence[a] \in Evidence /\ evidence' = [evidence EXCEPT ![a] = evidence[a]]
      /\ reply[a] \in Replies \cup {<<>>} /\ reply' = [reply EXCEPT ![a] = reply[a]]
      /\ StillTells(ask[a].exc, evidence[a])
  BY DEF AiInv, AiTypeOK, EvidenceTells
<1>2. to = "parsed" => reply[a] \in Replies
  OBVIOUS
<1>3. PICK known, steps : known = evidence[a] /\ steps = reply[a]
  OBVIOUS
<1>4. /\ known \in Evidence /\ evidence' = [evidence EXCEPT ![a] = known]
      /\ steps \in Replies \cup {<<>>} /\ reply' = [reply EXCEPT ![a] = steps]
      /\ StillTells(ask[a].exc, known)
      /\ to \in {"asking", "body", "parsed"} => known.row /\ known.found /\ known.open
      /\ to = "parsed" => steps \in Replies
  BY <1>1, <1>2, <1>3
<1> QED
  BY <1>4, QuietStep

LEMMA RefusedStep ==
  ASSUME AiInv, NEW a \in Asks, NEW from \in InServer, NEW what \in Answers \ {"nothing", "stored"},
         Refused(a, from, what)
  PROVE  AiInv'
<1>1. Answered(a, from, what) /\ UNCHANGED vars
  BY DEF Refused
<1>2. UNCHANGED <<runStatus, status, version, suggestions>>
  BY <1>1 DEF vars, runVars, rowVars
<1>3. TypeOK'
  BY <1>1, TypedStep DEF AiInv, AiTypeOK
<1>4. what \in Answers \ {"nothing"} /\ UNCHANGED <<runStatus, status, version>>
  BY <1>2
<1>5. \/ UNCHANGED suggestions /\ what # "stored"
      \/ /\ what \in {"stored", "failed"}
         /\ suggestions' = [suggestions EXCEPT ![ask[a].exc] = Append(@, reply[a])]
         /\ reply[a] \in Replies
  BY <1>2
<1> QED
  BY <1>1, <1>3, <1>4, <1>5, AnswerStep

(* What the two queries bring is true of the rows they read.               *)
LEMMA ReadStep ==
  ASSUME AiInv, NEW a \in Asks, ReadException(a) \/ ReadMember(a)
  PROVE  AiInv'
<1> DEFINE e == ask[a].exc
           known == [evidence[a] EXCEPT !.row = TRUE, !.version = version[e], !.found = Exists(e),
                                        !.open = status[e] # "resolved"]
           checked == [evidence[a] EXCEPT !.member = TRUE, !.allowed = role[ask[a].by] \in AllowedRoles]
<1>1. /\ evidence[a] \in Evidence /\ reply[a] \in Replies \cup {<<>>} /\ version[e] \in Nat
      /\ StillTells(e, evidence[a])
  BY VersionOfExc DEF AiInv, AiTypeOK, EvidenceTells
<1>2. "authorized" \in InServer /\ "authorized" \notin {"asking", "body", "parsed"}
  BY DEF InServer
<1>3. /\ Exists(e) \in BOOLEAN /\ (status[e] # "resolved") \in BOOLEAN
      /\ (role[ask[a].by] \in AllowedRoles) \in BOOLEAN
  BY DEF Exists
<1>4. CASE ReadException(a)
  <2>1. \A v \in Nat, found, open \in BOOLEAN :
          LET new == [evidence[a] EXCEPT !.row = TRUE, !.version = v, !.found = found, !.open = open] IN
          new \in Evidence /\ new.version = v /\ new.found = found /\ new.open = open
    BY <1>1 DEF Evidence
  <2>2. known \in Evidence
    BY <1>1, <1>3, <2>1, Zenon
  <2>3. known.version = version[e] /\ known.found = Exists(e) /\ known.open = (status[e] # "resolved")
    BY <1>1, <1>3, <2>1, Zenon
  <2>4. /\ Continues(a, "authorized", "authorized")
        /\ evidence' = [evidence EXCEPT ![a] = known]
        /\ reply' = [reply EXCEPT ![a] = reply[a]]
    BY <1>4 DEF ReadException, AiInv, AiTypeOK
  <2> HIDE DEF known
  <2>5. StillTells(e, known)
    <3>1. known.version <= version[e]
      BY <1>1, <2>3
    <3>2. (known.found => Exists(e)) /\ (known.open <=> status[e] # "resolved")
      BY <2>3, Zenon
    <3> QED
      BY <3>1, <3>2 DEF StillTells
  <2> QED
    BY <1>1, <1>2, <2>2, <2>4, <2>5, QuietStep
<1>5. CASE ReadMember(a)
  <2>1. \A allowed \in BOOLEAN :
          LET new == [evidence[a] EXCEPT !.member = TRUE, !.allowed = allowed] IN
          /\ new \in Evidence /\ new.row = evidence[a].row /\ new.version = evidence[a].version
          /\ new.found = evidence[a].found /\ new.open = evidence[a].open
    BY <1>1 DEF Evidence
  <2>2. /\ checked \in Evidence /\ checked.row = evidence[a].row /\ checked.version = evidence[a].version
        /\ checked.found = evidence[a].found /\ checked.open = evidence[a].open
    BY <1>3, <2>1, Zenon
  <2>3. /\ Continues(a, "authorized", "authorized")
        /\ evidence' = [evidence EXCEPT ![a] = checked]
        /\ reply' = [reply EXCEPT ![a] = reply[a]]
    BY <1>5 DEF ReadMember, AiInv, AiTypeOK
  <2> HIDE DEF checked
  <2>4. StillTells(e, checked)
    BY <1>1, <2>2 DEF StillTells
  <2> QED
    BY <1>1, <1>2, <2>2, <2>3, <2>4, QuietStep
<1> QED
  BY <1>4, <1>5

LEMMA BodyStep ==
  ASSUME AiInv, NEW a \in Asks, BodyArrives(a)
  PROVE  AiInv'
<1>1. CASE Refused(a, "body", "provider_error")
  BY <1>1, RefusedStep DEF InServer, Answers
<1>2. CASE Continues(a, "body", "parsed") /\ UNCHANGED evidence /\ Parses(a)
  <2>1. PICK steps \in Replies : reply' = [reply EXCEPT ![a] = steps]
    BY <1>2 DEF Parses
  <2>2. /\ evidence[a] \in Evidence /\ evidence' = [evidence EXCEPT ![a] = evidence[a]]
        /\ StillTells(ask[a].exc, evidence[a])
        /\ evidence[a].row /\ evidence[a].found /\ evidence[a].open
    BY <1>2 DEF AiInv, AiTypeOK, EvidenceTells, AskedOfOpen, Continues, Goes
  <2> QED
    BY <1>2, <2>1, <2>2, QuietStep DEF InServer
<1> QED
  BY <1>1, <1>2 DEF BodyArrives

(* The suggestion is written, and the client told or not.                  *)
LEMMA StoreStep ==
  ASSUME AiInv, NEW a \in Asks, NEW what \in {"stored", "failed"},
         Unchanged(a), Answered(a, "parsed", what), Writes(a)
  PROVE  AiInv' /\ Next
<1>1. ask[a].at = "parsed"
  BY DEF Answered, Goes
<1>2. reply[a] \in Replies
  BY <1>1 DEF AiInv, ParsedHasReply
<1>3. Next /\ suggestions' = [suggestions EXCEPT ![ask[a].exc] = Append(@, reply[a])]
  BY <1>1, WriteIsStore
<1>4. TypeOK'
  BY <1>3, TypedStep DEF AiInv, AiTypeOK
<1>5. UNCHANGED <<runStatus, status, version>>
  BY DEF Writes, runVars, rowVars
<1>6. "parsed" \in InServer /\ what \in Answers \ {"nothing"}
  BY DEF InServer, Answers
<1> QED
  BY <1>2, <1>3, <1>4, <1>5, <1>6, AnswerStep

(* The steps of one request, of which only a write shows in the workflow.  *)
RequestStep(a) ==
  \/ Receive(a) \/ Handles(a) \/ TimesOut(a) \/ ProviderFails(a) \/ HeadersArrive(a) \/ BodyArrives(a)
  \/ CommitLost(a) \/ QueryFails(a)

LEMMA RequestSteps ==
  ASSUME AiInv, NEW a \in Asks, RequestStep(a)
  PROVE  AiInv' /\ [Next]_vars
<1> USE DEF InServer, Answers
<1>1. CASE Receive(a)
  BY <1>1, GoesOn DEF Receive, Continues
<1>2. CASE Authenticate(a)
  BY <1>2, GoesOn, RefusedStep DEF Authenticate, Continues, Refused
<1>3. CASE Authorize(a)
  BY <1>3, GoesOn, RefusedStep DEF Authorize, Continues, Refused
<1>4. CASE ReadException(a) \/ ReadMember(a)
  BY <1>4, ReadStep DEF ReadException, ReadMember, Continues
<1>5. CASE Consult(a)
  BY <1>5, GoesOn, RefusedStep DEF Consult, Continues, Refused
<1>6. CASE TimesOut(a) \/ ProviderFails(a)
  BY <1>6, RefusedStep DEF TimesOut, ProviderFails, Refused
<1>7. CASE HeadersArrive(a)
  <2>1. Continues(a, "asking", "body") /\ UNCHANGED <<evidence, reply>>
    BY <1>7 DEF HeadersArrive
  <2>2. evidence[a].row /\ evidence[a].found /\ evidence[a].open
    BY <2>1 DEF AiInv, AskedOfOpen, Continues, Goes
  <2>3. AiInv'
    BY <2>1, <2>2, GoesOn
  <2> QED
    BY <2>1, <2>3 DEF Continues
<1>8. CASE BodyArrives(a)
  BY <1>8, BodyStep DEF BodyArrives, Continues, Refused
<1>9. CASE Store(a)
  BY <1>9, StoreStep, RefusedStep DEF Store, Refused
<1>10. CASE CommitLost(a)
  BY <1>10, StoreStep DEF CommitLost
<1>11. CASE QueryFails(a)
  BY <1>11, RefusedStep DEF QueryFails, Refused
<1> QED
  BY <1>1, <1>2, <1>3, <1>4, <1>5, <1>6, <1>7, <1>8, <1>9, <1>10, <1>11
  DEF RequestStep, Handles

LEMMA AiStart == AiInit => AiInv /\ Init
<1> SUFFICES ASSUME AiInit PROVE AiInv /\ Init
  OBVIOUS
<1>1. Init
  BY DEF AiInit
<1>2. TypeOK
  BY <1>1 DEF Init, TypeOK, Statuses
<1>3. Nothing \in Evidence /\ ~Nothing.row
  BY DEF Nothing, Evidence
<1>4. AiTypeOK
  BY <1>2, <1>3 DEF AiInit, AiTypeOK, Ask, Answers
<1>5. EvidenceTells /\ AskedOfOpen /\ ParsedHasReply /\ ToldAtEnd
  BY <1>3 DEF AiInit, EvidenceTells, StillTells, AskedOfOpen, ParsedHasReply, ToldAtEnd
<1>6. VersionsBounded
  BY <1>1, WorkflowAssumption DEF Init, VersionsBounded
<1>7. SuggestionsAreAccounted
  <2>1. \A e \in Exceptions : Stored(e) = {} /\ MayHaveStored(e) = {} /\ Len(suggestions[e]) = 0
    BY DEF AiInit, Init, Stored, MayHaveStored, OfExc
  <2>2. Cardinality({}) = 0
    BY FS_EmptySet
  <2>3. \A e \in Exceptions : /\ Cardinality(Stored(e)) <= Len(suggestions[e])
                              /\ Len(suggestions[e]) <= Cardinality(MayHaveStored(e))
    <3> SUFFICES ASSUME NEW e \in Exceptions
                 PROVE  /\ Cardinality(Stored(e)) <= Len(suggestions[e])
                        /\ Len(suggestions[e]) <= Cardinality(MayHaveStored(e))
      OBVIOUS
    <3>1. Cardinality(Stored(e)) = 0 /\ Cardinality(MayHaveStored(e)) = 0 /\ Len(suggestions[e]) = 0
      BY <2>1, <2>2
    <3> QED
      BY <3>1
  <2> QED
    BY <2>3 DEF SuggestionsAreAccounted, Stored, MayHaveStored
<1> QED
  BY <1>1, <1>4, <1>5, <1>6, <1>7 DEF AiInv

LEMMA AiStep == AiInv /\ [AiNext]_aiVars => AiInv' /\ [Next]_vars
<1> SUFFICES ASSUME AiInv, [AiNext]_aiVars PROVE AiInv' /\ [Next]_vars
  OBVIOUS
<1>1. CASE Meanwhile
  <2>1. Next
    BY <1>1 DEF Meanwhile, Next, Environment
  <2>2. TypeOK'
    BY <2>1, TypedStep DEF AiInv, AiTypeOK
  <2> QED
    BY <1>1, <2>1, <2>2, MeanwhileStep
<1>2. CASE (\E u \in Users : SessionEnds(u)) \/ UNCHANGED aiVars
  <2>1. /\ UNCHANGED <<vars, ask, evidence, reply, told>>
        /\ sessions' \subseteq sessions
    BY <1>2 DEF SessionEnds, aiVars, askVars
  <2>2. UNCHANGED <<role, runStatus, status, version, suggestions>>
    BY <2>1 DEF vars, runVars, rowVars
  <2>3. TypeOK'
    BY <2>1, TypedStep DEF AiInv, AiTypeOK
  <2>4. AiTypeOK'
    BY <2>1, <2>3 DEF AiInv, AiTypeOK
  <2>5. EvidenceTells' /\ AskedOfOpen' /\ ParsedHasReply' /\ ToldAtEnd' /\ VersionsBounded'
    BY <2>1, <2>2 DEF AiInv, EvidenceTells, StillTells, Exists, AskedOfOpen, ParsedHasReply,
                      ToldAtEnd, VersionsBounded
  <2>6. SuggestionsAreAccounted'
    BY <2>1, <2>2 DEF AiInv, SuggestionsAreAccounted, OfExc
  <2> QED
    BY <2>1, <2>4, <2>5, <2>6 DEF AiInv
<1>3. ASSUME NEW a \in Asks, RequestStep(a) PROVE AiInv' /\ [Next]_vars
  BY <1>3, RequestSteps
<1>4. CASE Dies
  <2>1. [Next]_vars
    BY <1>4, WriteIsStore DEF Dies
  <2>2. TypeOK'
    BY <2>1, TypedStep DEF AiInv, AiTypeOK
  <2> QED
    BY <1>4, <2>1, <2>2, DeathStep
<1> QED
  BY <1>1, <1>2, <1>3, <1>4 DEF AiNext, RequestStep

-----------------------------------------------------------------------------

(* Whatever the provider and the workflow do meanwhile, a suggestion is    *)
(* stored as if evidence, answer and transaction were one step: never for  *)
(* an exception resolved since the evidence was read, and changing nothing *)
(* but the audit log.  All that is proved of the workflow holds with it.   *)
THEOREM SuggestionsImplementWorkflow == AiSpec => ImplementsWorkflow
<1> QED
  BY AiStart, AiStep, PTL DEF AiSpec, Spec, ImplementsWorkflow

(* Type correctness: what a request has read, and what it answers.         *)
THEOREM SuggestionTypeCorrect == AiSpec => []AiTypeOK
<1>1. AiInv => AiTypeOK
  BY DEF AiInv
<1> QED
  BY <1>1, AiStart, AiStep, PTL DEF AiSpec

(* Each suggestion in the audit log is that of one request that was told   *)
(* so, or lost its connection or its server in the end.                    *)
THEOREM SuggestionsAlwaysAccounted == AiSpec => []SuggestionsAreAccounted
<1>1. AiInv => SuggestionsAreAccounted
  BY DEF AiInv
<1> QED
  BY <1>1, AiStart, AiStep, PTL DEF AiSpec

-----------------------------------------------------------------------------
(* The console, for any number of pages, requests and forms in flight: the *)
(* invariant.                                                              *)

(* A row that was read is right as long as its version is.                 *)
RowFits(d) ==
  /\ d.version <= version[d.exc]
  /\ d.version = version[d.exc] => d.status = status[d.exc] /\ d.owner = assignee[d.exc]

(* So is the history that was read after it.                               *)
HistoryFits(d) ==
  d.version = version[d.exc] =>
    /\ d.newest = Len(proposals[d.exc]) /\ d.items = items[d.exc]
    /\ d.offered \subseteq Unadopted(d.exc)

FetchFits(f) ==
  /\ selected[f.user] # Blank
  /\ f.stage # "sent" => RowFits(f.detail)
  /\ f.stage = "answered" => HistoryFits(f.detail)

ScreenFits(u) ==
  screen[u] # Blank =>
    /\ selected[u] # Blank
    /\ screen[u] \in Detail /\ RowFits(screen[u]) /\ HistoryFits(screen[u])

PostFits(p) == RowFits(p.shown) /\ HistoryFits(p.shown)

(* An exception without an owner is open, and the other way round.         *)
OwnedUnlessOpen == \A e \in Exceptions : status[e] = "open" <=> assignee[e] = NoUser

ConsoleInv ==
  /\ ConsoleTypeOK
  /\ \A f \in fetches : FetchFits(f)
  /\ \A u \in Consoles : ScreenFits(u)
  /\ \A p \in posts : PostFits(p)
  /\ OwnedUnlessOpen

-----------------------------------------------------------------------------
(* What the workflow does to what was read.                                *)

(* Suggestions are only added, and adopted under a new version.            *)
LEMMA UnadoptedStays ==
  ASSUME TypeOK, [Next]_vars, NEW e \in Exceptions, adoptions'[e] = adoptions[e]
  PROVE  Unadopted(e) \subseteq Unadopted(e)'
<1>1. DOMAIN suggestions[e] \subseteq DOMAIN suggestions'[e]
  <2>1. suggestions[e] \in Seq(Replies)
    BY DEF TypeOK
  <2>2. suggestions'[e] = suggestions[e] \/ \E s \in Replies : suggestions'[e] = Append(suggestions[e], s)
    <3>1. CASE Environment \/ UNCHANGED vars
      BY <3>1, EnvironmentAddsSuggestions
    <3>2. CASE ~(Environment \/ UNCHANGED vars)
      <4>1. PICK u \in Users, y \in Exceptions, x \in 0..MaxVersion : Work(u, y, x) \/ Review(u, y, x)
        BY <3>2 DEF Next
      <4>2. HandlesOnly(y)
        BY <4>1, WorkHandles, ReviewHandles
      <4> QED
        BY <4>2 DEF HandlesOnly
    <3> QED
      BY <3>1, <3>2
  <2> QED
    BY <2>1, <2>2
<1> QED
  BY <1>1 DEF Unadopted

LEMMA DetailStaysFitting ==
  ASSUME TypeOK, [Next]_vars, NEW d \in Detail
  PROVE  /\ RowFits(d) => RowFits(d)'
         /\ RowFits(d) /\ HistoryFits(d) => HistoryFits(d)'
<1> DEFINE e == d.exc
<1>1. e \in Exceptions /\ d.version \in Nat /\ version[e] \in Nat
  BY DEF Detail, TypeOK
<1>2. CASE version'[e] = version[e]
  <2>1. Visible(e)' = Visible(e)
    BY <1>1, <1>2, StepMovesVersion
  <2>2. /\ status'[e] = status[e] /\ assignee'[e] = assignee[e] /\ proposals'[e] = proposals[e]
        /\ items'[e] = items[e] /\ adoptions'[e] = adoptions[e]
    BY <2>1 DEF Visible
  <2>3. Unadopted(e) \subseteq Unadopted(e)'
    BY <1>1, <2>2, UnadoptedStays
  <2> QED
    BY <1>2, <2>2, <2>3 DEF RowFits, HistoryFits
<1>3. CASE version'[e] # version[e]
  <2>1. version'[e] = version[e] + 1
    BY <1>1, <1>3, StepMovesVersion
  <2> QED
    BY <1>1, <2>1 DEF RowFits, HistoryFits
<1> QED
  BY <1>2, <1>3

LEMMA OwnedStep ==
  ASSUME TypeOK, [Next]_vars, OwnedUnlessOpen
  PROVE  OwnedUnlessOpen'
<1> SUFFICES ASSUME NEW y \in Exceptions PROVE (status[y] = "open" <=> assignee[y] = NoUser)'
  BY DEF OwnedUnlessOpen
<1>1. status[y] = "open" <=> assignee[y] = NoUser
  BY DEF OwnedUnlessOpen
<1>2. CASE Environment \/ UNCHANGED vars
  BY <1>1, <1>2, EnvironmentAddsSuggestions DEF rowVars
<1>3. ASSUME NEW u \in Users, NEW e \in Exceptions, NEW x \in 0..MaxVersion, Work(u, e, x)
      PROVE  (status[y] = "open" <=> assignee[y] = NoUser)'
  <2>1. CASE y # e
    BY <1>1, <1>3, <2>1, WorkHandles DEF HandlesOnly
  <2>2. CASE y = e
    <3>1. ASSUME NEW a \in Users, ClaimException(u, a, e, x) PROVE status'[e] = "investigating" /\ assignee'[e] = a
      BY <3>1 DEF ClaimException, TypeOK
    <3>2. ASSUME ReleaseException(u, e, x) PROVE status'[e] = "open" /\ assignee'[e] = NoUser
      BY <3>2 DEF ReleaseException, TypeOK
    <3>3. ASSUME NEW r \in Runs \cup {NoRun}, SubmitResolution(u, e, r, x)
          PROVE  status[e] = "investigating" /\ status'[e] = "pending_review" /\ assignee'[e] = assignee[e]
      BY <3>3 DEF SubmitResolution, OwnerInvestigates, TypeOK
    <3>4. ASSUME \/ AddExceptionNote(u, e, x)
                 \/ \E i \in DOMAIN suggestions[e], d \in {"accepted", "partially_accepted", "rejected"} :
                      AdoptAiSuggestion(u, e, i, d, x)
                 \/ \E required \in BOOLEAN : AddInvestigationItem(u, e, required, x)
                 \/ \E i \in items[e], new \in ItemStatuses : UpdateInvestigationItem(u, e, i, new, x)
          PROVE  UNCHANGED <<status, assignee>>
      BY <3>4 DEF AddExceptionNote, AdoptAiSuggestion, AddInvestigationItem, UpdateInvestigationItem, rowVars
    <3> QED
      BY <1>1, <1>3, <2>2, <3>1, <3>2, <3>3, <3>4, WorkflowAssumption DEF Work
  <2> QED
    BY <2>1, <2>2
<1>4. ASSUME NEW u \in Users, NEW e \in Exceptions, NEW x \in 0..MaxVersion, Review(u, e, x)
      PROVE  (status[y] = "open" <=> assignee[y] = NoUser)'
  <2>1. /\ status[e] = "pending_review" /\ UNCHANGED assignee
        /\ \/ status' = [status EXCEPT ![e] = "resolved"]
           \/ status' = [status EXCEPT ![e] = "investigating"]
    BY <1>4 DEF Review, ApproveResolution, RejectResolution, DecidesProposal
  <2> QED
    BY <1>1, <2>1 DEF TypeOK
<1> QED
  BY <1>2, <1>3, <1>4 DEF Next

-----------------------------------------------------------------------------
(* The page in front of the workflow.                                      *)

(* A form the server accepts is a step of the workflow.                    *)
LEMMA AcceptedIsStep ==
  ASSUME TypeOK, NEW p \in Post, Accepts(p)
  PROVE  Next /\ version[p.exc] = p.shown.version
<1>1. p.user \in Users /\ p.exc \in Exceptions /\ p.shown.version \in Nat
  BY ConsoleAssumption DEF Post, Detail
<1>2. version[p.exc] = p.shown.version /\ p.shown.version < MaxVersion
  BY DEF Accepts, VersionSent, ClaimException, ReleaseException, AddExceptionNote, SubmitResolution,
     AdoptAiSuggestion, AddInvestigationItem, UpdateInvestigationItem, Review, ApproveResolution,
     RejectResolution, LockedException
<1>3. p.shown.version \in 0..MaxVersion
  BY <1>1, <1>2, WorkflowAssumption
<1>4. Work(p.user, p.exc, p.shown.version) \/ Review(p.user, p.exc, p.shown.version)
  <2>1. ASSUME NEW i \in p.shown.offered, NEW d \in {"accepted", "partially_accepted", "rejected"},
               AdoptAiSuggestion(p.user, p.exc, i, d, p.shown.version)
        PROVE  i \in DOMAIN suggestions[p.exc]
    BY <2>1 DEF AdoptAiSuggestion
  <2>2. ASSUME NEW i \in p.shown.items, NEW new \in ItemStatuses,
               UpdateInvestigationItem(p.user, p.exc, i, new, p.shown.version)
        PROVE  i \in items[p.exc]
    BY <2>2 DEF UpdateInvestigationItem
  <2> QED
    BY <1>1, <2>1, <2>2 DEF Accepts, VersionSent, Work
<1> QED
  BY <1>1, <1>2, <1>3, <1>4 DEF Next

(* Whatever happens, the workflow takes one of its steps or none.          *)
LEMMA ConsoleStepMapped ==
  ASSUME ConsoleTypeOK, [ConsoleNext]_allVars
  PROVE  [Next]_vars
<1>1. CASE Elsewhere
  BY <1>1 DEF Elsewhere, Next
<1>2. ASSUME NEW p \in posts, Arrive(p) PROVE Next
  <2>1. p \in Post /\ TypeOK
    BY DEF ConsoleTypeOK
  <2> QED
    BY <1>2, <2>1, AcceptedIsStep DEF Arrive
<1>3. ASSUME NEW u \in Consoles,
             \/ SignIn(u)
             \/ \E e \in Exceptions : Open(u, e)
             \/ \E form \in Forms : Click(u, form)
      PROVE  UNCHANGED vars
  BY <1>3 DEF SignIn, Open, Shows, Click
<1>4. ASSUME NEW f \in fetches, ReadRow(f) \/ ReadHistory(f) \/ Render(f) \/ LoseFetch(f)
      PROVE  UNCHANGED vars
  BY <1>4 DEF ReadRow, ReadHistory, Advance, Render, LoseFetch
<1>5. ASSUME NEW p \in posts, LosePost(p) PROVE UNCHANGED vars
  BY <1>5 DEF LosePost
<1>6. ASSUME NEW r \in reloads, Refresh(r) \/ ShowAgain(r) \/ LoseAnswer(r) PROVE UNCHANGED vars
  BY <1>6 DEF Refresh, ShowAgain, Shows, LoseAnswer
<1>7. CASE UNCHANGED allVars
  BY <1>7 DEF allVars
<1> QED
  BY <1>1, <1>2, <1>3, <1>4, <1>5, <1>6, <1>7 DEF ConsoleNext

LEMMA ConsoleStart == ConsoleInit => ConsoleInv
<1> SUFFICES ASSUME ConsoleInit PROVE ConsoleInv
  OBVIOUS
<1>1. TypeOK
  BY DEF ConsoleInit, Init, TypeOK, Statuses
<1>2. ConsoleTypeOK
  BY <1>1, ConsoleAssumption DEF ConsoleInit, ConsoleTypeOK, TypeOK
<1>3. OwnedUnlessOpen
  BY DEF ConsoleInit, Init, OwnedUnlessOpen
<1> QED
  BY <1>2, <1>3 DEF ConsoleInit, ConsoleInv, ScreenFits

(* The workflow moves on, with at most a post less and an answer more.     *)
LEMMA WorkflowKeepsConsole ==
  ASSUME ConsoleInv, [Next]_vars, UNCHANGED <<pageVars, fetches>>, posts' \subseteq posts,
         reloads' \subseteq reloads \cup [user : Consoles, exc : {Blank}]
  PROVE  ConsoleInv'
<1>1. UNCHANGED <<sessionRole, selected, screen, fetches>> /\ TypeOK /\ ConsoleTypeOK /\ OwnedUnlessOpen
  BY DEF pageVars, ConsoleInv, ConsoleTypeOK
<1>2. ConsoleTypeOK'
  <2>1. TypeOK'
    BY <1>1, TypedStep
  <2>2. reloads' \subseteq Reload
    BY <1>1 DEF ConsoleTypeOK, Reload
  <2> QED
    BY <1>1, <2>1, <2>2 DEF ConsoleTypeOK
<1>3. OwnedUnlessOpen'
  BY <1>1, OwnedStep
<1>4. \A d \in Detail : /\ RowFits(d) => RowFits(d)'
                        /\ RowFits(d) /\ HistoryFits(d) => HistoryFits(d)'
  BY <1>1, DetailStaysFitting
<1>5. \A f \in fetches : f.detail \in Detail /\ f.stage \in {"sent", "row_read", "answered"}
  BY <1>1 DEF ConsoleTypeOK, Fetch
<1>6. \A p \in posts : p.shown \in Detail
  BY <1>1 DEF ConsoleTypeOK, Post
<1>7. ASSUME NEW f \in fetches' PROVE FetchFits(f)'
  <2>1. f \in fetches /\ FetchFits(f)
    BY <1>1 DEF ConsoleInv
  <2> QED
    BY <1>1, <1>4, <1>5, <2>1 DEF FetchFits
<1>8. ASSUME NEW u \in Consoles PROVE ScreenFits(u)'
  <2>1. ScreenFits(u)
    BY DEF ConsoleInv
  <2>2. CASE screen[u] = Blank
    BY <1>1, <2>2 DEF ScreenFits
  <2>3. CASE screen[u] # Blank
    <3>1. PICK d \in Detail : screen[u] = d /\ RowFits(d) /\ HistoryFits(d)
      BY <2>1, <2>3 DEF ScreenFits
    <3>2. RowFits(d)' /\ HistoryFits(d)'
      BY <1>4, <3>1
    <3> QED
      BY <1>1, <2>1, <2>3, <3>1, <3>2 DEF ScreenFits, RowFits, HistoryFits, Unadopted
  <2> QED
    BY <2>2, <2>3
<1>9. ASSUME NEW p \in posts' PROVE PostFits(p)'
  <2>1. p \in posts /\ PostFits(p)
    BY DEF ConsoleInv
  <2> QED
    BY <1>4, <1>6, <2>1 DEF PostFits
<1> QED
  BY <1>2, <1>3, <1>7, <1>8, <1>9 DEF ConsoleInv

(* What was read stays as right while the page alone does something.       *)
LEMMA PageLeavesWorkflow ==
  ASSUME ConsoleInv, UNCHANGED vars
  PROVE  /\ TypeOK' /\ OwnedUnlessOpen'
         /\ UNCHANGED <<version, status, assignee, proposals, items, suggestions, adoptions>>
         /\ \A d : RowFits(d) => RowFits(d)'
         /\ \A d : HistoryFits(d) => HistoryFits(d)'
<1>1. UNCHANGED <<version, status, assignee, proposals, items, suggestions, adoptions>>
  BY DEF vars, rowVars, reviewVars, checklistVars
<1>2. TypeOK'
  BY TypedStep DEF ConsoleInv, ConsoleTypeOK
<1>3. OwnedUnlessOpen'
  BY <1>1 DEF ConsoleInv, OwnedUnlessOpen
<1>4. \A d : RowFits(d) => RowFits(d)'
  BY <1>1 DEF RowFits
<1>5. \A d : HistoryFits(d) => HistoryFits(d)'
  BY <1>1 DEF HistoryFits, Unadopted
<1> QED
  BY <1>1, <1>2, <1>3, <1>4, <1>5

(* Only the fetches change: one goes, or is replaced by one that fits.     *)
LEMMA FetchKeepsConsole ==
  ASSUME ConsoleInv, UNCHANGED <<vars, pageVars, formVars>>,
         \A g \in fetches' : g \in fetches \/ (g \in Fetch /\ FetchFits(g))
  PROVE  ConsoleInv'
<1>1. UNCHANGED <<sessionRole, selected, screen, posts, reloads>>
  BY DEF pageVars, formVars
<1>2. ConsoleTypeOK'
  BY <1>1, PageLeavesWorkflow DEF ConsoleInv, ConsoleTypeOK
<1>3. ASSUME NEW g \in fetches' PROVE FetchFits(g)'
  <2>1. FetchFits(g)
    BY DEF ConsoleInv
  <2> QED
    BY <1>1, <2>1, PageLeavesWorkflow DEF FetchFits
<1>4. ASSUME NEW u \in Consoles PROVE ScreenFits(u)'
  <2>1. ScreenFits(u)
    BY DEF ConsoleInv
  <2> QED
    BY <1>1, <2>1, PageLeavesWorkflow DEF ScreenFits, RowFits, HistoryFits, Unadopted
<1>5. ASSUME NEW p \in posts' PROVE PostFits(p)'
  BY <1>1, PageLeavesWorkflow DEF ConsoleInv, PostFits
<1> QED
  BY <1>2, <1>3, <1>4, <1>5, PageLeavesWorkflow DEF ConsoleInv

(* A request for the detail of e is sent, and e is what is selected now.   *)
LEMMA ShowsKeepsConsole ==
  ASSUME ConsoleInv, NEW u \in Consoles, NEW e \in Exceptions, Shows(u, e),
         posts' = posts, reloads' \subseteq reloads
  PROVE  ConsoleInv'
<1> DEFINE g == [user |-> u, stage |-> "sent", detail |-> Unread(e)]
<1>1. /\ UNCHANGED <<sessionRole, screen, posts>> /\ UNCHANGED vars
      /\ fetches' = fetches \cup {g}
  BY DEF Shows
<1>2. ConsoleTypeOK
  BY DEF ConsoleInv
<1>3. /\ selected' \in [Consoles -> Exceptions \cup {Blank}]
      /\ selected'[u] = e /\ e # Blank
      /\ \A v \in Consoles \ {u} : selected'[v] = selected[v]
  BY <1>2, ConsoleAssumption DEF Shows, ConsoleTypeOK
<1>4. g \in Fetch /\ g.user = u /\ g.stage = "sent"
  BY DEF Fetch, Detail, Unread, Statuses
<1> HIDE DEF g
<1>5. ConsoleTypeOK'
  BY <1>1, <1>2, <1>3, <1>4, PageLeavesWorkflow DEF ConsoleTypeOK
<1>6. \A f \in fetches : f.user \in Consoles
  BY <1>2 DEF ConsoleTypeOK, Fetch
<1>7. ASSUME NEW f \in fetches' PROVE FetchFits(f)'
  <2>1. CASE f \in fetches
    <3>1. FetchFits(f)
      BY <2>1 DEF ConsoleInv
    <3> QED
      BY <1>1, <1>3, <1>6, <2>1, <3>1, PageLeavesWorkflow DEF FetchFits
  <2>2. CASE f = g
    BY <1>3, <1>4, <2>2 DEF FetchFits
  <2> QED
    BY <1>1, <2>1, <2>2
<1>8. ASSUME NEW v \in Consoles PROVE ScreenFits(v)'
  <2>1. ScreenFits(v)
    BY DEF ConsoleInv
  <2>2. selected[v] # Blank => selected'[v] # Blank
    BY <1>3
  <2> QED
    BY <1>1, <2>1, <2>2, PageLeavesWorkflow DEF ScreenFits, RowFits, HistoryFits, Unadopted
<1>9. ASSUME NEW p \in posts' PROVE PostFits(p)'
  BY <1>1, PageLeavesWorkflow DEF ConsoleInv, PostFits
<1> QED
  BY <1>1, <1>5, <1>7, <1>8, <1>9, PageLeavesWorkflow DEF ConsoleInv

(* The row is read, and the history after it.                              *)
LEMMA ReadKeepsConsole ==
  ASSUME ConsoleInv, NEW f \in fetches, ReadRow(f) \/ ReadHistory(f)
  PROVE  ConsoleInv'
<1> DEFINE d == f.detail
           e == d.exc
<1>1. f \in Fetch /\ d \in Detail /\ e \in Exceptions /\ TypeOK /\ FetchFits(f)
  BY DEF ConsoleInv, ConsoleTypeOK, Fetch, Detail
<1>2. CASE ReadRow(f)
  <2> DEFINE n == [d EXCEPT !.version = version[e], !.status = status[e], !.owner = assignee[e]]
             g == [f EXCEPT !.stage = "row_read", !.detail = n]
  <2>1. UNCHANGED <<vars, pageVars, formVars>> /\ fetches' = (fetches \ {f}) \cup {g}
    BY <1>2 DEF ReadRow, Advance
  <2>2. /\ n \in Detail /\ n.exc = e
        /\ n.version = version[e] /\ n.status = status[e] /\ n.owner = assignee[e]
    BY <1>1 DEF Detail, TypeOK
  <2> HIDE DEF n
  <2>3. g \in Fetch /\ g.user = f.user /\ g.stage = "row_read" /\ g.detail = n
    BY <1>1, <2>2 DEF Fetch
  <2>4. version[e] \in Nat
    BY <1>1 DEF TypeOK
  <2>5. FetchFits(g)
    BY <1>1, <2>2, <2>3, <2>4 DEF FetchFits, RowFits
  <2> HIDE DEF g
  <2> QED
    BY <2>1, <2>3, <2>5, FetchKeepsConsole
<1>3. CASE ReadHistory(f)
  <2> DEFINE n == [d EXCEPT !.newest = Len(proposals[e]), !.offered = Unadopted(e), !.items = items[e]]
             g == [f EXCEPT !.stage = "answered", !.detail = n]
  <2>1. /\ UNCHANGED <<vars, pageVars, formVars>> /\ fetches' = (fetches \ {f}) \cup {g}
        /\ f.stage = "row_read"
    BY <1>3 DEF ReadHistory, Advance
  <2>2. Len(proposals[e]) \in Nat /\ Unadopted(e) \in SUBSET Nat /\ items[e] \in SUBSET Item
    <3>1. suggestions[e] \in Seq(Replies) /\ proposals[e] \in Seq(Proposal)
      BY <1>1 DEF TypeOK
    <3> QED
      BY <1>1, <3>1 DEF TypeOK, Unadopted
  <2>3. /\ n \in Detail /\ n.exc = e /\ n.version = d.version /\ n.status = d.status /\ n.owner = d.owner
        /\ n.newest = Len(proposals[e]) /\ n.offered = Unadopted(e) /\ n.items = items[e]
    BY <1>1, <2>2 DEF Detail
  <2> HIDE DEF n
  <2>4. g \in Fetch /\ g.user = f.user /\ g.stage = "answered" /\ g.detail = n
    BY <1>1, <2>3 DEF Fetch
  <2>5. RowFits(d)
    BY <1>1, <2>1 DEF FetchFits
  <2>6. RowFits(n) /\ HistoryFits(n)
    BY <2>3, <2>5 DEF RowFits, HistoryFits
  <2>7. FetchFits(g)
    BY <1>1, <2>4, <2>6 DEF FetchFits
  <2> HIDE DEF g
  <2> QED
    BY <2>1, <2>4, <2>7, FetchKeepsConsole
<1> QED
  BY <1>2, <1>3

LEMMA RenderKeepsConsole ==
  ASSUME ConsoleInv, NEW f \in fetches, Render(f)
  PROVE  ConsoleInv'
<1>1. /\ UNCHANGED vars /\ UNCHANGED <<sessionRole, selected, posts, reloads>>
      /\ screen' = [screen EXCEPT ![f.user] = f.detail] /\ fetches' \subseteq fetches
      /\ f.stage = "answered"
  BY DEF Render, formVars
<1>2. ConsoleTypeOK /\ f \in Fetch /\ FetchFits(f)
  BY DEF ConsoleInv, ConsoleTypeOK
<1>3. PICK d \in Detail : f.detail = d /\ RowFits(d) /\ HistoryFits(d)
  BY <1>1, <1>2 DEF Fetch, FetchFits
<1>4. f.user \in Consoles /\ selected[f.user] # Blank
  BY <1>2 DEF Fetch, FetchFits
<1>5. screen' \in [Consoles -> Detail \cup {Blank}] /\ screen'[f.user] = d
  BY <1>1, <1>2, <1>3, <1>4 DEF ConsoleTypeOK
<1>6. ConsoleTypeOK'
  BY <1>1, <1>2, <1>5, PageLeavesWorkflow DEF ConsoleTypeOK
<1>7. ASSUME NEW g \in fetches' PROVE FetchFits(g)'
  <2>1. FetchFits(g)
    BY <1>1 DEF ConsoleInv
  <2> QED
    BY <1>1, <2>1, PageLeavesWorkflow DEF FetchFits
<1>8. ASSUME NEW v \in Consoles PROVE ScreenFits(v)'
  <2>1. CASE v = f.user
    <3>1. RowFits(d)' /\ HistoryFits(d)'
      BY <1>1, <1>3, PageLeavesWorkflow
    <3> QED
      BY <1>1, <1>4, <1>5, <2>1, <3>1 DEF ScreenFits, RowFits, HistoryFits, Unadopted
  <2>2. CASE v # f.user
    <3>1. ScreenFits(v) /\ screen'[v] = screen[v]
      BY <1>1, <1>2, <2>2 DEF ConsoleInv, ConsoleTypeOK
    <3> QED
      BY <1>1, <3>1, PageLeavesWorkflow DEF ScreenFits, RowFits, HistoryFits, Unadopted
  <2> QED
    BY <2>1, <2>2
<1>9. ASSUME NEW p \in posts' PROVE PostFits(p)'
  BY <1>1, PageLeavesWorkflow DEF ConsoleInv, PostFits
<1> QED
  BY <1>1, <1>6, <1>7, <1>8, <1>9, PageLeavesWorkflow DEF ConsoleInv

(* A login blanks the page and forgets what it waits for.                  *)
LEMMA SignInKeepsConsole ==
  ASSUME ConsoleInv, NEW u \in Consoles, SignIn(u)
  PROVE  ConsoleInv'
<1>1. /\ UNCHANGED vars /\ posts' = posts /\ reloads' \subseteq reloads
      /\ fetches' = {f \in fetches : f.user # u}
  BY DEF SignIn
<1>2. ConsoleTypeOK
  BY DEF ConsoleInv
<1>3. /\ role[u] \in Roles
      /\ sessionRole' \in [Consoles -> Roles]
      /\ selected' \in [Consoles -> Exceptions \cup {Blank}]
      /\ screen' \in [Consoles -> Detail \cup {Blank}]
  BY <1>2, ConsoleAssumption DEF SignIn, ConsoleTypeOK, TypeOK
<1>4. /\ screen'[u] = Blank
      /\ \A v \in Consoles \ {u} : screen'[v] = screen[v] /\ selected'[v] = selected[v]
  BY <1>2 DEF SignIn, ConsoleTypeOK
<1>5. ConsoleTypeOK'
  BY <1>1, <1>2, <1>3, PageLeavesWorkflow DEF ConsoleTypeOK
<1>6. ASSUME NEW f \in fetches' PROVE FetchFits(f)'
  <2>1. FetchFits(f) /\ f.user \in Consoles /\ f.user # u
    BY <1>1, <1>2 DEF ConsoleInv, ConsoleTypeOK, Fetch
  <2> QED
    BY <1>1, <1>4, <2>1, PageLeavesWorkflow DEF FetchFits
<1>7. ASSUME NEW v \in Consoles PROVE ScreenFits(v)'
  <2>1. CASE v = u
    BY <1>4, <2>1 DEF ScreenFits
  <2>2. CASE v # u
    <3>1. ScreenFits(v)
      BY DEF ConsoleInv
    <3> QED
      BY <1>1, <1>4, <2>2, <3>1, PageLeavesWorkflow DEF ScreenFits, RowFits, HistoryFits, Unadopted
  <2> QED
    BY <2>1, <2>2
<1>8. ASSUME NEW p \in posts' PROVE PostFits(p)'
  BY <1>1, PageLeavesWorkflow DEF ConsoleInv, PostFits
<1> QED
  BY <1>1, <1>5, <1>6, <1>7, <1>8, PageLeavesWorkflow DEF ConsoleInv

(* A form carries what is on the screen, and only a screen with a detail   *)
(* has forms.                                                              *)
LEMMA FormsKeepConsole ==
  ASSUME ConsoleInv, UNCHANGED <<vars, pageVars, fetches>>, reloads' \subseteq Reload,
         \A q \in posts' : \/ q \in posts
                           \/ \E u \in Consoles, form \in Forms : form \in FormsOf(u) /\ q = Submitted(u, form)
  PROVE  ConsoleInv'
<1>1. UNCHANGED <<sessionRole, selected, screen, fetches>>
  BY DEF pageVars
<1>2. ConsoleTypeOK
  BY DEF ConsoleInv
<1>3. ASSUME NEW u \in Consoles, NEW form \in Forms, form \in FormsOf(u)
      PROVE  Submitted(u, form) \in Post /\ PostFits(Submitted(u, form))
  <2>1. screen[u] # Blank
    BY <1>3 DEF FormsOf
  <2>2. selected[u] \in Exceptions /\ screen[u] \in Detail
        /\ RowFits(screen[u]) /\ HistoryFits(screen[u])
    BY <1>2, <2>1 DEF ConsoleInv, ConsoleTypeOK, ScreenFits
  <2> QED
    BY <2>2 DEF Submitted, Post, PostFits
<1>4. posts' \subseteq Post /\ \A q \in posts' : PostFits(q)
  BY <1>2, <1>3 DEF ConsoleInv, ConsoleTypeOK
<1>5. ConsoleTypeOK'
  BY <1>1, <1>2, <1>4, PageLeavesWorkflow DEF ConsoleTypeOK
<1>6. ASSUME NEW f \in fetches' PROVE FetchFits(f)'
  <2>1. FetchFits(f)
    BY <1>1 DEF ConsoleInv
  <2> QED
    BY <1>1, <2>1, PageLeavesWorkflow DEF FetchFits
<1>7. ASSUME NEW u \in Consoles PROVE ScreenFits(u)'
  <2>1. ScreenFits(u)
    BY DEF ConsoleInv
  <2> QED
    BY <1>1, <2>1, PageLeavesWorkflow DEF ScreenFits, RowFits, HistoryFits, Unadopted
<1>8. ASSUME NEW q \in posts' PROVE PostFits(q)'
  BY <1>4, PageLeavesWorkflow DEF PostFits
<1> QED
  BY <1>5, <1>6, <1>7, <1>8, PageLeavesWorkflow DEF ConsoleInv

LEMMA ConsoleStep == ConsoleInv /\ [ConsoleNext]_allVars => ConsoleInv'
<1> SUFFICES ASSUME ConsoleInv, [ConsoleNext]_allVars PROVE ConsoleInv'
  OBVIOUS
<1>1. [Next]_vars /\ ConsoleTypeOK
  BY ConsoleStepMapped DEF ConsoleInv
<1>2. CASE Elsewhere \/ UNCHANGED allVars
  <2>1. UNCHANGED <<pageVars, fetches, posts, reloads>>
    BY <1>2 DEF Elsewhere, allVars, consoleVars, formVars
  <2> QED
    BY <1>1, <2>1, WorkflowKeepsConsole
<1>3. ASSUME NEW p \in posts, Arrive(p) PROVE ConsoleInv'
  <2>1. p.user \in Consoles
    BY <1>1 DEF ConsoleTypeOK, Post
  <2>2. /\ UNCHANGED <<pageVars, fetches>> /\ posts' \subseteq posts
        /\ reloads' \subseteq reloads \cup [user : Consoles, exc : {Blank}]
    BY <1>3, <2>1 DEF Arrive
  <2> QED
    BY <1>1, <2>2, WorkflowKeepsConsole
<1>4. ASSUME NEW u \in Consoles, NEW e \in Exceptions, Open(u, e) PROVE ConsoleInv'
  BY <1>4, ShowsKeepsConsole DEF Open, formVars
<1>5. ASSUME NEW u \in Consoles, NEW form \in Forms, Click(u, form) PROVE ConsoleInv'
  <2>1. /\ UNCHANGED <<vars, pageVars, fetches>> /\ reloads' = reloads
        /\ posts' = posts \cup {Submitted(u, form)} /\ form \in FormsOf(u)
    BY <1>5 DEF Click
  <2> QED
    BY <1>1, <2>1, FormsKeepConsole DEF ConsoleTypeOK
<1>6. ASSUME NEW f \in fetches, LoseFetch(f) PROVE ConsoleInv'
  <2>1. UNCHANGED <<vars, pageVars, formVars>> /\ \A g \in fetches' : g \in fetches
    BY <1>6 DEF LoseFetch
  <2> QED
    BY <2>1, FetchKeepsConsole
<1>7. ASSUME NEW p \in posts, LosePost(p) PROVE ConsoleInv'
  <2>1. UNCHANGED <<vars, pageVars, fetches>> /\ reloads' = reloads /\ posts' \subseteq posts
    BY <1>7 DEF LosePost
  <2> QED
    BY <1>1, <2>1, FormsKeepConsole DEF ConsoleTypeOK
<1>8. ASSUME NEW r \in reloads, Refresh(r) \/ LoseAnswer(r) PROVE ConsoleInv'
  <2>1. r.user \in Consoles /\ r \in Reload
    BY <1>1 DEF ConsoleTypeOK, Reload
  <2>2. [r EXCEPT !.exc = selected[r.user]] \in Reload
    BY <1>1, <2>1 DEF ConsoleTypeOK, Reload
  <2>3. UNCHANGED <<vars, pageVars, fetches, posts>> /\ reloads' \subseteq Reload
    BY <1>1, <1>8, <2>2 DEF Refresh, LoseAnswer, ConsoleTypeOK
  <2> QED
    BY <2>3, FormsKeepConsole
<1>9. ASSUME NEW r \in reloads, ShowAgain(r) PROVE ConsoleInv'
  <2>1. r.user \in Consoles /\ r.exc \in Exceptions
    BY <1>1, <1>9 DEF ConsoleTypeOK, Reload, ShowAgain
  <2> QED
    BY <1>9, <2>1, ShowsKeepsConsole DEF ShowAgain
<1> QED
  BY <1>2, <1>3, <1>4, <1>5, <1>6, <1>7, <1>8, <1>9, SignInKeepsConsole, ReadKeepsConsole,
     RenderKeepsConsole DEF ConsoleNext

-----------------------------------------------------------------------------
(* What follows.                                                           *)

THEOREM ConsoleAlways == ConsoleSpec => []ConsoleInv
  BY ConsoleStart, ConsoleStep, PTL DEF ConsoleSpec

(* Type correctness of the page, of the requests in flight and of what     *)
(* they carry.                                                             *)
THEOREM ConsoleTypeCorrect == ConsoleSpec => []ConsoleTypeOK
<1>1. ConsoleInv => ConsoleTypeOK
  BY DEF ConsoleInv
<1> QED
  BY <1>1, ConsoleAlways, PTL

(* The page adds nothing to the workflow: whatever it posts, late, twice   *)
(* or to the wrong exception, is a step the workflow has anyway, so all    *)
(* that is proved of the workflow holds behind the page.                   *)
THEOREM ConsoleKeepsWorkflow == ConsoleSpec => Spec
<1>1. ConsoleInit => Init
  BY DEF ConsoleInit
<1>2. ConsoleTypeOK /\ [ConsoleNext]_allVars => [Next]_vars
  BY ConsoleStepMapped
<1> QED
  BY <1>1, <1>2, ConsoleTypeCorrect, PTL DEF ConsoleSpec, Spec

(* A form posted to the exception it was shown with meets that exception   *)
(* as it was on the screen, however the detail was put together, and       *)
(* whatever came late, out of order or not at all.                         *)
THEOREM FormsMeetWhatWasShown == ConsoleSpec => ActsOnWhatIsShown
<1> DEFINE Meets ==
      \A p \in Accepted : p.shown.exc = p.exc =>
        LET e == p.exc  d == p.shown IN
        /\ d.status = status[e] /\ d.owner = assignee[e]
        /\ d.newest = Len(proposals[e]) /\ d.items = items[e] /\ d.offered \subseteq Unadopted(e)
<1>1. ASSUME ConsoleInv, ConsoleNext PROVE Meets
  <2> SUFFICES ASSUME NEW p \in Accepted, p.shown.exc = p.exc
               PROVE  /\ p.shown.status = status[p.exc] /\ p.shown.owner = assignee[p.exc]
                      /\ p.shown.newest = Len(proposals[p.exc]) /\ p.shown.items = items[p.exc]
                      /\ p.shown.offered \subseteq Unadopted(p.exc)
    OBVIOUS
  <2>1. p \in posts /\ p \notin posts' /\ reloads' # reloads
    BY DEF Accepted
  <2>2. p \in Post /\ TypeOK /\ PostFits(p)
    BY <1>1, <2>1 DEF ConsoleInv, ConsoleTypeOK
  <2>3. Arrive(p)
    <3>1. ASSUME NEW q \in posts, Arrive(q) PROVE q = p
      BY <2>1, <3>1 DEF Arrive
    <3>2. ASSUME NEW u \in Consoles, SignIn(u) PROVE posts' = posts
      BY <3>2 DEF SignIn
    <3>3. ASSUME NEW u \in Consoles, NEW e \in Exceptions, Open(u, e) PROVE posts' = posts
      BY <3>3 DEF Open, formVars
    <3>4. ASSUME NEW u \in Consoles, NEW form \in Forms, Click(u, form) PROVE reloads' = reloads
      BY <3>4 DEF Click
    <3>5. ASSUME NEW f \in fetches, ReadRow(f) \/ ReadHistory(f) \/ Render(f) \/ LoseFetch(f)
          PROVE  posts' = posts
      BY <3>5 DEF ReadRow, ReadHistory, Advance, Render, LoseFetch, formVars
    <3>6. ASSUME NEW q \in posts, LosePost(q) PROVE reloads' = reloads
      BY <3>6 DEF LosePost
    <3>7. ASSUME NEW r \in reloads, Refresh(r) \/ ShowAgain(r) \/ LoseAnswer(r) PROVE posts' = posts
      BY <3>7 DEF Refresh, ShowAgain, LoseAnswer
    <3>8. ASSUME Elsewhere PROVE posts' = posts
      BY <3>8 DEF Elsewhere, consoleVars, formVars
    <3> QED
      BY <1>1, <2>1, <3>1, <3>2, <3>3, <3>4, <3>5, <3>6, <3>7, <3>8 DEF ConsoleNext
  <2>4. version[p.exc] = p.shown.version
    BY <2>2, <2>3, AcceptedIsStep DEF Arrive
  <2> QED
    BY <2>2, <2>4 DEF PostFits, RowFits, HistoryFits
<1>2. ConsoleInv /\ [ConsoleNext]_allVars => [Meets]_allVars
  BY <1>1
<1>3. ConsoleSpec => [][Meets]_allVars
  BY <1>2, ConsoleAlways, PTL DEF ConsoleSpec
<1> QED
  BY <1>3 DEF ActsOnWhatIsShown

-----------------------------------------------------------------------------
(* Page and server agree on who may do what.                               *)

(* What a console selects, now or once it is loaded again, was on a list.  *)
SelectedExists ==
  /\ \A u \in Consoles : selected[u] # Blank => Exists(selected[u])
  /\ \A r \in reloads : r.exc # Blank => Exists(r.exc)

(* A run that is completed stays completed.                                *)
LEMMA ExistsForEver ==
  ASSUME TypeOK, [Next]_vars, NEW e \in Exceptions, Exists(e)
  PROVE  Exists(e)'
<1>1. RunOf[e] \in Runs /\ runStatus \in [Runs -> {"absent", "completed", "failed"}]
  BY WorkflowAssumption DEF TypeOK
<1>2. ASSUME NEW r \in Runs, CompleteRun(r) \/ FailRun(r) PROVE Exists(e)'
  BY <1>1, <1>2 DEF CompleteRun, FailRun, Exists
<1>3. ASSUME NEW u \in Users, NEW x \in Roles, ChangeRole(u, x) PROVE Exists(e)'
  BY <1>3 DEF ChangeRole, Exists
<1>4. ASSUME NEW y \in Exceptions, NEW steps \in Replies, NEW x \in 0..MaxVersion, StoreSuggestion(y, steps, x)
      PROVE  Exists(e)'
  BY <1>4 DEF StoreSuggestion, runVars, Exists
<1>5. ASSUME NEW u \in Users, NEW y \in Exceptions, NEW x \in 0..MaxVersion, Work(u, y, x) \/ Review(u, y, x)
      PROVE  Exists(e)'
  BY <1>5 DEF Work, Review, ClaimException, ReleaseException, AddExceptionNote, SubmitResolution,
    AdoptAiSuggestion, AddInvestigationItem, UpdateInvestigationItem, ApproveResolution, RejectResolution,
    runVars, Exists
<1>6. CASE UNCHANGED vars
  BY <1>6 DEF vars, runVars, Exists
<1> QED
  BY <1>2, <1>3, <1>4, <1>5, <1>6 DEF Next, Environment

LEMMA SelectedExistsStep == ConsoleTypeOK /\ SelectedExists /\ [ConsoleNext]_allVars => SelectedExists'
<1> SUFFICES ASSUME ConsoleTypeOK, SelectedExists, [ConsoleNext]_allVars PROVE SelectedExists'
  OBVIOUS
<1>1. \A e \in Exceptions : Exists(e) => Exists(e)'
  <2>1. TypeOK /\ [Next]_vars
    BY ConsoleStepMapped DEF ConsoleTypeOK
  <2> QED
    BY <2>1, ExistsForEver
<1>2. /\ selected \in [Consoles -> Exceptions \cup {Blank}]
      /\ \A r \in reloads : r.user \in Consoles /\ r.exc \in Exceptions \cup {Blank}
  BY DEF ConsoleTypeOK, Reload
<1> DEFINE Sound ==
      /\ \A u \in Consoles : \/ selected'[u] \in {selected[u], Blank}
                             \/ selected'[u] \in Exceptions /\ Exists(selected'[u])
      /\ \A r \in reloads' : \/ r \in reloads \/ r.exc = Blank
                             \/ r.exc \in Exceptions /\ Exists(r.exc)
<1>3. ASSUME Sound PROVE SelectedExists'
  <2>1. ASSUME NEW u \in Consoles, selected'[u] # Blank PROVE Exists(selected[u])'
    <3>1. PICK x \in Exceptions : selected'[u] = x /\ Exists(x)
      BY <1>2, <1>3, <2>1 DEF SelectedExists
    <3>2. Exists(x)'
      BY <1>1, <3>1
    <3> QED
      BY <3>1, <3>2 DEF Exists
  <2>2. ASSUME NEW r \in reloads', r.exc # Blank PROVE Exists(r.exc)'
    <3>1. PICK x \in Exceptions : r.exc = x /\ Exists(x)
      BY <1>2, <1>3, <2>2 DEF SelectedExists
    <3>2. Exists(x)'
      BY <1>1, <3>1
    <3> QED
      BY <3>1, <3>2 DEF Exists
  <2> QED
    BY <2>1, <2>2 DEF SelectedExists
<1>4. ASSUME UNCHANGED selected, \A r \in reloads' : r \in reloads \/ r.exc = Blank PROVE Sound
  BY <1>4
<1>5. ASSUME Elsewhere \/ UNCHANGED allVars PROVE Sound
  <2>1. selected' = selected /\ reloads' = reloads
    BY <1>5 DEF Elsewhere, allVars, consoleVars, pageVars, formVars
  <2> QED
    BY <1>4, <2>1
<1>6. ASSUME NEW u \in Consoles, SignIn(u) PROVE Sound
  BY <1>2, <1>6 DEF SignIn
<1>7. ASSUME NEW u \in Consoles, NEW e \in Exceptions, Exists(e), Shows(u, e), reloads' \subseteq reloads
      PROVE  Sound
  BY <1>2, <1>7 DEF Shows
<1>8. ASSUME NEW u \in Consoles, NEW e \in Exceptions, Open(u, e) PROVE Sound
  BY <1>7, <1>8 DEF Open, formVars
<1>9. ASSUME NEW u \in Consoles, NEW form \in Forms, Click(u, form) PROVE Sound
  BY <1>4, <1>9 DEF Click, pageVars
<1>10. ASSUME NEW f \in fetches, ReadRow(f) \/ ReadHistory(f) \/ Render(f) \/ LoseFetch(f)
       PROVE  Sound
  BY <1>4, <1>10 DEF ReadRow, ReadHistory, Advance, Render, LoseFetch, pageVars, formVars
<1>11. ASSUME NEW p \in posts, Arrive(p) \/ LosePost(p) PROVE Sound
  BY <1>4, <1>11 DEF Arrive, LosePost, pageVars
<1>12. ASSUME NEW r \in reloads, Refresh(r) PROVE Sound
  <2>1. /\ selected' = selected /\ selected[r.user] \in Exceptions /\ Exists(selected[r.user])
        /\ \A q \in reloads' : q \in reloads \/ q = [r EXCEPT !.exc = selected[r.user]]
    BY <1>2, <1>12 DEF Refresh, pageVars, SelectedExists
  <2>2. [r EXCEPT !.exc = selected[r.user]].exc = selected[r.user]
    BY <1>12 DEF ConsoleTypeOK, Reload
  <2> QED
    BY <2>1, <2>2
<1>13. ASSUME NEW r \in reloads, ShowAgain(r) PROVE Sound
  BY <1>2, <1>7, <1>13 DEF ShowAgain, SelectedExists
<1>14. ASSUME NEW r \in reloads, LoseAnswer(r) PROVE Sound
  BY <1>4, <1>14 DEF LoseAnswer, pageVars
<1> QED
  BY <1>3, <1>4, <1>5, <1>6, <1>8, <1>9, <1>10, <1>11, <1>12, <1>13, <1>14 DEF ConsoleNext

LEMMA SelectedAlwaysExists == ConsoleSpec => []SelectedExists
<1>1. ConsoleInit => SelectedExists
  BY DEF ConsoleInit, SelectedExists
<1> QED
  BY <1>1, SelectedExistsStep, ConsoleTypeCorrect, PTL DEF ConsoleSpec

(* The guards of Accepts, without its assignments: every handler of        *)
(* ExceptionWorkflow that answers the form is a conjunction of these and   *)
(* of one equation for each variable.                                      *)
MayAccept(p) ==
  LET u == p.user  e == p.exc  shown == p.shown IN
  /\ LockedException(e, VersionSent(p))
  /\ \/ /\ p.form \in {"claim", "assign"}
        /\ \E a \in Users :
             /\ p.form = "claim" => a = u
             /\ MayAssign(u, a) /\ Claimable(a, e)
             /\ ~(assignee[e] = a /\ status[e] = "investigating")
     \/ p.form = "note" /\ MayNote(u, e)
     \/ p.form = "decide" /\ \E n \in DOMAIN proposals[e], verdict \in Verdicts :
          /\ role[u] \in {"reviewer", "admin"} /\ status[e] = "pending_review"
          /\ n \in Undecided(e) /\ (\A m \in Undecided(e) : m <= n) /\ proposals[e][n].by # u
          /\ LET r == proposals[e][n].replacement IN
             verdict = "approved" /\ r # NoRun => ValidReplacement(e, r)
     \/ /\ OwnerInvestigates(e, u)
        /\ \/ p.form = "release"
           \/ /\ p.form = "submit" /\ OpenRequiredItems(e) = {}
              /\ \E r \in Runs \cup {NoRun} : r # NoRun => ValidReplacement(e, r)
           \/ /\ p.form = "adopt" /\ e = shown.exc
              /\ \E i \in shown.offered, x \in {"accepted", "partially_accepted", "rejected"} :
                   /\ i \in Unadopted(e) /\ Normal(suggestions[e][i])
                   /\ ChosenSteps(x, Range(suggestions[e][i])) # {}
           \/ p.form = "add_item" /\ Cardinality(items[e]) < MaxItems
           \/ p.form = "update_item" /\ e = shown.exc /\ shown.items \cap items[e] # {}

(* No guard is invented: whatever the server accepts meets them all.       *)
LEMMA AcceptedMeetsGuards ==
  ASSUME ConsoleTypeOK, NEW p \in Post, Accepts(p)
  PROVE  MayAccept(p)
<1> DEFINE u == p.user
           e == p.exc
           v == VersionSent(p)
<1>1. u \in Users /\ e \in Exceptions
  BY ConsoleAssumption DEF Post
<1>2. ASSUME NEW a \in Users, ClaimException(u, a, e, v), p.form \in {"claim", "assign"},
             p.form = "claim" => a = u
      PROVE  MayAccept(p)
  BY <1>2 DEF ClaimException, MayAccept
<1>3. CASE p.form = "note" /\ AddExceptionNote(u, e, v)
  BY <1>3 DEF AddExceptionNote, MayAccept
<1>4. CASE p.form = "release" /\ ReleaseException(u, e, v)
  BY <1>4 DEF ReleaseException, MayAccept
<1>5. CASE p.form = "submit" /\ \E r \in Runs \cup {NoRun} : SubmitResolution(u, e, r, v)
  BY <1>5 DEF SubmitResolution, MayAccept
<1>6. ASSUME NEW i \in p.shown.offered, NEW x \in {"accepted", "partially_accepted", "rejected"},
             p.form = "adopt", e = p.shown.exc, AdoptAiSuggestion(u, e, i, x, v)
      PROVE  MayAccept(p)
  <2>1. i \in Unadopted(e) /\ Normal(suggestions[e][i]) /\ LockedException(e, v) /\ OwnerInvestigates(e, u)
    BY <1>6 DEF AdoptAiSuggestion, Unadopted
  <2>2. ChosenSteps(x, Range(suggestions[e][i])) # {}
    BY <1>6 DEF AdoptAiSuggestion
  <2> QED
    BY <1>6, <2>1, <2>2 DEF MayAccept
<1>7. CASE p.form = "add_item" /\ \E required \in BOOLEAN : AddInvestigationItem(u, e, required, v)
  BY <1>7 DEF AddInvestigationItem, MayAccept
<1>8. CASE /\ p.form = "update_item" /\ e = p.shown.exc
           /\ \E i \in p.shown.items, new \in ItemStatuses : UpdateInvestigationItem(u, e, i, new, v)
  BY <1>8 DEF UpdateInvestigationItem, MayAccept
<1>9. CASE p.form = "decide" /\ Review(u, e, v)
  <2>1. PICK n \in DOMAIN proposals[e] : ApproveResolution(u, e, n, v) \/ RejectResolution(u, e, n, v)
    BY <1>9 DEF Review
  <2>2. CASE ApproveResolution(u, e, n, v)
    <3>1. /\ LockedException(e, v) /\ role[u] \in {"reviewer", "admin"} /\ status[e] = "pending_review"
          /\ n \in Undecided(e) /\ (\A m \in Undecided(e) : m <= n) /\ proposals[e][n].by # u
          /\ proposals[e][n].replacement # NoRun => ValidReplacement(e, proposals[e][n].replacement)
      BY <2>2 DEF ApproveResolution, DecidesProposal
    <3> QED
      BY <1>9, <2>1, <3>1 DEF MayAccept, Verdicts
  <2>3. CASE RejectResolution(u, e, n, v)
    <3>1. /\ LockedException(e, v) /\ role[u] \in {"reviewer", "admin"} /\ status[e] = "pending_review"
          /\ n \in Undecided(e) /\ (\A m \in Undecided(e) : m <= n) /\ proposals[e][n].by # u
      BY <2>3 DEF RejectResolution, DecidesProposal
    <3> QED
      BY <1>9, <2>1, <3>1 DEF MayAccept, Verdicts
  <2> QED
    BY <2>1, <2>2, <2>3
<1> QED
  BY <1>1, <1>2, <1>3, <1>4, <1>5, <1>6, <1>7, <1>8, <1>9 DEF Accepts

(* What is known of an exception shown on an up-to-date page.              *)
LEMMA UpToDateShows ==
  ASSUME ConsoleInv, NEW u \in Consoles, UpToDate(u)
  PROVE  /\ screen[u] # Blank /\ screen[u].exc = selected[u] /\ sessionRole[u] = role[u]
         /\ screen[u] \in Detail /\ selected[u] \in Exceptions /\ u \in Users
         /\ screen[u].status = status[selected[u]] /\ screen[u].owner = assignee[selected[u]]
         /\ screen[u].items = items[selected[u]] /\ screen[u].offered \subseteq Unadopted(selected[u])
         /\ screen[u].version = version[selected[u]] /\ version[selected[u]] < MaxVersion
  BY ConsoleAssumption DEF UpToDate, ConsoleInv, ScreenFits, RowFits, HistoryFits, Detail

LEMMA SubmittedFields ==
  ASSUME NEW u \in Consoles, NEW form \in Forms
  PROVE  /\ Submitted(u, form).user = u /\ Submitted(u, form).exc = selected[u]
         /\ Submitted(u, form).form = form /\ Submitted(u, form).shown = screen[u]
  BY DEF Submitted

(* A form that is shown meets the guards.                                  *)
LEMMA ShownFormsMeetGuards ==
  ASSUME ConsoleInv, PendingHasOneUndecided, SelectedExists, NEW u \in Consoles, UpToDate(u),
         NEW form \in FormsOf(u)
  PROVE  MayAccept(Submitted(u, form)) \/ RefusedOnly(u, form) \/ BeyondBound(u, form)
<1> DEFINE e == selected[u]
           d == screen[u]
<1>1. /\ d # Blank /\ d.exc = e /\ sessionRole[u] = role[u]
      /\ d \in Detail /\ e \in Exceptions /\ u \in Users
      /\ d.status = status[e] /\ d.owner = assignee[e]
      /\ d.items = items[e] /\ d.offered \subseteq Unadopted(e)
      /\ d.version = version[e] /\ version[e] < MaxVersion
  BY UpToDateShows
<1>2. form \in Forms
  BY DEF FormsOf
<1>3. /\ Submitted(u, form).user = u /\ Submitted(u, form).exc = e
      /\ Submitted(u, form).form = form /\ Submitted(u, form).shown = d
  BY <1>2, SubmittedFields
<1>4. LockedException(e, VersionSent(Submitted(u, form)))
  <2>1. Exists(e)
    BY DEF UpToDate, ConsoleInv, ScreenFits, SelectedExists
  <2> QED
    BY <1>1, <1>3, <2>1 DEF LockedException, VersionSent
<1> SUFFICES ASSUME ~RefusedOnly(u, form), ~BeyondBound(u, form) PROVE MayAccept(Submitted(u, form))
  OBVIOUS
<1>5. status[e] = "open" => assignee[e] = NoUser /\ NoUser \notin Users
  BY <1>1, WorkflowAssumption DEF ConsoleInv, OwnedUnlessOpen
<1>6. CASE form = "claim"
  <2>1. MayAssign(u, u) /\ Claimable(u, e) /\ ~(assignee[e] = u /\ status[e] = "investigating")
    BY <1>1, <1>5, <1>6 DEF FormsOf, Works, Reviews, MayAssign, Claimable
  <2> QED
    BY <1>1, <1>3, <1>4, <1>6, <2>1 DEF MayAccept
<1>7. CASE form = "assign"
  <2>1. PICK a \in Users : role[a] = "operator"
    BY <1>7 DEF RefusedOnly
  <2>2. MayAssign(u, a) /\ Claimable(a, e) /\ ~(assignee[e] = a /\ status[e] = "investigating")
    BY <1>1, <1>5, <1>7, <2>1 DEF FormsOf, Works, Reviews, MayAssign, Claimable
  <2> QED
    BY <1>3, <1>4, <1>7, <2>2 DEF MayAccept
<1>8. CASE Works(u)
  <2>1. OwnerInvestigates(e, u)
    BY <1>1, <1>8 DEF Works, OwnerInvestigates
  <2>2. CASE form = "release"
    BY <1>3, <1>4, <2>1, <2>2 DEF MayAccept
  <2>3. CASE form = "submit"
    BY <1>3, <1>4, <2>1, <2>3 DEF MayAccept, RefusedOnly
  <2>4. CASE form = "adopt"
    <3>1. PICK i \in d.offered : Normal(suggestions[e][i])
      BY <2>4 DEF RefusedOnly
    <3>2. ChosenSteps("rejected", Range(suggestions[e][i])) # {}
      BY DEF ChosenSteps
    <3> QED
      BY <1>1, <1>3, <1>4, <2>1, <2>4, <3>1, <3>2 DEF MayAccept
  <2>5. CASE form = "add_item"
    BY <1>3, <1>4, <2>1, <2>5 DEF MayAccept, BeyondBound
  <2>6. CASE form = "update_item"
    <3>1. d.items # {}
      BY <1>1, <2>6 DEF FormsOf
    <3> QED
      BY <1>1, <1>3, <1>4, <2>1, <2>6, <3>1 DEF MayAccept
  <2>7. CASE form = "note"
    <3>1. MayNote(u, e)
      BY <2>1 DEF OwnerInvestigates, MayNote
    <3> QED
      BY <1>3, <1>4, <2>7, <3>1 DEF MayAccept
  <2>8. form \notin {"claim", "assign"} => form # "decide"
    BY <1>1, <1>8 DEF FormsOf, Works, Reviews
  <2> QED
    BY <1>2, <1>6, <1>7, <2>2, <2>3, <2>4, <2>5, <2>6, <2>7, <2>8 DEF Forms
<1>9. CASE Reviews(u)
  <2>1. role[u] \in {"reviewer", "admin"} /\ status[e] = "pending_review"
    BY <1>1, <1>9 DEF Reviews
  <2>2. CASE form = "note"
    <3>1. MayNote(u, e)
      BY <2>1 DEF MayNote
    <3> QED
      BY <1>3, <1>4, <2>2, <3>1 DEF MayAccept
  <2>3. CASE form = "decide"
    <3> DEFINE n == Len(proposals[e])
    <3>1. Undecided(e) = {n} /\ n \in Nat
      BY <1>1, <2>1 DEF PendingHasOneUndecided, ConsoleInv, ConsoleTypeOK, TypeOK
    <3>2. n \in DOMAIN proposals[e] /\ n \in Undecided(e) /\ \A m \in Undecided(e) : m <= n
      BY <3>1 DEF Undecided
    <3>3. proposals[e][n].by # u
      BY <2>3 DEF RefusedOnly
    <3> QED
      BY <1>3, <1>4, <2>1, <2>3, <3>2, <3>3 DEF MayAccept, Verdicts
  <2> QED
    BY <1>1, <1>6, <1>7, <1>9, <2>1, <2>2, <2>3 DEF FormsOf, Works, Reviews
<1> QED
  BY <1>1, <1>6, <1>7, <1>8, <1>9 DEF FormsOf

(* A form that meets the guards is shown.                                  *)
LEMMA MissingFormsMissGuards ==
  ASSUME ConsoleInv, NEW u \in Consoles, UpToDate(u),
         NEW form \in Forms, MayAccept(Submitted(u, form))
  PROVE  form \in FormsOf(u) \/ ElsewhereOnly(u, form)
<1> DEFINE e == selected[u]
           d == screen[u]
<1>1. /\ d # Blank /\ d.exc = e /\ sessionRole[u] = role[u]
      /\ d \in Detail /\ e \in Exceptions /\ u \in Users
      /\ d.status = status[e] /\ d.owner = assignee[e] /\ d.items = items[e]
  BY UpToDateShows
<1>2. /\ Submitted(u, form).user = u /\ Submitted(u, form).exc = e
      /\ Submitted(u, form).form = form /\ Submitted(u, form).shown = d
  BY SubmittedFields
<1>3. status[e] \in Statuses /\ (status[e] = "open" <=> assignee[e] = NoUser) /\ NoUser \notin Users
  BY <1>1, WorkflowAssumption DEF ConsoleInv, ConsoleTypeOK, TypeOK, OwnedUnlessOpen
<1>4. ASSUME NEW a \in Users, form \in {"claim", "assign"}, form = "claim" => a = u,
             MayAssign(u, a), Claimable(a, e), ~(assignee[e] = a /\ status[e] = "investigating")
      PROVE  form \in FormsOf(u) \/ ElsewhereOnly(u, form)
  <2>1. status[e] = "open"
    BY <1>3, <1>4 DEF Claimable, Statuses
  <2> QED
    BY <1>1, <1>4, <2>1 DEF FormsOf, MayAssign, ElsewhereOnly, Forms
<1>5. CASE form = "note"
  BY <1>5 DEF ElsewhereOnly
<1>6. CASE form = "decide" /\ role[u] \in {"reviewer", "admin"} /\ status[e] = "pending_review"
  BY <1>1, <1>6 DEF FormsOf, Reviews
<1>7. CASE /\ OwnerInvestigates(e, u) /\ form \in {"release", "submit", "adopt", "add_item", "update_item"}
           /\ form = "adopt" => d.offered # {}
           /\ form = "update_item" => d.items # {}
  <2>1. Works(u)
    BY <1>1, <1>7 DEF Works, OwnerInvestigates
  <2> QED
    BY <1>1, <1>7, <2>1 DEF FormsOf
<1> QED
  BY <1>2, <1>4, <1>5, <1>6, <1>7 DEF MayAccept

(* For a form the page does not show, up to date as it is, the server      *)
(* takes no step, but for those named in ElsewhereOnly: the half of        *)
(* FormsFitServer that says nothing of ENABLED.                            *)
THEOREM MissingFormsAreRefused ==
  ASSUME ConsoleInv, NEW u \in Consoles, UpToDate(u),
         NEW form \in Forms, Accepts(Submitted(u, form))
  PROVE  form \in FormsOf(u) \/ ElsewhereOnly(u, form)
<1>1. Submitted(u, form) \in Post
  BY UpToDateShows DEF Submitted, Post
<1>2. MayAccept(Submitted(u, form))
  BY <1>1, AcceptedMeetsGuards DEF ConsoleInv
<1> QED
  BY <1>2, MissingFormsMissGuards

(* FormsFitServer with the guards of the handlers for ENABLED: on an       *)
(* up-to-date page a form is shown exactly when the server's guards let it *)
(* through in some way, but for what RefusedOnly and ElsewhereOnly name    *)
(* and the bound on checklists.                                            *)
FormsFitGuards ==
  \A u \in Consoles : UpToDate(u) =>
    \A form \in Forms :
      /\ form \in FormsOf(u) => MayAccept(Submitted(u, form)) \/ RefusedOnly(u, form) \/ BeyondBound(u, form)
      /\ MayAccept(Submitted(u, form)) => form \in FormsOf(u) \/ ElsewhereOnly(u, form)

(* The rules of the page and those of the handlers, written twice, agree   *)
(* for any members, roles, exceptions and bounds.                          *)
THEOREM FormsAlwaysFitGuards == ConsoleSpec => []FormsFitGuards
<1>1. ConsoleInv /\ SelectedExists /\ PendingHasOneUndecided => FormsFitGuards
  BY ShownFormsMeetGuards, MissingFormsMissGuards DEF FormsFitGuards
<1> QED
  BY <1>1, ConsoleAlways, SelectedAlwaysExists, ConsoleKeepsWorkflow, PendingAlwaysHasOneUndecided, PTL

=============================================================================
