---------------------------- MODULE AiSuggestion ----------------------------
(***************************************************************************)
(* POST ai-suggestions (src/server.mjs, generateExceptionSuggestion of     *)
(* src/ai-suggestion-service.mjs, complete of src/ai-service.mjs) in front *)
(* of ExceptionWorkflow: session and role are looked up, evidence is read, *)
(* the provider is asked for as long as it takes, and a suggestion is      *)
(* stored at last, while the workflow goes on.  ExceptionWorkflow has only *)
(* the last of these steps.                                                *)
(***************************************************************************)
EXTENDS ExceptionWorkflow

CONSTANT Asks \* places for requests

(* The bound on suggestions is wide enough for every request.              *)
ASSUME AskAssumption == IsFiniteSet(Asks) /\ Cardinality(Asks) <= MaxSuggestions

VARIABLES
  sessions, \* members whose session is neither revoked nor expired
  ask,      \* what each request is for, by whom, and how far it has come
  evidence, \* what it has read
  reply,    \* the nextSteps of the parsed suggestion
  told      \* what its client was told

askVars == <<ask, evidence, reply, told>>
aiVars == <<vars, sessions, askVars>>

AllowedRoles == {"operator", "reviewer"}
Ask == [by : Users, exc : Exceptions,
        at : {"idle", "received", "authenticated", "authorized", "asking", "body", "parsed",
              "answered", "crashed"}]
\* row and member: read or not; version, open and allowed: what they said
Evidence == [row : BOOLEAN, member : BOOLEAN, version : Nat, found : BOOLEAN, open : BOOLEAN, allowed : BOOLEAN]
Nothing == [row |-> FALSE, member |-> FALSE, version |-> 0, found |-> FALSE, open |-> FALSE, allowed |-> FALSE]
\* refused: 400 to 404; provider_error: a timeout, a failure or an invalid response of the provider
Answers == {"nothing", "refused", "provider_error", "stored", "stale", "failed"}
InServer == {"received", "authenticated", "authorized", "asking", "body", "parsed"}

AiTypeOK ==
  /\ TypeOK
  /\ sessions \subseteq Users
  /\ ask \in [Asks -> Ask]
  /\ evidence \in [Asks -> Evidence]
  /\ reply \in [Asks -> Replies \cup {<<>>}]
  /\ told \in [Asks -> Answers]

AiInit ==
  /\ Init
  /\ ask \in [Asks -> {x \in Ask : x.at = "idle"}]
  /\ sessions = {ask[a].by : a \in Asks}
  /\ evidence = [a \in Asks |-> Nothing]
  /\ reply = [a \in Asks |-> <<>>]
  /\ told = [a \in Asks |-> "nothing"]

-----------------------------------------------------------------------------

Goes(a, from, to) ==
  /\ ask[a].at = from
  /\ ask' = [ask EXCEPT ![a].at = to]
  /\ UNCHANGED sessions
(* A step of the handler before it stores anything, and its answer.        *)
Continues(a, from, to) == Goes(a, from, to) /\ UNCHANGED <<vars, told>>
Answered(a, from, what) ==
  /\ Goes(a, from, "answered")
  /\ told' = [told EXCEPT ![a] = what]
  /\ evidence' = [evidence EXCEPT ![a] = Nothing]
  /\ reply' = [reply EXCEPT ![a] = <<>>]
Refused(a, from, what) == Answered(a, from, what) /\ UNCHANGED vars

(* Logout, or the session expires.                                         *)
SessionEnds(u) == u \in sessions /\ sessions' = sessions \ {u} /\ UNCHANGED <<vars, askVars>>

Receive(a) == Continues(a, "idle", "received") /\ UNCHANGED <<evidence, reply>>

(* requireIdentity: authenticateSession, then authorizeRequest.            *)
Authenticate(a) ==
  \/ /\ ask[a].by \in sessions
     /\ Continues(a, "received", "authenticated") /\ UNCHANGED <<evidence, reply>>
  \/ ask[a].by \notin sessions /\ Refused(a, "received", "refused")

MayAsk(a) == ask[a].by \in sessions /\ role[ask[a].by] \in AllowedRoles
Authorize(a) ==
  \/ MayAsk(a) /\ Continues(a, "authenticated", "authorized") /\ UNCHANGED <<evidence, reply>>
  \/ ~MayAsk(a) /\ Refused(a, "authenticated", "refused")

(* loadMinimizedEvidence: two queries at once.                             *)
ReadException(a) ==
  LET e == ask[a].exc IN
  /\ ~evidence[a].row /\ Continues(a, "authorized", "authorized")
  /\ evidence' = [evidence EXCEPT ![a] =
       [@ EXCEPT !.row = TRUE, !.version = version[e], !.found = Exists(e), !.open = status[e] # "resolved"]]
  /\ UNCHANGED reply
ReadMember(a) ==
  /\ ~evidence[a].member /\ Continues(a, "authorized", "authorized")
  /\ evidence' = [evidence EXCEPT ![a] = [@ EXCEPT !.member = TRUE, !.allowed = role[ask[a].by] \in AllowedRoles]]
  /\ UNCHANGED reply

(* Both have answered, and the provider is sent the evidence.              *)
Consult(a) ==
  LET known == evidence[a] IN
  /\ known.row /\ known.member
  /\ \/ /\ known.found /\ known.allowed /\ known.open
        /\ Continues(a, "authorized", "asking") /\ UNCHANGED <<evidence, reply>>
     \/ ~(known.found /\ known.allowed /\ known.open) /\ Refused(a, "authorized", "refused")

-----------------------------------------------------------------------------
(* complete: the timer runs until the headers of the answer arrive.        *)

(* Mistake: the timer is started when the headers have arrived.            *)
TimesOutInBody(a) == Refused(a, "body", "provider_error")
TimesOut(a) == Refused(a, "asking", "provider_error")

ProviderFails(a) == Refused(a, "asking", "provider_error")
HeadersArrive(a) == Continues(a, "asking", "body") /\ UNCHANGED <<evidence, reply>>

(* parseSuggestion: nextSteps are strings that are not empty, and may repeat.*)
Parses(a) == \E steps \in Replies : reply' = [reply EXCEPT ![a] = steps]

(* The body ends, and is or is not JSON that parseSuggestion accepts.      *)
BodyArrives(a) ==
  \/ Refused(a, "body", "provider_error")
  \/ Continues(a, "body", "parsed") /\ UNCHANGED evidence /\ Parses(a)

-----------------------------------------------------------------------------

(* Mistake: the transaction finds the exception again, at whatever version.*)
Anyway(a) == TRUE
Unchanged(a) == version[ask[a].exc] = evidence[a].version

Writes(a) ==
  LET e == ask[a].exc IN
  /\ suggestions' = [suggestions EXCEPT ![e] = Append(@, reply[a])]
  /\ UNCHANGED <<runVars, rowVars, version, reviewVars, checklistVars, trail>>

(* Mistake: a transaction whose COMMIT was not confirmed is run again.     *)
StoresTwice(a) ==
  LET e == ask[a].exc IN
  /\ Unchanged(a) /\ Answered(a, "parsed", "stored")
  /\ suggestions' = [suggestions EXCEPT ![e] = @ \o <<reply[a], reply[a]>>]
  /\ UNCHANGED <<runVars, rowVars, version, reviewVars, checklistVars, trail>>

(* The transaction, under the lock of the exception row.                   *)
Store(a) ==
  \/ Unchanged(a) /\ Answered(a, "parsed", "stored") /\ Writes(a)
  \/ ~Unchanged(a) /\ Refused(a, "parsed", "stale")

(* The connection is lost at a COMMIT that took effect.                    *)
CommitLost(a) == Unchanged(a) /\ Answered(a, "parsed", "failed") /\ Writes(a)

(* A query of the handler fails.                                           *)
QueryFails(a) ==
  /\ ask[a].at \in {"received", "authenticated", "authorized", "parsed"}
  /\ Refused(a, ask[a].at, "failed")

(* The server dies; a COMMIT on its way may still be done.                 *)
Dies ==
  /\ \E a \in Asks : ask[a].at \in InServer
  /\ ask' = [a \in Asks |-> IF ask[a].at \in InServer THEN [ask[a] EXCEPT !.at = "crashed"] ELSE ask[a]]
  /\ evidence' = [a \in Asks |-> Nothing] /\ reply' = [a \in Asks |-> <<>>]
  /\ \/ UNCHANGED vars
     \/ \E a \in Asks : ask[a].at = "parsed" /\ Unchanged(a) /\ Writes(a)
  /\ UNCHANGED <<sessions, told>>

(* The workflow goes on.                                                   *)
Meanwhile ==
  /\ \/ \E r \in Runs : CompleteRun(r) \/ FailRun(r)
     \/ \E u \in Users, x \in Roles : ChangeRole(u, x)
     \/ \E u \in Users, e \in Exceptions, expected \in 0..MaxVersion : Work(u, e, expected) \/ Review(u, e, expected)
  /\ UNCHANGED <<sessions, askVars>>

Handles(a) ==
  Authenticate(a) \/ Authorize(a) \/ ReadException(a) \/ ReadMember(a) \/ Consult(a) \/ Store(a)

AiNext ==
  \/ Meanwhile
  \/ \E u \in Users : SessionEnds(u)
  \/ \E a \in Asks :
       \/ Receive(a) \/ Handles(a) \/ TimesOut(a) \/ ProviderFails(a) \/ HeadersArrive(a) \/ BodyArrives(a)
       \/ CommitLost(a) \/ QueryFails(a)
  \/ Dies

(* The process executes its handlers and its timers, and the database its  *)
(* statements; nothing makes the provider answer or finish an answer.      *)
AiFairness == \A a \in Asks : WF_aiVars(Handles(a)) /\ WF_aiVars(TimesOut(a))

AiSpec == AiInit /\ [][AiNext]_aiVars /\ AiFairness

-----------------------------------------------------------------------------

(* The workflow with suggestions that take their time is the workflow of   *)
(* ExceptionWorkflow: the status of the evidence and of the exception is   *)
(* compared by version alone, and no suggestion reaches a resolved         *)
(* exception, nor changes anything else of it.                             *)
ImplementsWorkflow == Spec

OfExc(e, answers) == {a \in Asks : ask[a].exc = e /\ ask[a].at \in {"answered", "crashed"} /\ told[a] \in answers}

(* "Provider failures and invalid responses create no audit event": each   *)
(* suggestion in the audit log is that of one request that was told so, or *)
(* that lost its connection or its server at the end; no request stores    *)
(* more than one or is told of one that is not there.                      *)
SuggestionsAreAccounted ==
  \A e \in Exceptions :
    /\ Cardinality(OfExc(e, {"stored"})) <= Len(suggestions[e])
    /\ Len(suggestions[e]) <= Cardinality(OfExc(e, {"stored", "failed", "nothing"}))

(* A request ends, whatever the provider does, or the body of an answer is *)
(* under way: no timer covers that.                                        *)
AsksEnd == \A a \in Asks : ask[a].at = "received" ~> ask[a].at \in {"answered", "crashed", "body"}
===============================================================================
