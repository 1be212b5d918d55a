---------------------------- MODULE ReviewConsole ----------------------------
(***************************************************************************)
(* The exception page of the console (src/public/console/app.js) in front  *)
(* of ExceptionWorkflow.  Opening an exception selects it at once and      *)
(* renders its detail when the response arrives; getExceptionDetail reads  *)
(* the exception row first and its history in later statements.  Which     *)
(* forms appear follows from the detail and from the role the member had   *)
(* at login.  A form is posted to the selected exception with the version  *)
(* on screen, and its answer makes the page load everything again.         *)
(***************************************************************************)
EXTENDS ExceptionWorkflow

CONSTANTS
  Consoles,    \* members who use this page
  Blank,       \* nothing selected, nothing rendered
  MaxRequests  \* bound: detail requests and forms in flight

ASSUME ConsoleAssumption ==
  Consoles \subseteq Users /\ Blank \notin Exceptions /\ MaxRequests \in Nat

VARIABLES
  sessionRole, \* state.session.role, per console
  selected,    \* state.selectedExceptionId, per console
  screen,      \* what #exceptionDetail shows, per console
  fetches,     \* detail requests in flight
  posts,       \* submitted forms on their way
  reloads      \* accepted ones, and the exception to show again once all is loaded

pageVars == <<sessionRole, selected, screen>>
formVars == <<posts, reloads>>
consoleVars == <<pageVars, fetches, formVars>>
allVars == <<vars, consoleVars>>

Forms == {"claim", "assign", "release", "note", "submit", "adopt", "add_item", "update_item", "decide"}
\* the detail of an exception: its row; its newest proposal, the suggestions
\* without an adoption and the checklist
Detail == [exc : Exceptions, version : Nat, status : Statuses, owner : Users \cup {NoUser},
           newest : Nat, offered : SUBSET Nat, items : SUBSET Item]
Unread(e) == [exc |-> e, version |-> 0, status |-> "open", owner |-> NoUser,
              newest |-> 0, offered |-> {}, items |-> {}]
Fetch == [user : Consoles, stage : {"sent", "row_read", "answered"}, detail : Detail]
Post == [user : Consoles, exc : Exceptions, form : Forms, shown : Detail]
\* Blank: the answer is on its way
Reload == [user : Consoles, exc : Exceptions \cup {Blank}]

ConsoleTypeOK ==
  /\ TypeOK
  /\ sessionRole \in [Consoles -> Roles]
  /\ selected \in [Consoles -> Exceptions \cup {Blank}]
  /\ screen \in [Consoles -> Detail \cup {Blank}]
  /\ fetches \subseteq Fetch
  /\ posts \subseteq Post
  /\ reloads \subseteq Reload

ConsoleInit ==
  /\ Init
  /\ sessionRole = [u \in Consoles |-> role[u]]
  /\ selected = [u \in Consoles |-> Blank]
  /\ screen = [u \in Consoles |-> Blank]
  /\ fetches = {}
  /\ posts = {} /\ reloads = {}

-----------------------------------------------------------------------------
(* Showing an exception.                                                   *)

Connected == Cardinality(fetches) + Cardinality(posts) + Cardinality(reloads) < MaxRequests

(* showExceptionDetail up to its await.                                    *)
Shows(u, e) ==
  /\ Connected
  /\ selected' = [selected EXCEPT ![u] = e]
  /\ fetches' = fetches \cup {[user |-> u, stage |-> "sent", detail |-> Unread(e)]}
  /\ UNCHANGED <<vars, sessionRole, screen>>

(* A click on a row of the list.                                           *)
Open(u, e) == Exists(e) /\ Shows(u, e) /\ UNCHANGED formVars

Advance(f, stage, detail) ==
  /\ fetches' = (fetches \ {f}) \cup {[f EXCEPT !.stage = stage, !.detail = detail]}
  /\ UNCHANGED <<vars, pageVars, formVars>>

(* getExceptionDetail's first statement.                                   *)
ReadRow(f) ==
  LET e == f.detail.exc IN
  /\ f.stage = "sent"
  /\ Advance(f, "row_read",
       [f.detail EXCEPT !.version = version[e], !.status = status[e], !.owner = assignee[e]])

Unadopted(e) == {i \in DOMAIN suggestions[e] : ~\E a \in adoptions[e] : a.suggestion = i}

(* Its later statements.                                                   *)
ReadHistory(f) ==
  LET e == f.detail.exc IN
  /\ f.stage = "row_read"
  /\ Advance(f, "answered",
       [f.detail EXCEPT !.newest = Len(proposals[e]), !.offered = Unadopted(e), !.items = items[e]])

(* showExceptionDetail after its await.                                    *)
Render(f) ==
  /\ f.stage = "answered"
  /\ screen' = [screen EXCEPT ![f.user] = f.detail]
  /\ fetches' = fetches \ {f}
  /\ UNCHANGED <<vars, sessionRole, selected, formVars>>

(* The request fails: a notice appears, selection and screen stay.         *)
LoseFetch(f) ==
  /\ fetches' = fetches \ {f}
  /\ UNCHANGED <<vars, pageVars, formVars>>

(* Signing out reloads the page; a login remembers the role of the moment. *)
SignIn(u) ==
  /\ sessionRole' = [sessionRole EXCEPT ![u] = role[u]]
  /\ selected' = [selected EXCEPT ![u] = Blank]
  /\ screen' = [screen EXCEPT ![u] = Blank]
  /\ fetches' = {f \in fetches : f.user # u}
  /\ reloads' = {r \in reloads : r.user # u}
  /\ UNCHANGED <<vars, posts>>

-----------------------------------------------------------------------------
(* The forms.                                                              *)

(* Mistake: the forms of the owner appear to every operator.               *)
WorksAsAny(u) == screen[u].status = "investigating" /\ sessionRole[u] = "operator"
Works(u) == screen[u].status = "investigating" /\ screen[u].owner = u /\ sessionRole[u] = "operator"
Reviews(u) == screen[u].status = "pending_review" /\ sessionRole[u] \in {"reviewer", "admin"}

FormsOf(u) ==
  LET d == screen[u] IN
  IF d = Blank THEN {}
  ELSE {f \in Forms :
    \/ f = "claim" /\ d.status = "open" /\ sessionRole[u] = "operator"
    \/ f = "assign" /\ d.status = "open" /\ sessionRole[u] = "admin"
    \/ f \in {"release", "submit", "add_item"} /\ Works(u)
    \/ f = "adopt" /\ d.offered # {} /\ Works(u)
    \/ f = "update_item" /\ d.items # {} /\ Works(u)
    \/ f = "note" /\ (Works(u) \/ Reviews(u))
    \/ f = "decide" /\ Reviews(u)}

Submitted(u, form) ==
  [user |-> u, exc |-> selected[u], form |-> form, shown |-> screen[u]]

(* exceptionMutation with currentWorkflowVersion.                          *)
Click(u, form) ==
  /\ form \in FormsOf(u)
  /\ Connected
  /\ posts' = posts \cup {Submitted(u, form)}
  /\ UNCHANGED <<vars, pageVars, fetches, reloads>>

(* Mistake: the version is looked up again when the form is submitted.     *)
LatestVersion(p) == version[p.exc]
VersionSent(p) == p.shown.version

(* The server does what the form says.  A suggestion or an item named by   *)
(* the form belongs to the exception that was shown.                       *)
Accepts(p) ==
  LET u == p.user  e == p.exc  v == VersionSent(p) IN
  \/ p.form = "claim" /\ ClaimException(u, u, e, v)
  \/ p.form = "assign" /\ \E a \in Users : ClaimException(u, a, e, v)
  \/ p.form = "release" /\ ReleaseException(u, e, v)
  \/ p.form = "note" /\ AddExceptionNote(u, e, v)
  \/ p.form = "submit" /\ \E r \in Runs \cup {NoRun} : SubmitResolution(u, e, r, v)
  \/ /\ p.form = "adopt" /\ e = p.shown.exc
     /\ \E i \in p.shown.offered, d \in {"accepted", "partially_accepted", "rejected"} :
          AdoptAiSuggestion(u, e, i, d, v)
  \/ p.form = "add_item" /\ \E required \in BOOLEAN : AddInvestigationItem(u, e, required, v)
  \/ /\ p.form = "update_item" /\ e = p.shown.exc
     /\ \E i \in p.shown.items, new \in ItemStatuses : UpdateInvestigationItem(u, e, i, new, v)
  \/ p.form = "decide" /\ Review(u, e, v)

Arrive(p) ==
  /\ Accepts(p)
  /\ posts' = posts \ {p}
  /\ reloads' = reloads \cup {[user |-> p.user, exc |-> Blank]}
  /\ UNCHANGED <<pageVars, fetches>>

(* The form is refused or lost: a notice appears.                          *)
LosePost(p) == posts' = posts \ {p} /\ UNCHANGED <<vars, pageVars, fetches, reloads>>

(* refreshSelectedException up to loadAll, when the answer arrives.        *)
Refresh(r) ==
  /\ r.exc = Blank /\ selected[r.user] # Blank
  /\ reloads' = (reloads \ {r}) \cup {[r EXCEPT !.exc = selected[r.user]]}
  /\ UNCHANGED <<vars, pageVars, fetches, posts>>

(* Its end: what was selected before loadAll is selected again.            *)
ShowAgain(r) ==
  /\ r.exc # Blank
  /\ Shows(r.user, r.exc)
  /\ reloads' = reloads \ {r} /\ UNCHANGED posts

(* The answer of an accepted form is lost.                                 *)
LoseAnswer(r) == r.exc = Blank /\ reloads' = reloads \ {r} /\ UNCHANGED <<vars, pageVars, fetches, posts>>

(* The work of others, through whichever client.                           *)
Elsewhere ==
  /\ \/ Environment
     \/ \E u \in Users \ Consoles, e \in Exceptions, expected \in 0..MaxVersion :
          Work(u, e, expected) \/ Review(u, e, expected)
  /\ UNCHANGED consoleVars

ConsoleNext ==
  \/ Elsewhere
  \/ \E u \in Consoles :
       \/ SignIn(u)
       \/ \E e \in Exceptions : Open(u, e)
       \/ \E form \in Forms : Click(u, form)
  \/ \E f \in fetches : ReadRow(f) \/ ReadHistory(f) \/ Render(f) \/ LoseFetch(f)
  \/ \E p \in posts : Arrive(p) \/ LosePost(p)
  \/ \E r \in reloads : Refresh(r) \/ ShowAgain(r) \/ LoseAnswer(r)

ConsoleSpec == ConsoleInit /\ [][ConsoleNext]_allVars

-----------------------------------------------------------------------------

\* the posts that this step accepts
Accepted == {p \in posts \ posts' : reloads' # reloads}

(* A form posted to the exception it was shown with meets that exception   *)
(* as it was shown: row, proposals, checklist and open suggestions, but    *)
(* for suggestions that came since.  The detail was put together from      *)
(* several statements, rendered late and submitted later still; whatever   *)
(* came or went in between has moved the version.                          *)
ActsOnWhatIsShown ==
  [][\A p \in Accepted : p.shown.exc = p.exc =>
       LET e == p.exc  d == p.shown IN
       /\ d.status = status[e] /\ d.owner = assignee[e]
       /\ d.newest = Len(proposals[e]) /\ d.items = items[e] /\ d.offered \subseteq Unadopted(e)]_allVars

(* A decision concerns the exception on the screen of the member who took  *)
(* it: the workflow "records reviewed human conclusions".                  *)
DecidesShownException ==
  [][\A p \in Accepted : p.form = "decide" => p.shown.exc = p.exc]_allVars

\* the page shows the selected exception as it is, to the role the member has
UpToDate(u) ==
  /\ screen[u] # Blank /\ selected[u] = screen[u].exc
  /\ screen[u].version = version[selected[u]] /\ version[selected[u]] < MaxVersion
  /\ sessionRole[u] = role[u]

\* what the page does not know or does not look at
RefusedOnly(u, form) ==
  LET e == selected[u]  newest == Len(proposals[e]) IN
  \/ form = "assign" /\ \A a \in Users : role[a] # "operator"
  \/ form = "submit" /\ OpenRequiredItems(e) # {}
  \/ form = "decide" /\ proposals[e][newest].by = u
  \/ form = "adopt" /\ \A i \in screen[u].offered : ~Normal(suggestions[e][i])

\* a bound of the model, and no refusal of the server
BeyondBound(u, form) == form = "add_item" /\ ~(Cardinality(items[selected[u]]) < MaxItems)

\* what the page leaves out; an operator who assigns to itself is claiming
ElsewhereOnly(u, form) == form = "note" \/ (form = "assign" /\ "claim" \in FormsOf(u))

(* Page and server agree on who may do what: on an up-to-date page every   *)
(* form is one the server accepts in some way, and a form is missing only  *)
(* if the server would refuse it.  The page goes beyond the server for an  *)
(* assignment while there is no operator, an unfinished checklist, one's   *)
(* own proposal and a malformed suggestion, and leaves out the notes of    *)
(* admins and of the owner of an exception under review.                   *)
FormsFitServer ==
  \A u \in Consoles : UpToDate(u) =>
    \A form \in Forms :
      LET accepted == ENABLED Accepts(Submitted(u, form)) IN
      /\ form \in FormsOf(u) => accepted \/ RefusedOnly(u, form) \/ BeyondBound(u, form)
      /\ accepted => form \in FormsOf(u) \/ ElsewhereOnly(u, form)
===============================================================================
