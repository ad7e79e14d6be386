-------------------------------- MODULE Desk --------------------------------
(***************************************************************************)
(* The desk of a user of the company: the pages a company, a manager and   *)
(* an employee read (requests/service.py, human_actions/service.py,        *)
(* departments/service.py, dashboard/service.py), what each page offers to *)
(* do, and what the handler behind each offer decides once the click       *)
(* arrives (requests/permissions.py, human_actions/service.py and the      *)
(* resume of workflow/service.py).  A page is a snapshot: it stays on the  *)
(* screen while the request moves through its workflow and between         *)
(* departments, while managers are moved and while others answer first.    *)
(* One request is followed, from the message to the assistant that creates *)
(* it (assistant/service.py).  Its run is the environment: RequestProgress *)
(* takes the checkpoints RequestLifecycle models to the few fields a page  *)
(* reads.                                                                  *)
(***************************************************************************)
EXTENDS Naturals, FiniteSets

CONSTANTS Company,      \* the company's own account
          Managers,     \* accounts of type department_manager
          Staff,        \* accounts of type employee
          Requester,    \* the account that created the request
          Departments,
          Actions,      \* ids of human actions
          MaxLoads,     \* pages loaded, all users together
          Nothing

Users == {Company} \cup Managers \cup Staff

VARIABLES request,   \* the row of the request
          action,    \* the rows of its human actions
          place,     \* the department each manager belongs to
          page,      \* what each user has on the screen
          accepted,  \* the users whose response each action took (history)
          loads      \* pages loaded so far

deskVars == <<request, action, place, page, accepted, loads>>

Ended == {"completed", "cancelled"}      \* failed and rejected as completed
Statuses == {"absent", "created", "routing", "processing", "waiting_for_department"} \cup Ended

Roles == {"department_manager", "employee"}
NoAction == [status |-> "none", user |-> Nothing, role |-> Nothing]

\* What a page offers: to open, cancel or answer the request, to review an
\* action (the link to its page) or to respond to it; on the page of an action, to
\* follow the link to its request; and, on the assistant's page, to say more.
OnRequest == {<<v, "request">> : v \in {"open", "follow", "cancel", "answer", "say"}}
OnActions == {<<v, a>> : v \in {"review", "respond"}, a \in Actions}
Offers == OnRequest \cup OnActions

ASSUME DeskAssumption ==
    /\ Requester \in Users
    /\ MaxLoads \in Nat
    /\ Nothing \notin Users /\ Nothing \notin Departments
    /\ Nothing \notin Roles /\ Nothing \notin Offers

\* The steps of a click: a page being loaded, a click being handled, and the
\* answers of the server.
Kinds == {"blank", "list", "opening", "detail", "form", "chat", "sending", "checked", "refused"}
Blank == [kind |-> "blank", offers |-> {}, moved |-> {}, click |-> Nothing]

-----------------------------------------------------------------------------
(* Who sees and does what                                                  *)

Privileged(u) == u = Company \/ u \in Managers

\* The condition of a list that is asked for by department.
InDepartment(m) == place[m] \in {request.owner, request.active}

\* can_view_business_request; repository.list narrows a list to the same rows.
CanView(u) ==
    /\ request.status # "absent"
    /\ u = Company \/ u = Requester \/ (u \in Managers /\ InDepartment(u))

\* _request_scope: unlike CanView it forgets that a manager may be the requester.
DashboardScope(u) == IF u \in Managers THEN InDepartment(u) ELSE CanView(u)

\* (mutant) the role of an action opens it to nobody
Bug_OnlyTheirOwn(u, a) == u = Company \/ action[a].user = u \/ u = Requester

\* HumanActionService._can_view: a role opens the action to every manager.
CanViewAction(u, a) ==
    \/ u = Company
    \/ action[a].user = u
    \/ action[a].role # Nothing /\ (u \in Managers \/ (u \in Staff /\ action[a].role = "employee"))
    \/ u = Requester

CanRespond(u, a) == action[a].status = "pending" /\ (Privileged(u) \/ action[a].user = u)

CanCancel == request.status \notin Ended
\* _authorize_control(allow_requester=True) repeats CanView.
CanAnswer(u) == CanView(u) /\ request.status \notin Ended /\ request.asking

Reviews(As) == {<<"review", a>> : a \in As}

-----------------------------------------------------------------------------
(* What each page offers                                                   *)

OpensIf(seen) == IF seen THEN {<<"open", "request">>} ELSE {}

\* BusinessRequestService.list
RequestsPage(u) == OpensIf(CanView(u))

\* The actions of _action_scope, of which the cards show the pending ones.
ActionScope(u) ==
    {a \in Actions : IF u \in Managers THEN DashboardScope(u)
                     ELSE u = Company \/ action[a].user = u}
PendingCards(u) == {a \in ActionScope(u) : action[a].status = "pending"}
DashboardPage(u) == OpensIf(DashboardScope(u)) \cup Reviews(PendingCards(u))

\* HumanActionRepository.list: every condition that is given must hold.
Listed(user, role) ==
    {a \in Actions : /\ action[a].status # "none"
                     /\ user # Nothing => action[a].user = user
                     /\ role # Nothing => action[a].role = role}

\* list_raw: a manager's inbox asks for the role and for the person.
InboxPage(u) == Reviews(Listed(IF u = Company THEN Nothing ELSE u,
                               IF u \in Managers THEN "department_manager" ELSE Nothing))

\* The workspace of the departments that own the request or work on it: a manager
\* enters that of his own, the company every one, an employee sees what is his.
Enters(u) == request.owner # Nothing /\ (u \in Managers => InDepartment(u))
WorkspaceRequests(u) == OpensIf(Enters(u) /\ CanView(u))
WorkspaceActions(u) ==
    Reviews({a \in Listed(Nothing, Nothing) :
        /\ Enters(u)
        /\ u \in Staff => (u = Requester \/ action[a].user = u)})

\* get_detail reads the request first: cancel for whom _present_summaries
\* finds it open, the question whenever the document still holds one.
DetailPage ==
    {o \in OnRequest : \/ o[1] = "cancel" /\ CanCancel
                       \/ o[1] = "answer" /\ request.asking}

\* _connected_actions, a later statement of the same page.
ConnectedActions(u) == Reviews({a \in Actions : CanRespond(u, a)})

-----------------------------------------------------------------------------
(* The screens                                                             *)

\* What a handler reads to decide a click; a change there is what a page
\* cannot know of.
DecidedBy(u, o) ==
    CASE o \in OnActions -> {o[2]}
      [] o \in OnRequest -> {"request"} \cup (IF u \in Managers THEN {"place"} ELSE {})

\* What the screen of u, as it now is, depends on.
DependsOn(u) ==
    (UNION {DecidedBy(u, o) : o \in page[u].offers})
    \cup (IF page[u].click = Nothing THEN {} ELSE DecidedBy(u, page[u].click))

\* The things in S change under the screen of u.
Older(u, S) ==
    IF page[u].kind = "refused" THEN page[u]
    ELSE [page[u] EXCEPT !.moved = @ \cup (S \cap DependsOn(u))]

Show(u, kind, offers) ==
    page' = [page EXCEPT ![u] = [kind |-> kind, offers |-> offers, moved |-> {}, click |-> Nothing]]

Refuse(u) == page' = [page EXCEPT ![u].kind = "refused"]

Busy(u) == page[u].kind \in {"opening", "checked", "sending"}

\* One of the lists, the dashboard, the inbox or the workspace, in place of
\* whatever was on the screen.
Load(u) ==
    /\ loads < MaxLoads
    /\ ~Busy(u)
    /\ \E offers \in {RequestsPage(u), DashboardPage(u), InboxPage(u),
                      WorkspaceRequests(u), WorkspaceActions(u)} :
          offers # {} /\ Show(u, "list", offers)
    /\ loads' = loads + 1
    /\ UNCHANGED <<request, action, place, accepted>>

Click(u, verb) == {o \in page[u].offers : ~Busy(u) /\ page[u].kind # "refused" /\ o[1] = verb}

\* get_detail: _get_visible, then the offers of the row it read; what moved
\* is counted from here on.
Open(u) ==
    /\ \E o \in Click(u, "open") \cup Click(u, "follow") :
          IF CanView(u) THEN Show(u, "opening", DetailPage)
          ELSE page' = [page EXCEPT ![u].kind = "refused", ![u].click = o]
    /\ UNCHANGED <<request, action, place, accepted, loads>>

LoadActions(u) ==
    /\ page[u].kind = "opening"
    /\ page' = [page EXCEPT ![u].kind = "detail", ![u].offers = @ \cup ConnectedActions(u)]
    /\ UNCHANGED <<request, action, place, accepted, loads>>

\* get_public: the page of one action, with a link to its request, whoever may
\* see that, and its form when it may be answered.
Review(u) ==
    /\ \E o \in Click(u, "review") :
          IF CanViewAction(u, o[2])
          THEN Show(u, "form", {<<"follow", "request">>}
                                 \cup (IF CanRespond(u, o[2]) THEN {<<"respond", o[2]>>} ELSE {}))
          ELSE page' = [page EXCEPT ![u].kind = "refused", ![u].click = o]
    /\ UNCHANGED <<request, action, place, accepted, loads>>

-----------------------------------------------------------------------------
(* The handlers of the clicks                                              *)

Check(u, o, ok) ==
    page' = [page EXCEPT ![u].kind = IF ok THEN "checked" ELSE "refused", ![u].click = o]

\* submit: the action is read and judged without a lock,
RespondRead(u) ==
    /\ \E o \in Click(u, "respond") : Check(u, o, CanViewAction(u, o[2]) /\ CanRespond(u, o[2]))
    /\ UNCHANGED <<request, action, place, accepted, loads>>

\* (mutant) the update names the action by its id alone
Bug_NotCompared(a) == action[a].status # "none"

\* and its update repeats that the row is pending.
StillPending(a) == action[a].status = "pending"

RespondWrite(u) ==
    /\ page[u].kind = "checked" /\ page[u].click[1] = "respond"
    /\ LET a == page[u].click[2] IN
       IF StillPending(a)
       THEN /\ action' = [action EXCEPT ![a].status = "resolved"]
            /\ accepted' = [accepted EXCEPT ![a] = @ \cup {u}]
            /\ page' = [v \in Users |-> IF v = u THEN Blank ELSE Older(v, {a})]
       ELSE Refuse(u) /\ UNCHANGED <<action, accepted>>
    /\ UNCHANGED <<request, place, loads>>

\* cancel: read and judged without a lock, then written unconditionally; a
\* failed transaction answers with an error and changes nothing.
CancelRead(u) ==
    /\ \E o \in Click(u, "cancel") : Check(u, o, CanView(u) /\ CanCancel)
    /\ UNCHANGED <<request, action, place, accepted, loads>>

\* The status only: the document keeps its question, the actions their status.
Cancelled == [request EXCEPT !.status = "cancelled"]

\* The assistant's page stays and waits for the response; another page is left.
AfterClick(u) ==
    IF page[u].kind = "chat" THEN [Older(u, {"request"}) EXCEPT !.kind = "sending"] ELSE Blank

Wrote(u, r) ==
    /\ request' = r
    /\ page' = [v \in Users |-> IF v = u THEN AfterClick(u) ELSE Older(v, {"request"})]
    /\ UNCHANGED <<action, place, accepted, loads>>

CancelWrite(u) ==
    /\ page[u].kind = "checked" /\ page[u].click[1] = "cancel"
    /\ Wrote(u, Cancelled)

\* resume_for_requester holds the row lock from its check to its commit.
Answer(u) ==
    \E o \in Click(u, "answer") \cup Click(u, "say") :
       IF CanAnswer(u) THEN Wrote(u, [request EXCEPT !.asking = FALSE])
       ELSE Check(u, o, FALSE) /\ UNCHANGED <<request, action, place, accepted, loads>>

-----------------------------------------------------------------------------
(* The assistant                                                           *)

\* The page of the assistant, without a request yet.
Chat(u) ==
    /\ u = Requester /\ request.status = "absent"
    /\ loads < MaxLoads /\ ~Busy(u)
    /\ Show(u, "chat", {})
    /\ loads' = loads + 1
    /\ UNCHANGED <<request, action, place, accepted>>

\* AssistantService.handle, a message that is neither a question about the platform
\* nor unsupported: the request is created in a transaction of its own, and
\* started in another.
Submit(u) ==
    /\ page[u].kind = "chat" /\ page[u].offers = {} /\ request.status = "absent"
    /\ Wrote(u, [request EXCEPT !.status = "created"])

\* The response names the request the next message is sent to: activeRequestId is set
\* by every response that names one, and cleared by none.
ChatPage == {<<"open", "request">>, <<IF request.asking THEN "answer" ELSE "say", "request">>}

\* The run that the message began is over; or it failed, or the answer is lost: then
\* the page stays as it was, after a first message without a request.
Hear(u) ==
    /\ page[u].kind = "sending" /\ request.status # "created"
    /\ Show(u, "chat", ChatPage)
    /\ UNCHANGED <<request, action, place, accepted, loads>>

HearError(u) ==
    /\ page[u].kind = "sending"
    /\ page' = [page EXCEPT ![u].kind = "chat"]
    /\ UNCHANGED <<request, action, place, accepted, loads>>

-----------------------------------------------------------------------------
(* The rest of the company                                                 *)

\* The checkpoints of the request's run: routed, with or without a question,
\* lent to another department and back, and ended from wherever it works.
\* While a question is open it stands still.
Checkpoint ==
    \/ request.status = "created" /\ request' = [request EXCEPT !.status = "routing"]
    \/ request.status = "routing" /\ request' = [request EXCEPT !.asking = TRUE]
    \/ /\ request.status = "routing"
       /\ \E d \in Departments :
             request' = [request EXCEPT !.status = "processing", !.owner = d, !.active = d]
    \/ /\ request.status = "processing"
       /\ \E d \in Departments \ {request.owner} :
             request' = [request EXCEPT !.status = "waiting_for_department", !.active = d]
    \/ /\ request.status = "waiting_for_department"
       /\ request' = [request EXCEPT !.status = "processing", !.active = request.owner]
    \/ /\ request.status \in {"routing", "processing"}
       /\ request' = [request EXCEPT !.status = "completed"]

RequestProgress ==
    /\ ~request.asking
    /\ Checkpoint
    /\ page' = [u \in Users |-> Older(u, {"request"})]
    /\ UNCHANGED <<action, place, accepted, loads>>

\* HumanActionService.create, by the company or a manager who sees the
\* request; its schema lets the person, the role or both be absent.
CreateAction(u) ==
    /\ Privileged(u) /\ CanView(u)
    /\ \E a \in Actions, p \in Staff \cup Managers \cup {Nothing}, r \in Roles \cup {Nothing} :
          /\ action[a].status = "none"
          /\ action' = [action EXCEPT ![a] = [status |-> "pending", user |-> p, role |-> r]]
    /\ UNCHANGED <<request, place, page, accepted, loads>>

\* An administrator's edit moves a manager to another department.
MoveManager(m) ==
    /\ \E d \in Departments \ {place[m]} : place' = [place EXCEPT ![m] = d]
    /\ page' = [page EXCEPT ![m] = Older(m, {"place"})]
    /\ UNCHANGED <<request, action, accepted, loads>>

DeskInit ==
    /\ request = [status |-> "absent", owner |-> Nothing, active |-> Nothing, asking |-> FALSE]
    /\ action = [a \in Actions |-> NoAction]
    /\ place \in [Managers -> Departments]
    /\ page = [u \in Users |-> Blank]
    /\ accepted = [a \in Actions |-> {}]
    /\ loads = 0

DeskNext ==
    \/ \E u \in Users : \/ Load(u) \/ Open(u) \/ LoadActions(u) \/ Review(u)
                        \/ RespondRead(u) \/ RespondWrite(u)
                        \/ CancelRead(u) \/ CancelWrite(u) \/ Answer(u)
                        \/ Chat(u) \/ Submit(u) \/ Hear(u) \/ HearError(u)
                        \/ CreateAction(u)
    \/ RequestProgress
    \/ \E m \in Managers : MoveManager(m)

DeskSpec == DeskInit /\ [][DeskNext]_deskVars

-----------------------------------------------------------------------------
(* Properties                                                              *)

Rows == [status : Statuses, owner : Departments \cup {Nothing},
         active : Departments \cup {Nothing}, asking : BOOLEAN]

DeskTypeOK ==
    /\ request \in Rows
    /\ action \in [Actions -> [status : {"none", "pending", "resolved"},
                               user : Staff \cup Managers \cup {Nothing},
                               role : Roles \cup {Nothing}]]
    /\ place \in [Managers -> Departments]
    /\ page \in [Users -> [kind : Kinds, offers : SUBSET Offers,
                           moved : SUBSET ({"request", "place"} \cup Actions),
                           click : Offers \cup {Nothing}]]
    /\ accepted \in [Actions -> SUBSET Users]
    /\ loads \in 0..MaxLoads

\* The four offers the code makes and never keeps: the question of a request
\* that was cancelled before it was answered stays in the document, the pages of
\* a manager link to an action that names another person and no role, the page
\* of an action links to its request whether or not its reader may see it, and the
\* assistant sends every later message to the request of the first, as an answer to
\* a question it did not ask.
NeverKept(u, o) ==
    \/ o[1] = "follow" /\ u \notin {Company, Requester}
    \/ o[1] = "answer" /\ request.status \in Ended
    \/ o[1] = "say"
    \/ o[1] = "review" /\ u \in Managers /\ action[o[2]].role = Nothing /\ action[o[2]].user # u

\* Whatever a page offers is accepted unless what decides it has changed since
\* the page was read: the lists filter rows in SQL, the pages compute their
\* links and the handlers repeat the permissions, each in its own words.
RefusedMeansMoved ==
    \A u \in Users : page[u].kind = "refused" =>
        \/ DecidedBy(u, page[u].click) \cap page[u].moved # {}
        \/ NeverKept(u, page[u].click)

\* An action takes one response, of whoever's commit comes first, although
\* each handler reads it before anybody locked it (submit_response).
AnsweredOnce == \A a \in Actions : Cardinality(accepted[a]) <= 1

\* The rows, the screens and the responses taken agree.
DeskAgrees == DeskTypeOK /\ AnsweredOnce

=============================================================================
