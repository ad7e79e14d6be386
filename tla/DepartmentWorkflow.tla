------------------------- MODULE DepartmentWorkflow -------------------------
(***************************************************************************)
(* One routed request in the hands of its departments: the nodes of the    *)
(* workflow graph from department_stage_start on (workflow/nodes), the     *)
(* functions that choose the next node (workflow/routing.py), the review   *)
(* rounds (workflow/review/service.py) and the collaboration between       *)
(* departments (module Collaboration).  A node and its checkpoint are one  *)
(* transaction, hence one action.                                          *)
(*                                                                         *)
(* The module applies every update to the state the next node is chosen    *)
(* from, as the tests of the nodes do.                                     *)
(***************************************************************************)
EXTENDS DepartmentResults, RequestStatuses

CONSTANTS Owners,       \* departments a request is routed to
          MaxRevisions  \* workflow_review_max_revisions

ASSUME OwnersAssumption == Owners \subseteq Departments
ASSUME RevisionsAssumption == MaxRevisions \in 0..1

VARIABLES node,     \* the node that runs next; "idle" when no run is on
          owner,    \* owner_department
          active,   \* active_department
          status,   \* status of the request, in the row and in the document
          steps,    \* planning.completed_steps
          result,   \* execution.department_result
          tools,    \* the operations in execution.tool_results
          collab,   \* collaboration
          review,   \* review
          human,    \* human_action.required
          asking,   \* routing.needs_clarification
          record,   \* the owner's own record of the request
          stopped,  \* history: a run stopped between two nodes
          told,     \* calls the timeline has told the start but not the end of
          funded    \* history: finance has told IT that a budget covers the cost

vars == <<node, owner, active, status, steps, result, tools, collab, review, human, asking, record, stopped, told, funded>>

-----------------------------------------------------------------------------
Nodes == {"department_stage_start", "department_execution", "tool", "collaboration_start",
          "collaboration_receiver", "collaboration_return", "reviewer", "human_action",
          "failure", "completion"}
End == "idle"

Steps == {"department_execution_started", "department_execution_completed",
          "reviewer_completed", "workflow_completed"}

Verdicts == {"approved", "revision_required", "rejected", "human_escalation_required"}
Reviews == [rounds : 0..2, revisions : 0..1, decision : Verdicts \cup {None}]

-----------------------------------------------------------------------------
\* routing.py: where a resumed run goes on, and the node after each node.
NextSkeletonNode ==
  LET asks == collab.request # None /\ collab.call.status = "running" IN
  IF human /\ status = "waiting_for_human_action" THEN End
  ELSE IF collab.call # None
  THEN CASE CanFinish(collab)          -> "collaboration_return"
         [] ~CanFinish(collab) /\ asks  -> "collaboration_start"
         [] ~CanFinish(collab) /\ ~asks -> "collaboration_receiver"
  ELSE CASE "department_execution_started" \notin steps        -> "department_stage_start"
         [] /\ "department_execution_started" \in steps
            /\ "department_execution_completed" \notin steps   -> "department_execution"
         [] /\ "department_execution_started" \in steps
            /\ "department_execution_completed" \in steps      -> "completion"

AfterAction(r) ==
  CASE r.kind = "execute_tool"         -> "tool"
    [] r.kind = "collaborate"          -> "collaboration_start"
    [] r.kind = "request_human_action" -> "human_action"
    [] r.kind = "wait_for_user_input"  -> End
    [] r.kind = "complete_request"     -> "completion"
    [] r.kind = "fail_request"         -> "failure"

Bug_TrustDepartment(r) == AfterAction(r)
AfterDepartment(r) ==
  IF "reviewer_completed" \notin steps /\ r.risky THEN "reviewer" ELSE AfterAction(r)

AfterReceiver(c, paused) ==
  IF paused THEN End
  ELSE IF c.request # None /\ c.call.status = "running"
       THEN "collaboration_start" ELSE "collaboration_return"

AfterReviewer(verdict) ==
  CASE verdict = "approved"                  -> AfterAction(result)
    [] verdict = "revision_required"         -> "department_execution"
    [] verdict = "human_escalation_required" -> "human_action"
    [] verdict = "rejected"                  -> "failure"

-----------------------------------------------------------------------------
Init == /\ node = "department_stage_start"
        /\ owner \in Owners
        /\ active = owner
        /\ status = "routing"
        /\ steps = {}
        /\ result = None
        /\ tools = {}
        /\ collab = NoCollaboration
        /\ review = [rounds |-> 0, revisions |-> 0, decision |-> None]
        /\ human = FALSE
        /\ asking = FALSE
        /\ record = "none"
        /\ stopped = FALSE
        /\ told = 0
        /\ funded = FALSE

\* _event_for_node: what the timeline says of a node that has been applied.
EventFor(n, c, waits) ==
  CASE n = "department_stage_start"             -> "stage_started"
    [] n = "department_execution"               -> "stage_completed"
    [] n = "collaboration_start" /\ ~c.replayed  -> "department_collaboration_started"
    [] n = "collaboration_return" /\ ~c.replayed -> "department_collaboration_completed"
    [] n = "collaboration_receiver" /\ waits     -> "waiting_for_human_action"
    [] n = "human_action"                       -> "waiting_for_human_action"
    [] n = "reviewer"                           -> "review_completed"
    [] n = "completion"                         -> "request_completed"
    [] OTHER                                    -> "none"

\* WorkflowEventService.append, in the transaction of the checkpoint.
Tells ==
  LET event == EventFor(node, collab', human') IN
  told' = CASE event = "department_collaboration_started"   -> told + 1
            [] event = "department_collaboration_completed" -> told - 1
            [] OTHER                                        -> told

\* department_stage_start_node
StageStart ==
  /\ node = "department_stage_start"
  /\ status' = "processing"
  /\ steps' = steps \cup {"department_execution_started"}
  /\ node' = "department_execution"
  /\ UNCHANGED <<owner, active, result, tools, collab, review, human, asking, record, stopped, funded>>
  /\ Tells

\* IT asks procurement only when finance has just answered it that the budget covers it.
Bug_AnyAnswer(q) == Route(q) = <<"it", "procurement">> => collab.answer # None
Justified(q) ==
  Route(q) = <<"it", "procurement">> =>
    /\ collab.answer # None
    /\ Route(collab.answer.question) = <<"it", "finance">>
    /\ collab.answer.status = "completed"
    /\ collab.answer.funds # "no"

\* DepartmentExecutionService.execute: the owner works, its agent's result counts.
Accepted(r) == /\ active = owner
               /\ r.question # None => Justified(r.question)

\* What a result leaves of the collaboration section.
Merged(r) ==
  IF owner = "customer_support" /\ collab.answer # None THEN Settled(collab)
  ELSE IF r.question # None THEN Asked(collab, r.question) ELSE collab

\* persist_department_result: the owner's own record follows its result.
Filed(r) == IF r.closes THEN "closed" ELSE "open"

WorkedSteps(r) == IF r.kind \in {"complete_request", "fail_request"}
                  THEN steps \cup {"department_execution_completed"} ELSE steps

\* The checkpoint fails the request when its department does not support it.
GapStatus(r) == IF r.kind = "fail_request" THEN "failed" ELSE status

\* department_execution_node merges the result into the sections.
Execute ==
  /\ node = "department_execution"
  /\ \E r \in ResultsOf[owner] :
       /\ Accepted(r)
       /\ result' = r
       /\ steps' = WorkedSteps(r)
       /\ collab' = Merged(r)
       /\ human' = (human \/ r.kind = "request_human_action")
       /\ asking' = (asking \/ r.asks)
       /\ record' = Filed(r)
       /\ status' = GapStatus(r)
       /\ node' = AfterDepartment(r)
  /\ UNCHANGED <<owner, active, tools, review, stopped, funded>>
  /\ Tells

\* An operation runs once for a request; a second one raises.  Finance's may run
\* again under another idempotency key.
NotYetRun(operation) == operation \notin tools \/ owner = "finance"

\* department_tool_node
Tool ==
  /\ node = "tool"
  /\ NotYetRun(result.operation)
  /\ tools' = tools \cup {result.operation}
  /\ result' = None
  /\ node' = "department_execution"
  /\ UNCHANGED <<owner, active, status, steps, collab, review, human, asking, record, stopped, funded>>
  /\ Tells

\* collaboration_start_node
CollaborationStart ==
  /\ node = "collaboration_start"
  /\ CanPrepare(collab, active, owner)
  /\ collab' = Prepared(collab)
  /\ active' = collab.request.to
  /\ status' = "waiting_for_department"
  /\ node' = IF collab'.call.status = "completed"
             THEN "collaboration_return" ELSE "collaboration_receiver"
  /\ UNCHANGED <<owner, steps, result, tools, review, human, asking, record, stopped, funded>>
  /\ Tells

RepliesTo(q) == RepliesOn[Route(q)]
MayDo(q, outcome) == \E reply \in RepliesTo(q) : reply.outcome = outcome

\* collaboration_receiver_node: the receiver answers or fails, asks in its turn, or
\* needs a person.
ReceiverEnds ==
  /\ \/ \E reply \in RepliesTo(collab.call.question) :
          /\ reply.outcome = "answers"
          /\ collab' = Ended(collab, "completed", reply.funds)
     \/ collab' = Ended(collab, "failed", "no")
  /\ UNCHANGED <<status, human>>
  /\ node' = AfterReceiver(collab', human /\ status = "waiting_for_human_action")

ReceiverAsks ==
  /\ MayDo(collab.call.question, "asks")
  /\ \E q \in Questions : q.from = "procurement" /\ collab' = Nested(collab, q)
  /\ UNCHANGED <<status, human>>
  /\ node' = AfterReceiver(collab', human /\ status = "waiting_for_human_action")

ReceiverPauses ==
  /\ MayDo(collab.call.question, "pauses")
  /\ collab' = Paused(collab)
  /\ status' = "waiting_for_human_action"
  /\ human' = TRUE
  /\ node' = AfterReceiver(collab', TRUE)

CollaborationReceiver ==
  /\ node = "collaboration_receiver"
  /\ CanExecute(collab)
  /\ ReceiverEnds \/ ReceiverAsks \/ ReceiverPauses
  /\ UNCHANGED <<owner, active, steps, result, tools, review, asking, record, stopped, funded>>
  /\ Tells

SaysCovered(call) == Route(call.question) = <<"it", "finance">> /\ call.funds = "covered"

\* collaboration_return_node
CollaborationReturn ==
  /\ node = "collaboration_return"
  /\ CanFinish(collab)
  /\ collab' = Finished(collab)
  /\ active' = Target(collab)
  /\ status' = "processing"
  /\ result' = None
  /\ funded' = (funded \/ SaysCovered(collab.call))
  /\ node' = IF collab'.call # None THEN "collaboration_receiver" ELSE "department_execution"
  /\ UNCHANGED <<owner, steps, tools, review, human, asking, record, stopped>>
  /\ Tells

\* _apply_revision_cap: after the last revision a person decides.
Capped(verdict) ==
  IF verdict = "revision_required" /\ review.revisions >= MaxRevisions
  THEN "human_escalation_required" ELSE verdict

ReviewedSteps(verdict) ==
  IF verdict = "revision_required"
  THEN steps \ {"department_execution_completed"}
  ELSE steps \cup {"reviewer_completed"}

Decided(verdict) ==
  [rounds |-> review.rounds + 1,
   revisions |-> IF verdict = "revision_required" THEN review.revisions + 1
                 ELSE review.revisions,
   decision |-> verdict]

\* reviewer_node
Reviewer ==
  /\ node = "reviewer"
  /\ result # None
  /\ \E answer \in Verdicts : LET verdict == Capped(answer) IN
       /\ review.rounds < 2
       /\ review' = Decided(verdict)
       /\ steps' = ReviewedSteps(verdict)
       /\ IF verdict = "human_escalation_required"
          THEN status' = "waiting_for_human_action" /\ human' = TRUE
          ELSE status' = "processing" /\ UNCHANGED human
       /\ node' = AfterReviewer(verdict)
  /\ UNCHANGED <<owner, active, result, tools, collab, asking, record, stopped, funded>>
  /\ Tells

\* customer_support_human_action_node serves every department.
HumanAction ==
  /\ node = "human_action"
  /\ result.kind = "request_human_action"
  /\ status' = "waiting_for_human_action"
  /\ human' = TRUE
  /\ node' = End
  /\ UNCHANGED <<owner, active, steps, result, tools, collab, review, asking, record, stopped, funded>>
  /\ Tells

\* terminal_failure_node lets an unsupported result go on to completion.
Failure ==
  /\ node = "failure"
  /\ result.kind = "fail_request"
  /\ node' = "completion"
  /\ UNCHANGED <<owner, active, status, steps, result, tools, collab, review, human, asking, record, stopped, funded>>
  /\ Tells

\* completion_node
Completion ==
  /\ node = "completion"
  /\ "workflow_completed" \notin steps
  /\ status' = "completed"
  /\ steps' = steps \cup {"workflow_completed"}
  /\ node' = End
  /\ UNCHANGED <<owner, active, result, tools, collab, review, human, asking, record, stopped, funded>>
  /\ Tells

\* A node may raise: a guard above refuses, a model or the database fails.  The
\* failure is recorded on the state the node was given.
NodeRaises ==
  /\ node # End
  /\ status' = "failed"
  /\ node' = End
  /\ UNCHANGED <<owner, active, steps, result, tools, collab, review, human, asking, record, stopped, told, funded>>

\* The process dies, or the graph stops at its thirtieth node.
Stop ==
  /\ node # End
  /\ node' = End
  /\ stopped' = TRUE
  /\ UNCHANGED <<owner, active, status, steps, result, tools, collab, review, human, asking, record, told, funded>>

\* A run goes on; with the answer to the question, exactly when one is open.
Resume ==
  /\ node = End
  /\ status \notin Terminal
  /\ NextSkeletonNode # End
  /\ node' = NextSkeletonNode
  /\ asking' = FALSE
  /\ UNCHANGED <<owner, active, status, steps, result, tools, collab, review, human, record, stopped, told, funded>>

NodeEnds == \/ StageStart \/ Execute \/ Tool
            \/ CollaborationStart \/ CollaborationReceiver \/ CollaborationReturn
            \/ Reviewer \/ HumanAction \/ Failure \/ Completion

Node == NodeEnds \/ NodeRaises

Next == Node \/ Stop \/ Resume

\* A run that is on goes on; nobody has to resume one that is not.
Spec == Init /\ [][Next]_vars /\ WF_vars(Node)

-----------------------------------------------------------------------------
\* Types of the sections.
TypeOK ==
  /\ node \in Nodes \cup {End}
  /\ owner \in Departments /\ active \in Departments
  /\ status \in {"routing", "processing", "waiting_for_department",
                 "waiting_for_human_action", "completed", "failed"}
  /\ steps \subseteq Steps
  /\ result \in Results \cup {None}
  /\ tools \subseteq Operations
  /\ collab \in Sections
  /\ review \in Reviews
  /\ human \in BOOLEAN /\ asking \in BOOLEAN /\ stopped \in BOOLEAN /\ funded \in BOOLEAN
  /\ record \in {"none", "open", "closed"}
  /\ told \in 0..MaxDepth

\* The department in charge is the receiver of the open call, or the owner when no
\* call is open: control comes back to whoever asked, however calls nest, fail, are
\* replayed or are resumed (prepare, finish, _active_type).
ActiveDepartmentFollowsTheCall ==
  active = IF collab.call = None THEN owner ELSE collab.call.question.to

\* The open calls form a chain from the owner: each department waits for the next,
\* none appears twice, every call below the top is running and may nest.
CallChain == Pushed(collab)
PathIsAChain ==
  /\ CallChain # << >> => CallChain[1].question.from = owner
  /\ \A i \in 1..Len(CallChain) - 1 :
       /\ CallChain[i].status = "running"
       /\ Route(CallChain[i].question) \in Nesting
       /\ CallChain[i].question.to = CallChain[i + 1].question.from
  /\ \A i, j \in DOMAIN CallChain : CallChain[i].question.to = CallChain[j].question.to => i = j
  /\ \A i \in DOMAIN CallChain : CallChain[i].question.to # owner

\* IT looks for suppliers only after finance told it, in this request, that a budget
\* covers the cost, and finance never says so of one that does not (ITService._validate,
\* FinanceService._validate).
SuppliersFollowTheBudget ==
  /\ \A i \in DOMAIN CallChain :
       Route(CallChain[i].question) = <<"it", "procurement">> => funded
  /\ collab.answer # None /\ Route(collab.answer.question) = <<"it", "finance">>
       => collab.answer.funds # "claimed"

\* A run that ended to wait for its requester shows a question, or the request could
\* never be answered (customer support is the exception: its wait may come without).
QuestionIsShown ==
  (/\ node = End /\ status = "processing" /\ ~stopped
   /\ result # None /\ result.kind = "wait_for_user_input"
   /\ owner # "customer_support") => asking

\* An answer in the document is for the department in charge, which reads it as the
\* answer to its own last question: IT trusts it for the budget it asked about.  And
\* a question is answered once: the history never holds two completed entries of one
\* idempotency key, a replay is not recorded as new work.
AnswersReachTheAsker ==
  /\ collab.answer # None => collab.answer.question.from = active
  /\ \A i, j \in DOMAIN collab.history :
       /\ collab.history[i].status = "completed" /\ collab.history[j].status = "completed"
       /\ collab.history[i].question = collab.history[j].question
       => i = j
  /\ SuppliersFollowTheBudget
  /\ QuestionIsShown

\* A receiver is not asked more often than the limits say, over retries and resumes.
LimitsKept ==
  /\ Len(CallChain) <= MaxDepth
  /\ Len(collab.history) <= MaxCalls
  /\ \A i \in DOMAIN collab.history : collab.history[i].attempts <= MaxAttempts
  /\ review.revisions <= MaxRevisions

\* The timeline tells the requester the start and the end of every call that was
\* worked on, once, and nothing of a replay (_event_for_node, last_replayed).
CallsAreTold ==
  told = Cardinality({i \in DOMAIN CallChain :
                        ~(collab.replayed /\ CallChain[i].status = "completed")})

\* The calls between the departments nest: control comes back the way it went, and
\* within the limits, through every retry, replay, failure and resume; and the timeline
\* says so.
CallsNest ==
  TypeOK /\ PathIsAChain /\ ActiveDepartmentFollowsTheCall /\ LimitsKept /\ CallsAreTold

\* A risky result ends the request as completed only after a review, unless a run
\* stopped between the department and the reviewer.
RiskyResultIsReviewed ==
  (status = "completed" /\ result # None /\ result.risky /\ ~stopped)
    => "reviewer_completed" \in steps

\* A request of customer support or finance that ends as completed leaves the
\* department's own record closed: no issue waits for IT, no finance request stays open.
RecordIsClosed ==
  (status = "completed" /\ owner \in {"customer_support", "finance"}) => record = "closed"

\* The end of a request was earned: reviewed where it is risky, and in the books of
\* the department too.
EndIsEarned == RiskyResultIsReviewed /\ RecordIsClosed

\* An open call comes back to the owner, unless the run ends first: retries and nested
\* questions cannot go on for ever.
CallReturns == (collab.call # None) ~> (collab.call = None \/ node = End)

\* Violated: finance checks the amount procurement asks about.
ProcurementIsToldTheTruth == collab.answer # None => collab.answer.funds # "claimed"

\* Violated: who is told that the request waits for a person is told so when it does.
\* The flag of a person asked before a revision is never cleared.
AlarmsAreReal ==
  [][(NodeEnds /\ EventFor(node, collab', human') = "waiting_for_human_action")
       => status' = "waiting_for_human_action"]_vars

\* Violated: a terminal status stays.
FailedStaysFailed == [][status = "failed" => status' = "failed"]_vars
=============================================================================
