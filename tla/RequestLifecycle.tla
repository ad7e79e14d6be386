--------------------------- MODULE RequestLifecycle ---------------------------
(***************************************************************************)
(* One business request, the sessions (HTTP handlers) that operate on it,  *)
(* and the graph runs they start: requests/service.py, workflow/service.py,*)
(* workflow/persistence.py, workflow/repository.py, workflow/linear_graph  *)
(* and the nodes that graph can reach.                                     *)
(*                                                                         *)
(* Every handler works in a PostgreSQL transaction (READ COMMITTED).  The  *)
(* first statement that locks the request row (SELECT ... FOR UPDATE, or   *)
(* UPDATE) opens tx[s] and takes `lock`; Commit publishes the row and the  *)
(* events, and releases the lock.  A plain SELECT takes no lock, so its    *)
(* result (seen[s]) may be stale when it is used.                          *)
(***************************************************************************)
EXTENDS Integers, Sequences, FiniteSetsExt, RequestStatuses

CONSTANTS Sessions,           \* concurrent handlers that may touch the request
          Departments,        \* departments the Router may name
          ActiveDepartments,  \* those of them the tenant has active
          MaxClarifications,  \* settings.router_max_clarification_questions
          TransitionTargets,  \* statuses asked of transition_status
          Faults,             \* what may go wrong: "db", "llm", "crash"
          MaxCalls,           \* bound on the calls made on the request
          None                \* SQL NULL / no lock holder

ASSUME SessionsAssumption == None \notin Sessions
ASSUME DepartmentsAssumption ==
  /\ ActiveDepartments \subseteq Departments
  /\ None \notin Departments
ASSUME BoundsAssumption == MaxClarifications \in Nat /\ MaxCalls \in Nat

VARIABLES row,    \* the committed business_requests row
          log,    \* the committed workflow_events of the request, by insertion
          lock,   \* the session holding the row lock, or None
          pc,     \* where each handler is
          base,   \* the state handed to astream: what the graph routes on
          cur,    \* current_state of _execute_graph: what is checkpointed
          seen,   \* the ORM object of the row in the session's identity map
          tx,     \* the open transaction of each session, or NoTx
          calls,  \* calls made so far
          asked,  \* clarification questions committed so far (history)
          answered \* clarification answers accepted so far (history)

vars == <<row, log, lock, pc, base, cur, seen, tx, calls, asked, answered>>

-----------------------------------------------------------------------------
\* The check constraints of business_requests that a write can hit.
ConstraintOk(r) == NeedsOwner(r.status) => r.owner # None

-----------------------------------------------------------------------------
(* The persisted workflow state.  The stage, the plan and the texts are    *)
(* left out; the active department equals the owner in every state the     *)
(* reachable nodes produce, so one field stands for both.                  *)

Steps == {"started", "initialized", "routed"}
Categories == {"none", "business", "platform", "unsupported", "gap", "unclear"}

WorkflowStates == [status : Statuses, owner : Departments \cup {None},
                   steps : SUBSET Steps, category : Categories,
                   needs : BOOLEAN, pending : BOOLEAN, count : 0..MaxClarifications]

InitialState == [status |-> "created", owner |-> None, steps |-> {},
                 category |-> "none", needs |-> FALSE, pending |-> TRUE, count |-> 0]

Rows == [status : Statuses \cup {"absent"}, owner : Departments \cup {None},
         json : WorkflowStates, cancelledAt : BOOLEAN, failedAt : BOOLEAN]

NoRow == [status |-> "absent", owner |-> None, json |-> InitialState,
          cancelledAt |-> FALSE, failedAt |-> FALSE]

\* load_state: the document must agree with the row, or the call is refused.
IdentityOk(r) == r.json.status = r.status /\ r.json.owner = r.owner

\* save_checkpoint: overwrite the document and the row's columns from the
\* state, whatever the row holds now.
Bug_RowOnly(r, st) == [r EXCEPT !.status = st.status, !.owner = st.owner]
Checkpoint(r, st) == [r EXCEPT !.json = st, !.status = st.status, !.owner = st.owner]

\* _safe_state_update of FailureService: the state as it is, but failed.
Bug_NoTimestamp(r, st) == Checkpoint(r, [st EXCEPT !.status = "failed"])
FailedCheckpoint(r, st) ==
  [Checkpoint(r, [st EXCEPT !.status = "failed"]) EXCEPT !.failedAt = TRUE]

-----------------------------------------------------------------------------
(* Routing of the linear graph, applied to the state astream started from. *)

RouteInitialize(st) == IF "routed" \notin st.steps THEN "router"
                       ELSE "department_stage_start"

RouteAfterRouter(st) ==
  IF st.pending \/ st.category = "gap" THEN "end"
  ELSE IF st.category \in {"platform", "unsupported"} THEN "completion"
  ELSE "department_stage_start"

\* astream breaks out of its loop on a node name it has no branch for.
GraphNodes == {"initialize", "router", "completion"}
Bug_StartOver(next) == IF next \in GraphNodes THEN next ELSE "initialize"
AfterNode(next) == IF next \in GraphNodes THEN next ELSE "idle"

-----------------------------------------------------------------------------
(* The Router's structured output and what router_node makes of it.        *)

Outputs == [category : {"business"}, dept : Departments]
             \cup [category : Categories \ {"business", "none"}, dept : {None}]

RouterRejects(st, out) ==
  \/ out.category = "unclear" /\ st.count >= MaxClarifications
  \/ /\ out.category = "business"
     /\ out.dept \notin ActiveDepartments \/ st.owner \notin {None, out.dept}

\* The sections of `to` that router_node replaces, computed from `from`.
RouterUpdate(from, to, out) ==
  CASE out.category = "unclear" ->
         [to EXCEPT !.category = "unclear", !.needs = TRUE, !.pending = TRUE,
                    !.count = from.count + 1, !.steps = from.steps]
    [] out.category = "business" ->
         [to EXCEPT !.category = "business", !.needs = FALSE, !.pending = FALSE,
                    !.owner = out.dept, !.steps = from.steps \cup {"routed"}]
    [] OTHER ->
         [to EXCEPT !.category = out.category, !.needs = FALSE, !.pending = FALSE,
                    !.steps = from.steps \cup {"routed"}]

-----------------------------------------------------------------------------
(* Transactions.                                                           *)

EventTypes == {"request_created", "routing_started", "request_resumed",
               "request_routed", "stage_started", "review_started",
               "department_collaboration_started", "waiting_for_human_approval",
               "waiting_for_human_action", "capability_gap_detected",
               "request_completed", "request_rejected", "request_failed",
               "request_cancelled"}

Events == [seq : Nat, type : EventTypes]

\* coalesce(max(sequence_number), 0), read under the row lock.
MaxSeq(l) == Max({0} \cup {l[i].seq : i \in DOMAIN l})

Numbered(types, first) ==
  [i \in 1..Len(types) |-> [seq |-> first + i - 1, type |-> types[i]]]

Appended(l, types, first) == l \o Numbered(types, first)

View(r) == [status |-> r.status, owner |-> r.owner]
Expired == [status |-> "absent", owner |-> None]

NoTx == [row |-> NoRow, types |-> <<>>, first |-> 0, next |-> "idle",
         abort |-> "idle", asks |-> 0, answers |-> 0]

\* Whether the row lock can be taken.
Bug_NoRowLock(s) == TRUE
LockFree(s) == lock = None

\* What a handler's transaction will publish, and where the handler goes
\* after its commit and after a rollback.
Pending(r, types, next, abort, asks, answers) ==
  [row |-> r, types |-> types, first |-> MaxSeq(log) + 1, next |-> next,
   abort |-> abort, asks |-> asks, answers |-> answers]

\* Take the row lock with p as the transaction's pending effects.
Open(s, p) ==
  /\ LockFree(s)
  /\ lock' = s
  /\ tx' = [tx EXCEPT ![s] = p]
  /\ pc' = [pc EXCEPT ![s] = "commit"]

\* A call is counted when it gets past its first guard: one refused by a
\* guard changes nothing and is no step.
NewCall(s) == pc[s] = "idle" /\ calls < MaxCalls /\ calls' = calls + 1

Init ==
  /\ row = NoRow
  /\ log = <<>>
  /\ lock = None
  /\ pc = [s \in Sessions |-> "idle"]
  /\ base = [s \in Sessions |-> InitialState]
  /\ cur = [s \in Sessions |-> InitialState]
  /\ seen = [s \in Sessions |-> Expired]
  /\ tx = [s \in Sessions |-> NoTx]
  /\ calls = 0
  /\ asked = 0
  /\ answered = 0

-----------------------------------------------------------------------------
(* requests/service.py                                                     *)

\* What each operation asks of the row it loads.
MayStart(r) == /\ r.status = "created" /\ IdentityOk(r)
               /\ "started" \notin r.json.steps

Bug_ResumeEnded(r) == /\ r.status \notin {"created", "absent"} /\ IdentityOk(r)
                      /\ "started" \in r.json.steps
MayResume(r) == /\ r.status \notin Terminal \cup {"created", "absent"}
                /\ IdentityOk(r) /\ "started" \in r.json.steps

Bug_CancelEnded(r) == r.status # "absent"
MayCancel(r) == r.status \notin Terminal \cup {"absent"}

\* create: row, initial document, REQUEST_CREATED and notification in one
\* transaction; nobody else knows the id before the commit.
Create(s) ==
  /\ row.status = "absent"
  /\ NewCall(s)
  /\ row' = [NoRow EXCEPT !.status = "created"]
  /\ log' = Appended(log, <<"request_created">>, MaxSeq(log) + 1)
  /\ UNCHANGED <<lock, pc, base, cur, seen, tx, asked, answered>>

\* cancel, up to its checks: a plain read.  (Nothing in the program sets
\* execution.irreversible_operation_completed, so that refusal never fires.)
CancelRead(s) ==
  /\ MayCancel(row)
  /\ NewCall(s)
  /\ seen' = [seen EXCEPT ![s] = View(row)]
  /\ pc' = [pc EXCEPT ![s] = "cancel"]
  /\ UNCHANGED <<row, log, lock, base, cur, tx, asked, answered>>

\* cancel, from its UPDATE on: the document is not touched.
CancelWrite(s) ==
  /\ pc[s] = "cancel"
  /\ Open(s, Pending([row EXCEPT !.status = "cancelled", !.cancelledAt = TRUE],
                     <<"request_cancelled">>, "idle", "idle", 0, 0))
  /\ UNCHANGED <<row, log, base, cur, seen, calls, asked, answered>>

\* _status_event
StatusEvent(previous, target) ==
  CASE target = "routing" -> "routing_started"
    [] target = "processing" ->
         IF previous \in Waiting \cup {"under_review"} THEN "request_resumed"
         ELSE "stage_started"
    [] target = "waiting_for_department"     -> "department_collaboration_started"
    [] target = "waiting_for_human_approval" -> "waiting_for_human_approval"
    [] target = "waiting_for_human_action"   -> "waiting_for_human_action"
    [] target = "under_review"               -> "review_started"
    [] target = "completed"                  -> "request_completed"
    [] OTHER                                 -> "request_rejected"

\* transition_status, up to its checks: a plain read.  No route of the API
\* calls it; TransitionTargets says which targets its callers ask for.
TransitionRead(s, target) ==
  /\ row.status # "absent"
  /\ target \in Allowed(row.status) \ {"cancelled"}
  /\ NeedsOwner(target) => row.owner # None
  /\ NewCall(s)
  /\ seen' = [seen EXCEPT ![s] = View(row)]
  /\ pc' = [pc EXCEPT ![s] = target]
  /\ UNCHANGED <<row, log, lock, base, cur, tx, asked, answered>>

\* transition_status, from its UPDATE on.  The UPDATE ... RETURNING refreshes
\* the session's object, so the "previous" status of the event is the new one.
TransitionWrite(s) ==
  LET target == pc[s]
      updated == [row EXCEPT !.status = target]
  IN  /\ target \in Statuses
      /\ ConstraintOk(updated)
      /\ Open(s, Pending(updated, <<StatusEvent(updated.status, target)>>,
                         "idle", "idle", 0, 0))
      /\ UNCHANGED <<row, log, base, cur, seen, calls, asked, answered>>

\* The UPDATE hits the owner check constraint: the call fails.
TransitionRefused(s) ==
  /\ pc[s] \in Statuses
  /\ LockFree(s)
  /\ ~ConstraintOk([row EXCEPT !.status = pc[s]])
  /\ pc' = [pc EXCEPT ![s] = "idle"]
  /\ UNCHANGED <<row, log, lock, base, cur, seen, tx, calls, asked, answered>>

-----------------------------------------------------------------------------
(* workflow/service.py: start and resume.                                  *)

\* _start: load FOR UPDATE, check, write the first checkpoint and
\* ROUTING_STARTED; the graph runs after the commit, outside the lock.
Start(s) ==
  LET st == [row.json EXCEPT !.status = "routing",
                             !.steps = row.json.steps \cup {"started"}]
  IN  /\ MayStart(row)
      /\ NewCall(s)
      /\ Open(s, Pending(Checkpoint(row, st), <<"routing_started">>,
                         "initialize", "idle", 0, 0))
      /\ base' = [base EXCEPT ![s] = st]
      /\ cur' = [cur EXCEPT ![s] = st]
      /\ UNCHANGED <<row, log, seen, asked, answered>>

\* The answer replaces the question.
Bug_StillOpen(st) == st
Answered(st) == [st EXCEPT !.needs = FALSE]

\* _resume, with a clarification answer exactly when one is awaited.  The
\* status does not change: nothing marks the request as being run.
Resume(s) ==
  LET waiting == row.json.needs
      st == Answered(row.json)
  IN  /\ MayResume(row)
      /\ NewCall(s)
      /\ Open(s, Pending(IF waiting THEN Checkpoint(row, st) ELSE row,
                         <<"request_resumed">>, "initialize", "idle",
                         0, IF waiting THEN 1 ELSE 0))
      /\ base' = [base EXCEPT ![s] = st]
      /\ cur' = [cur EXCEPT ![s] = st]
      /\ UNCHANGED <<row, log, seen, asked, answered>>

-----------------------------------------------------------------------------
(* _execute_graph: one node, then its checkpoint transaction.  A rollback  *)
(* of that transaction goes to _record_graph_failure.                      *)

InitializeNode(s) ==
  LET st == IF "initialized" \in base[s].steps THEN cur[s]
            ELSE [cur[s] EXCEPT !.steps = base[s].steps \cup {"initialized"}]
  IN  /\ pc[s] = "initialize"
      /\ Open(s, Pending(Checkpoint(row, st), <<>>,
                         AfterNode(RouteInitialize(base[s])), "failing", 0, 0))
      /\ cur' = [cur EXCEPT ![s] = st]
      /\ UNCHANGED <<row, log, base, seen, calls, asked, answered>>

\* The Router answered: apply the output to the state, checkpoint it.
RouterNode(s, out) ==
  LET st == RouterUpdate(base[s], cur[s], out)
  IN  /\ pc[s] = "router"
      /\ out.category # "gap"
      /\ ~RouterRejects(base[s], out)
      /\ Open(s, Pending(Checkpoint(row, st),
                         IF out.category = "business" THEN <<"request_routed">> ELSE <<>>,
                         AfterNode(RouteAfterRouter(base[s])), "failing",
                         IF out.category = "unclear" THEN 1 ELSE 0, 0))
      /\ cur' = [cur EXCEPT ![s] = st]
      /\ UNCHANGED <<row, log, base, seen, calls, asked, answered>>

\* A capability gap fails the request in the node's own transaction
\* (_record_capability_gap).  Its status check reads the session's object.
RouterGap(s) ==
  LET out == [category |-> "gap", dept |-> None]
      st == RouterUpdate(base[s], cur[s], out)
  IN  /\ pc[s] = "router"
      /\ seen[s].status \notin Terminal
      /\ Open(s, Pending(FailedCheckpoint(row, st),
                         <<"capability_gap_detected", "request_failed">>,
                         AfterNode(RouteAfterRouter(base[s])), "failing", 0, 0))
      /\ cur' = [cur EXCEPT ![s] = st]
      /\ UNCHANGED <<row, log, base, seen, calls, asked, answered>>

\* router_node raises: the provider fails, or the output is not acceptable.
RouterRaises(s) ==
  /\ pc[s] = "router"
  /\ "llm" \in Faults \/ \E out \in Outputs : RouterRejects(base[s], out)
  /\ pc' = [pc EXCEPT ![s] = "failing"]
  /\ UNCHANGED <<row, log, lock, base, cur, seen, tx, calls, asked, answered>>

-----------------------------------------------------------------------------
(* _record_graph_failure and FailureService.record.                        *)

\* get_by_id returns the session's object as it is, and queries the row only
\* when a rollback has expired the object.
FailureView(s) == IF seen[s] = Expired THEN View(row) ELSE seen[s]

\* A terminal request does not fail again, and the state's department must
\* be one of the row's.
FailureAccepted(s) ==
  /\ FailureView(s).status \notin Terminal
  /\ cur[s].owner \in {None, FailureView(s).owner}

FailureRead(s) ==
  /\ pc[s] = "failing"
  /\ seen' = [seen EXCEPT ![s] = FailureView(s)]
  /\ pc' = [pc EXCEPT ![s] = IF FailureAccepted(s) THEN "record_failure" ELSE "idle"]
  /\ UNCHANGED <<row, log, lock, base, cur, tx, calls, asked, answered>>

FailureWrite(s) ==
  /\ pc[s] = "record_failure"
  /\ Open(s, Pending(FailedCheckpoint(row, cur[s]), <<"request_failed">>,
                     "idle", "idle", 0, 0))
  /\ UNCHANGED <<row, log, base, cur, seen, calls, asked, answered>>

-----------------------------------------------------------------------------
(* The database and the process.                                           *)

Commit(s) ==
  /\ pc[s] = "commit"
  /\ row' = tx[s].row
  /\ log' = Appended(log, tx[s].types, tx[s].first)
  /\ lock' = None
  /\ pc' = [pc EXCEPT ![s] = tx[s].next]
  /\ seen' = [seen EXCEPT ![s] = View(tx[s].row)]
  /\ tx' = [tx EXCEPT ![s] = NoTx]
  /\ asked' = asked + tx[s].asks
  /\ answered' = answered + tx[s].answers
  /\ UNCHANGED <<base, cur, calls>>

\* A statement of the transaction fails: rollback, which expires the object.
Rollback(s) ==
  /\ "db" \in Faults
  /\ pc[s] = "commit"
  /\ lock' = None
  /\ pc' = [pc EXCEPT ![s] = tx[s].abort]
  /\ seen' = [seen EXCEPT ![s] = Expired]
  /\ tx' = [tx EXCEPT ![s] = NoTx]
  /\ UNCHANGED <<row, log, base, cur, calls, asked, answered>>

\* The process dies: the connection closes and the transaction is lost.
Crash(s) ==
  /\ "crash" \in Faults
  /\ pc[s] # "idle"
  /\ lock' = IF lock = s THEN None ELSE lock
  /\ pc' = [pc EXCEPT ![s] = "idle"]
  /\ tx' = [tx EXCEPT ![s] = NoTx]
  /\ UNCHANGED <<row, log, base, cur, seen, calls, asked, answered>>

-----------------------------------------------------------------------------
\* The steps a handler takes by itself once it has been called.
Handler(s) ==
  \/ CancelWrite(s) \/ TransitionWrite(s) \/ TransitionRefused(s)
  \/ InitializeNode(s) \/ (\E out \in Outputs : RouterNode(s, out))
  \/ RouterGap(s) \/ RouterRaises(s) \/ FailureRead(s) \/ FailureWrite(s)
  \/ Commit(s)

Call(s) ==
  \/ Create(s) \/ Start(s) \/ Resume(s) \/ CancelRead(s)
  \/ \E target \in TransitionTargets : TransitionRead(s, target)

Next == \E s \in Sessions : Call(s) \/ Handler(s) \/ Rollback(s) \/ Crash(s)

Spec == Init /\ [][Next]_vars

\* The event loop keeps running a handler, and PostgreSQL serves the waiters
\* of a row lock; nobody owes the system a call or a fault.
FairSpec == Spec /\ \A s \in Sessions : WF_vars(Handler(s))

-----------------------------------------------------------------------------
(* Properties.                                                             *)

PCs == {"idle", "initialize", "router", "completion", "failing",
        "record_failure", "cancel", "commit"} \cup Statuses

Views == [status : Statuses \cup {"absent"}, owner : Departments \cup {None}]

Transactions == [row : Rows, types : Seq(EventTypes), first : Nat, next : PCs,
                 abort : PCs, asks : Nat, answers : Nat]

\* Every variable holds a value of its kind.
TypeOK ==
  /\ row \in Rows
  /\ log \in Seq(Events)
  /\ lock \in Sessions \cup {None}
  /\ pc \in [Sessions -> PCs]
  /\ base \in [Sessions -> WorkflowStates]
  /\ cur \in [Sessions -> WorkflowStates]
  /\ seen \in [Sessions -> Views]
  /\ tx \in [Sessions -> Transactions]
  /\ calls \in Nat /\ asked \in Nat /\ answered \in Nat

\* The timeline of a request is numbered 1, 2, 3, ... in commit order, with no
\* number used twice or skipped, however the handlers that append to it
\* interleave, roll back or crash (WorkflowEventRepository.append: the number
\* is computed from max() under the row lock).
TimelineGapFree == \A i \in DOMAIN log : log[i].seq = i

Occurrences(type) == {i \in DOMAIN log : log[i].type = type}

\* A request is started once: of concurrent starts one wins, the others find
\* the status changed (_start).  transition_status can also leave "created",
\* so the promise is for callers that do not ask it for "routing".
StartedOnce ==
  "routing" \notin TransitionTargets =>
    \A i, j \in Occurrences("routing_started") : i = j

\* The document disagrees with the row only in a status that cancel or
\* transition_status wrote, which write the row alone: every other writer of the
\* status or the owner writes the document in the same transaction.  load_state
\* refuses to resume a request for which this fails.
DocumentFollowsRow ==
  row.status \in {"absent", "cancelled"} \cup TransitionTargets \/ IdentityOk(row)

\* A clarification question is answered at most once, and only a question that
\* was committed is answered: answers accepted, plus the one that is awaited,
\* never exceed the questions asked, whatever answers race or runs overlap
\* (_resume clears routing.needs_clarification under the row lock).  The
\* document of a failed run may show a question that was rolled back; load_state
\* lets nobody answer it.
AnsweredAtMostOnce ==
  /\ answered <= asked
  /\ row.json.status # "failed" /\ row.json.needs => answered < asked

\* A terminal failure or a cancellation is always explained by the timeline
\* and time-stamped: the status never shows "failed" or "cancelled" without
\* the event that says so, whatever crashes or rolls back in between.
EndIsExplained ==
  /\ row.status = "failed" => row.failedAt /\ Occurrences("request_failed") # {}
  /\ row.status = "cancelled" =>
       row.cancelledAt /\ Occurrences("request_cancelled") # {}

\* No handler is inside an operation on the request.
Quiet == \A s \in Sessions : pc[s] = "idle"

\* Once a request is terminal and nothing that was loaded before is still in
\* flight, no later call changes its row or begins to work on it.
QuietTerminalStays ==
  [][Quiet /\ row.status \in Terminal => row' = row /\ Quiet']_vars

\* Every step of one handler at a time is a step of the request's promise.
Promise == INSTANCE RequestStatus WITH status <- row.status, owner <- row.owner
ImplementsPromise == Promise!Spec

\* Terminal statuses have no successor (STATUS_TRANSITIONS), so a terminal
\* request keeps its status.
TerminalIsFinal ==
  [][row.status \in Terminal => row'.status = row.status]_vars

\* The owner department of a request is immutable.
OwnerImmutable == [][row.owner # None => row'.owner = row.owner]_vars

\* Completed steps are not rewritten.
StepsNotRewritten == [][row.json.steps \subseteq row'.json.steps]_vars

\* A failing graph run is recorded: when its handler returns, other than by
\* dying, the request has a terminal status.
FailureIsRecorded ==
  [][\A s \in Sessions :
       pc[s] = "failing" /\ pc'[s] = "idle" /\ "crash" \notin Faults
         => row'.status \in Terminal]_vars

\* A run that routed the request to an active department does not return with
\* the request still in routing.
RoutedRunMovesOn ==
  [][\A s \in Sessions :
       pc[s] # "idle" /\ pc'[s] = "idle" /\ row'.json.category = "business"
         => row'.status # "routing"]_vars

\* Every call returns: no handler waits for ever on the row lock or inside the
\* graph, whatever the other handlers do, roll back or crash.
CallsReturn == \A s \in Sessions : pc[s] # "idle" ~> pc[s] = "idle"

-----------------------------------------------------------------------------
(* The inductive invariant behind the safety properties.                   *)

\* The lock belongs to the one session whose transaction is open.
LockInv == \A s \in Sessions : pc[s] = "commit" <=> lock = s

\* Before it is started the request is as create left it.
FreshInv ==
  /\ row.status = "absent" => log = <<>> /\ \A s \in Sessions : pc[s] = "idle"
  /\ row.status \in {"absent", "created"} => row.json = InitialState
  /\ row.status = "created" /\ "routing" \notin TransitionTargets =>
       Occurrences("routing_started") = {}

\* What a graph run carries from node to node: the state of a request that was
\* started and had not ended when it was loaded, with no question open.
RunOk(st) == st.status \notin Terminal \cup {"created"} /\ ~st.needs

RunPCs == {"initialize", "router"}

\* What a commit of p would publish.  The number p reserved is still the next
\* one, because nobody else can have appended since.
PendingOk(p) ==
  /\ p.first = Len(log) + 1
  /\ p.next \in GraphNodes \cup {"idle"} /\ p.abort \in {"idle", "failing"}
  /\ p.row.status \notin {"created", "absent"}
  /\ "routing" \notin TransitionTargets =>
       \A i \in DOMAIN p.types : p.types[i] = "routing_started" =>
         row.status = "created" /\ Len(p.types) = 1
  /\ p.row.status \in {"cancelled"} \cup TransitionTargets \/ IdentityOk(p.row)
  /\ p.row.status = "failed" =>
       p.row.failedAt /\ \E i \in DOMAIN p.types : p.types[i] = "request_failed"
  /\ p.row.status = "cancelled" =>
       p.row.cancelledAt /\ \E i \in DOMAIN p.types : p.types[i] = "request_cancelled"
  /\ answered + p.answers <= asked + p.asks
  /\ p.row.json.status # "failed" /\ p.row.json.needs =>
       answered + p.answers < asked + p.asks

\* A handler that can still write, by where it is.
WriterOk(s) ==
  /\ pc[s] \in Statuses =>
       pc[s] \in TransitionTargets \ {"created", "cancelled", "failed"}
  /\ pc[s] \in RunPCs => RunOk(cur[s])
  /\ pc[s] = "commit" =>
       PendingOk(tx[s]) /\ (tx[s].next \in RunPCs => RunOk(cur[s]))

WritersInv == \A s \in Sessions : WriterOk(s)

IInv == /\ TypeOK /\ TimelineGapFree /\ LockInv /\ FreshInv /\ WritersInv
        /\ StartedOnce /\ DocumentFollowsRow /\ AnsweredAtMostOnce /\ EndIsExplained
=============================================================================
