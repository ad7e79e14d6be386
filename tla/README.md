# Verification of the Enterprise Multi-Agent Platform

TLA+ models of the platform's backend (`src/backend/app`) and of the browser code
that takes part in its protocols (event streams, tokens, pages that offer actions),
TLC runs that check them on small instances, and TLAPS proofs of the results that
matter most. Paths below are relative to `src/backend/app/` unless they start with
`src/`.

Contents: [inventory](#inventory) - [modules](#modules) - [how the models read
the code](#how-the-models-read-the-code) - [the runs](#the-runs) - module by module:
[request lifecycle](#request-lifecycle), [departments](#departments),
[finance budgets](#finance-budgets), [HR leave](#hr-leave),
[procurement](#procurement), [knowledge](#knowledge),
[organization and registers](#organization-and-registers),
[notices and streams](#notices-and-streams), [sessions](#sessions),
[the desk](#the-desk) - [proofs](#proofs) - [further instances](#further-instances) -
[what the code does not keep](#what-the-code-does-not-keep) -
[not modelled](#not-modelled) - [plan](#plan).

## Inventory

The platform is a FastAPI application over PostgreSQL. An employee describes a
need; a language model (Groq) routes it to a department; department services
analyse it, call tools that change business data, ask other departments or people,
and a reviewer model judges the outcome. Every handler is an asyncio task with a
database session of its own; several processes may serve the same tenant. What two
handlers share they share through the database, except the count of event streams,
which is process memory, and what the browser keeps.

| Component | State it keeps | Operations | What is hard, and what makes it correct |
|---|---|---|---|
| Requests (`requests/`) | `business_requests`: status, owner, document, timestamps | `create`, `cancel`, `transition_status` | plain reads before writes; every end must be explained, a quiet terminal request stays |
| Workflow control (`workflow/service.py`, `persistence.py`, `linear_graph.py`) | the document (`workflow_state`), the graph's state in memory | `start`, `resume`, checkpoint per node, failure recording | a run outlives many transactions of others; one start wins, document and row agree |
| Timeline (`workflow/repository.py`) | `workflow_events`, numbered per request | `append`, `list_for_request` | `max() + 1` under a row lock; no gap and no twin |
| Workflow nodes and routing (`workflow/nodes`, `routing.py`) | sections of the document | department, tool, collaboration, human action, review, completion | where a run goes on after a pause, a failure or a stop |
| Department execution (`departments/execution.py`, `contracts.py`) | none of its own | `execute`, tools, `persist_department_result` | what an answer may say; a tool runs once |
| Collaboration (`workflow/collaboration`) | active call, return stack, history | `prepare`, `execute`, `finish` | nesting, retries, replays, limits; control and answers return to who asked |
| Review (`workflow/review`) | review section | rounds, revision cap, policy | a risky result is not completed unreviewed |
| Finance (`departments/finance`) | `budgets`, `financial_transactions`, `finance_requests` | reserve, release, commit, expense, adjust, reverse, persist | check and write under a lock; no overspending, totals explained by the ledger |
| HR (`departments/hr`) | `leave_requests`, `leave_balances`, `department_staffing_rules` | decide, persist, release on cancel | four row locks, decisions on stale reads; staffing kept, days reserved once |
| Procurement (`departments/procurement`) | `procurement_requests`, `supplier_candidates` | enter and edit quotations, rank, shortlist, select | a result is saved minutes after the rows it read; two records of one selection |
| IT, customer support (`departments/*`) | incidents, access, support requests | analyse, look up, persist | what an answer may ask for |
| Human actions (`human_actions/`) | `human_actions` | create, submit (conditional update) | two people answer one action |
| Failures and gaps (`failures/`) | `failure_logs`, `capability_gaps` | record, count, close, reopen | one unresolved gap per operation, counted once per failure |
| Notifications (`notifications/`) | `notifications` | create, read, mark read | ordered by the start of the transaction, visible at its commit |
| Realtime (`realtime/`, `src/frontend/src/app/providers/SseProvider.tsx`) | connection count in memory, cursor per stream; ids seen per page | replay, poll, heartbeat; parse, invalidate | lost connections, batches, where a message ends; nothing skipped |
| Knowledge (`rag/`) | `knowledge_documents`, vectors in Pinecone, a temporary file | create, replace, retry, delete, search | a saga with compensation, locks given up before slow calls |
| Administration (`admin/`) | employees, departments, assets, software, suppliers, holidays, budgets, rules, balances | create, update, delete | checks on plain reads, optimistic versions |
| Onboarding and imports (`onboarding/`) | `import_jobs`, company activation, managers | validate, confirm, activate, appoint | a job confirmed twice; people all or none; departments led |
| Assistant (`assistant/`) | none | classify, answer, create and start | two transactions for one submission; the page's idea of its request |
| Authentication (`auth/`) and browser session (`src/frontend/src/api/client.ts`) | `refresh_tokens`; tokens of a tab, the refresh under way | login, refresh, retry, sign out | rotation under a lock against requests that expire together |
| Dashboard, views, workspace (`dashboard/`, `requests/`, `departments/service.py`) | none; what a page offers | lists, detail, offers | each page and each handler states the permissions in its own words |
| LLM client, earlier engine, core, profiles, presentation | | | see [not modelled](#not-modelled) |

How they interact: the routes call one service each; services share the database.
The workflow calls departments, tools, collaboration and review inside its node
checkpoints, appends to the timeline and notifies users in the same transactions; the
streams read what was committed. Cancel calls into HR. Administration writes what
Finance, HR and Procurement lock. The browser drives refreshes, resumes and answers.

`PROJECT.json` lists the components with what is modelled of each, and under
`hazards` every place where the code is hard to test, with the properties that
cover it.

## Modules

| Module | What it is | Builds on |
|---|---|---|
| `RequestStatuses` | the statuses of a request and `STATUS_TRANSITIONS` | |
| `RequestStatus` | abstract: what a request promises about status and owner | `RequestStatuses` |
| `RequestLifecycle` | requests, workflow control, timeline, the graph's reachable nodes | `RequestStatuses`; instantiates `RequestStatus` |
| `Collaboration` | the collaboration section and what `prepare`, `execute`, `finish` do to it | |
| `DepartmentResults` | what each department's agent may answer and what the checks let through | `Collaboration` |
| `DepartmentWorkflow` | the nodes from the department on, routing, review, resumes | `DepartmentResults` |
| `FinanceBudget` | budgets, the ledger, the administration of budgets | |
| `HRLeave` | leave decisions, balances, staffing rules, cancellation | |
| `Procurement` | quotations, scores, ranks, shortlists, selection | |
| `KnowledgeIngestion` | documents, vectors, temporary files, search | |
| `Organization` | people, departments, managers, assets, imports, activation, one human action | |
| `Registers` | suppliers, software, holidays, balances, and who may write them | `Organization` |
| `EventSource` | the browser's parser of an event stream and the page's reader | |
| `EventStream` | the stream of workflow events and a page that follows it | `EventSource` |
| `NotificationStream` | the stream of notifications | `EventSource` |
| `Notices` | the transactions that notify: gaps, failures, escalations | `NotificationStream` |
| `Session` | token pairs, tabs, requests that refresh and retry | |
| `Desk` | pages, offers, clicks and the handlers behind them | |
| `RequestLifecycle_proofs`, `DepartmentWorkflow_proofs`, `FinanceBudget_proofs`, `HRLeave_proofs`, `KnowledgeIngestion_proofs` | proofs about the module each is named for | |
| `Company_proofs` | proofs about `Procurement`, `Organization` and `Registers` | |
| `Realtime_proofs` | proofs about `EventStream`, `NotificationStream` and `Notices` | |
| `Browser_proofs` | proofs about `Session` and `Desk` | |
| `MC...` | instances for TLC | |

Three modules compose components that interact. `DepartmentWorkflow` puts the
departments' answers, the collaboration section, the review and the routing into one
run. `Registers` runs the registers inside the organization, so that a manager who
writes one may be moved, replaced or deactivated meanwhile. `Notices` runs the
transactions that notify together with the stream that delivers.
`RequestLifecycle!Promise` instantiates `RequestStatus` with the row's status and
owner; `ImplementsPromise` is checked as a property and proved for one handler at a time.

## How the models read the code

* **Transactions.** A handler's transaction is one action when it locks what it
  reads before it decides, and two or more when it does not: a plain `SELECT` is
  a step of its own whose result is kept (`seen`, `call[s].row`, `calls[s].args`,
  `run[r]`), and the write is a later step. A transaction that holds a row lock while
  other handlers run is open between its first locking statement and its end.
  Isolation is READ COMMITTED.
* **SQLAlchemy.** `expire_on_commit=False`, `autoflush=False`: a loaded object
  survives a commit and is expired by a rollback; `SELECT ... FOR UPDATE` of an
  object the session has already loaded locks the row and leaves the object as it
  was. Only the columns of an object that changed are written (`Written` in
  `KnowledgeIngestion`, `Flush` in `FinanceBudget`).
* **Locks.** A row lock is a variable, a field of the call or the stage a call is in.
  A statement that needs a held lock is not enabled. PostgreSQL aborts one of two
  transactions that wait for each other.
* **Crash.** A process may die in any step of a handler: its open transaction and
  its memory are gone.
* **Language models, tools, people, the index.** What they answer is chosen from every
  answer the code accepts; an answer the code refuses is chosen too, or leads where an
  error leads.
* **Refused calls** change nothing. Where a refusal has no effect that a property sees,
  it is not represented.
* **Data.** Texts, plans, evidence and payloads are left out; amounts, days and scores
  are small numbers; ids are model values.
* **History variables** (`told`, `stopped`, `funded`, `since`, `raced`, `added`, `shared`,
  `left`, `moved`...) record what the properties need to name a race. No guard reads them.
* **`Bug_...` operators** are wrong variants of the definition they precede, kept to
  show that each property notices them. They are used nowhere else.

## The runs

States are distinct states, times are of two TLC workers.

| Run | Module | Instance | States | Shows |
|---|---|---|---|---|
| `lifecycle` | `RequestLifecycle` | 2 sessions, 2 departments (1 active), 1 clarification, 5 calls, 2 targets of `transition_status`, all faults | 616,000, 30 s | the inductive invariant (type, gap-free timeline, one start), document follows row, one answer per question, explained ends, quiet terminal requests |
| `sequential` | `RequestLifecycle` | 1 session, every target, 2 clarifications, 7 calls, all faults | 21,500, 6 s | one handler at a time implements `RequestStatus`, and every call returns |
| `departments` | `DepartmentWorkflow` | each of the five owners, depth 3, 4 calls, 2 attempts, 1 revision | 833,000, 100 s | calls nest and are told, answers reach the asker, ends are earned, calls return |
| `finance` | `FinanceBudget` | 2 sessions, 1 budget, 3 references, amounts 1 and 2 under an allocation of 2, with approver | 262,000, 45 s | holders are current, the ledger explains the totals, nothing is overspent, entries are final, no revision is lost |
| `leave` | `HRLeave` | 2 leaves of two colleagues or of one employee, 2 rules, 2 sessions | 1,231,000, 105 s | books agree, cancels are safe, staffing is kept |
| `procurement` | `Procurement` | 2 quotations, 2 runs, 2 weightings read, these or none answered, 2 saves, 1 edit | 235,000, 90 s | rankings are sound, a shortlist of the unfit is explained, the selection holds |
| `knowledge` | `KnowledgeIngestion` | 2 documents, files of 1 and 2 records, 2 calls at a time, 4 in all, 1 restart | 313,000, 90 s | rows, index and files agree, failures leave nothing, documents are kept, ingestions end |
| `organization` | `Registers` | 4 people, 2 departments, 1 asset, 1 import job, 3 names, 2 sessions, 3 or 4 calls, 1 failure | 408,000, 60 s | records agree, people are led, assets and registers are kept |
| `event_stream` | `EventStream` | 3 readers, of whom one sees 4 of 6 events, 2 connections, replay and batch of 2 | 24,000, 50 s | places are counted, nothing is skipped, events arrive |
| `notification_stream` | `Notices` | 2 writers, 3 transactions, 1 operation, 2 changes of a gap, batch 2, replay 3 | 145,000, 65 s | none overtaken, notifications arrive, gaps add up |
| `session` | `Session` | 2 tabs, 2 requests, 3 pairs of tokens, 1 expiry or deactivation | 1,664,000, 80 s | what tabs hold agrees with the server, only copies are refused |
| `desk` | `Desk` | a company, a manager, 2 employees, 2 departments, 1 action, 3 pages | 2,696,000, 135 s | what a page offers is refused only when something moved; one response per action |

## Request lifecycle

`RequestLifecycle` is one request and any number of sessions that call handlers on
it.

| Variable | Code |
|---|---|
| `row` | the committed row of `business_requests`; `row.json` is `workflow_state` |
| `log` | `workflow_events` of the request, in insertion order |
| `lock` | the holder of the row lock |
| `pc[s]` | where handler `s` is: in a node, failing, waiting to write, in an open transaction |
| `base[s]`, `cur[s]` | the state given to `astream`, and `current_state` of `_execute_graph` |
| `seen[s]` | the ORM object of the row in the session |
| `tx[s]` | the open transaction: what a commit publishes and where the handler goes then |
| `calls`, `asked`, `answered` | a bound on calls, and history of clarifications |

Actions: `Create`, `CancelRead`/`CancelWrite`, `TransitionRead`/`TransitionWrite`/
`TransitionRefused` (requests/service.py); `Start`, `Resume`, `InitializeNode`,
`RouterNode`, `RouterGap`, `RouterRaises`, `FailureRead`, `FailureWrite`
(workflow/service.py and the nodes); `Commit`, `Rollback`, `Crash`. The graph
routes on `base` and checkpoints `cur`, as the code does, so a run ends after the
Router in every case the code can reach (`RoutedRunMovesOn`, below). The later nodes are
in `DepartmentWorkflow`.

*Bounds.* Every hazard here is a race of two handlers over one row: two sessions
suffice for each pair of operations, and five calls for create, start, a question, its
answer and a cancel. One inactive department is enough for the Router to name a
wrong one. The proofs remove these bounds for the safety properties. `lifecycle` does
not ask `transition_status` for `routing`, which makes a second start possible and
`StartedOnce` vacuous; `sequential` asks for every target.

*Fairness.* `FairSpec` is weak fairness of each handler: the event loop resumes a
handler whose await is done, the LLM client and the database client have time-outs,
and a holder of the row lock always commits, rolls back or dies. Calls, rollbacks and
crashes are not fair. The listed run has one session, so it shows that the graph and
its failure handling end.

*Refinement.* `ImplementsPromise` holds of one handler at a time only; with two it is
not kept ([below](#what-the-code-does-not-keep)).

## Departments

`Collaboration` has the document's section (`call`, `stack`, `history`, `total`,
`request`, `answer`, `replayed`) and the three operations as operators:
`CanPrepare`/`Prepared` (who may ask whom, depth, number of calls, cycles, retries and
replays), `CanExecute`/`Running`/`Ended`/`Nested`/`Paused`, `CanFinish`/`Finished`. A
question stands for its idempotency key. Of a payload only its identity and what an
answer says of the money are kept.

`DepartmentResults` enumerates the structured answers of each department's model and
filters them by that department's schema and service, then by the common contract:
`ITAnswers`, `FinanceAnswers`, `ProcurementAnswers`, `HRAnswers`, `SupportAnswers`;
`Grounded` is Finance's check of what is said of the budget. `ResultsOf` is what the
workflow sees of an owner's answer, `RepliesOn` what a receiver's answer becomes.

`DepartmentWorkflow` is the run: one action per node (`StageStart`, `Execute`, `Tool`,
`CollaborationStart`, `CollaborationReceiver`, `CollaborationReturn`, `Reviewer`,
`HumanAction`, `Failure`, `Completion`), `NodeRaises`, `Stop` (the process dies, or the
graph reaches its limit of thirty nodes) and `Resume`, which goes on at
`NextSkeletonNode`. `AfterDepartment`, `AfterReceiver` and `AfterReviewer` are the
routing functions. Three things to know when reading it:

* The run applies each node's update before it chooses the next node, as the tests of
  the nodes do. `CompiledLinearGraph` chooses on the state the run started with, so
  today's runs end after the Router; the module models the graph that the nodes, the
  routing functions and their tests describe.
* The routing target `collaboration` is read as `collaboration_start`.
* `NodeRaises` fails the request on the state the node was given, as `_execute_graph`
  records it.

*Properties.* `CallsNest`: the open calls are a chain from the owner to the department
in charge, within the limits, and the timeline told the start of each open call and
the end of each closed one. `AnswersReachTheAsker`: an answer in the document is for
the department in charge, a key is answered once, IT asks for suppliers only after
Finance told it that a budget covers the cost, and a run that waits for its requester
shows a question. What Finance told is remembered in `funded`: the document's own
history cannot say it, because it keeps the last calls only. `EndIsEarned`: a risky
result completes only after a review, unless a run stopped between department and
reviewer; and the department's own record is closed.
`CallReturns`: a call comes back or the run ends.

*Bounds.* One payload for each route gives every retry and replay; a second
would only tell two questions of one route apart. Depth 3 and 2 attempts are the
defaults. Four calls (the default is six) are one more than the longest chain of
distinct calls needs; with four the history is never longer than it may be, so the
truncation in `Recorded` is not exercised. `MaxRevisions` is the code's 1. The proofs of
the three properties have any payloads, any limits up to the code's, and the truncation.

*Fairness.* Weak fairness of `Node`: a run that is on goes on. `Stop` and `Resume` are
not fair: nobody has to resume a run.

## Finance budgets

`FinanceBudget`: `budget` (rows), `ledger` (`financial_transactions` by their unique
reference), `label` (`finance_requests.reservation_status`), `call` (what each
session is doing). `Reserve`, `Release` and `Record` are `FinanceToolService.execute` up
to the flush: it locks the row, looks the reference up and validates; `Commit` and
`Rollback` end the transaction, which the workflow does later. `ReviseRead`/
`ReviseWrite` are `AdminBudgetService.update`, whose check reads without the lock;
`Create` and `SoftDelete` are the rest of the administration, `PersistResult` the upsert
of `persist_result`. The constants `Authorized` and `Executed` say how the tool service
was built: the workflow never gives it an approver, so commitments, expenses,
adjustments and reversals are refused in production; the tests give it one, and so does
the run, which allows every movement.

*Bounds.* Three references let a reservation, what follows from it and a reversal be in
the ledger together, and decide every race for one reference. Amounts 1 and 2 under an
allocation of 2 give full, partial and refused movements. The sessions race for a
budget's lock, so one budget has all the races; that holders of two budgets do not
disturb each other is proved. `MaxVersion` 2 lets two administrators revise one
version. `LedgerExplainsTotals` uses `<=` for reserved and committed because a
commitment takes from reserved what it finds there without naming the reservation. What
entries add up to (`Total`) is counted as a set of pairs of an entry and a cent, which
TLC evaluates and the prover can reason about.

## HR leave

`HRLeave`: `leave`, `balance`, `rule`, `request` (open, closed, cancelled) and
`call`; `plan` is the case at hand. A run decides on unlocked reads (`Decide`), then
persists in one transaction that locks request, leave, balance and staffing rule in
this order, each lock an action, and revalidates what it locks (`LockRule`, `Commit`,
`Refuse`). A cancel reads the leave without a lock (`CancelRead`), then locks leave,
balance and request. Administrators edit rules (`EditCheck`, `EditWrite`, `DeleteRule`)
and allocations (`Allocate`). The employee row, which `persist` also locks, is left out:
the balance of the same employee is locked before it. `used_days` is never written. A
change of holidays between decision and persistence is a `Rollback`. The entry point
`persist_department_result` is reached only past the Router, so the module is a
model of the HR service as its callers may call it.

*Bounds.* The run starts in one of three cases. Two colleagues whose leaves share a day,
with rules that come and go, are the race for staffing. Two leaves of one employee on a
balance of one or two days are the race for the balance; a rule that covers both days
stands at first, so that both can be approved, and may be deleted. In these two cases a
cancel does not overlap another handler of its own request (`CancelOverlap`), the
condition under which the books add up and a cancelled request holds no days. The third
case is the second with overlapping cancels, for what is claimed without the condition.
`AdminOverlap` is FALSE: one administrator edits rules at a time. Both conditions are
named because the code does not enforce them ([below](#what-the-code-does-not-keep)).

*Waiting.* A run and a cancel of one leave lock in opposite orders and can wait for each
other; the database's detector then aborts one (`BreakDeadlock`). `CancelsAreSafe`
contains `OneCircle`, no other pair of calls can wait for each other, and
`SomeoneGoesOn`: while calls are under way one of them waits for nobody, or two wait for
each other and the database ends it, so no circle of three or more closes. The days that
leaves hold (`HeldDays`) are counted as a set, like the cents of the ledger.
`MCLeaveLive` ([further instances](#further-instances)) shows that a call which waits for
nobody has a step to take (`NobodyIsStuck`) and that every call ends, with strong fairness of a session's progress (PostgreSQL serves
lock waiters in order, so a lock that is freed again and again is obtained) and weak
fairness of `BreakDeadlock`.

## Procurement

`Procurement`: `need` (the row of `procurement_requests`: weights and selection),
`cand` (the quotations with score, rank, shortlisted, chosen), `doc` (what the
document says of approvals, the runs that have a shortlist, and whether IT asked),
`run[r]` (what a run has read). `AddCandidate` and `EditCandidate` are the
administration of quotations; `Ask` reads; `Save` is `persist_result` in the checkpoint,
with an answer of the model out of those that `consistent_result` and `_validate` let
through (`Answers`), and scores the quotations it finds then; `Shortlist` and
`ReceiverTool` are the tool; `PassOn` is a receiver's question to Finance; `Ends` covers
every run that saves nothing. An answer depends on nothing but the reading, so choosing
it and saving it are one step: everything that can happen while the model thinks
happens between `Ask` and `Save`. Scores are computed as `scoring.py` computes them, in
thousandths with `RoundHalfUp`.

*Properties.* `RankingIsSound`: no two ranks are equal, and a quotation that costs no
more, comes no later and is no worse is ranked first, through edits and overlapping
saves. `UnfitShortlistIsExplained`: a quotation that is shortlisted without a rank was
edited between the reading and the saving of one run (`raced`), or it is fit and lacks
the quality or the delivery days that the answer weighs and the reading did not
(`added`). The second reason is a gap in the code: `_validate` goes by the weighting
that was read, `persist_result` ranks by the weighting the answer carries, and nobody
compares them. The property bounds what comes of it: compliance, availability and cost
are never given up. `SelectionHolds`: the selection of the requirement and the flag of the
quotation say the same, it is made only after a person approved, and a chosen quotation
keeps its price.

*Bounds.* Two quotations decide every comparison. The dearer is faster; an edit may take
its delivery days, so that one weighting ranks it and the other does not, and no
delivery score fits the column while the other quotation is weighed without delivery
(`InBounds`); the other may turn out unfit. An answer carries either weighting, or none.
Two runs give the overlap; two saves let one overwrite the other. Edits of prices and
mixed currencies are in the module and in the proofs, not in this instance.
`RowsExpire` FALSE: a run's rows outlive the rollback in `execute`, as in the tests'
sessions. In a session of SQLAlchemy the rollback expires them, `_validate` reads
`item.id`, and the read raises outside a greenlet: with `RowsExpire` no answer over
quotations is accepted and nothing is ever selected (75,000 states), as with
`Authorized` and `Executed` of `FinanceBudget`. The theorems hold for either value. What
there is before the first requirement was stated is collapsed into `Init`.

## Knowledge

`KnowledgeIngestion`: `documents` (rows), `index` (records in Pinecone), `calls` (what
each API call is doing and the row its session holds), `uploads` (temporary files). Each
commit, each locked section and each operation of the index is an action: `Create`,
`Replace`, `ReplaceLock`, `Insert`, `Begin`, `Upsert`, `Verify`, `Complete`, `Cleanup`,
`Compensate`, `Fail`, `Retry`, `RetryLock`, `RetryDelete`, `RetryAgain`, `Delete`,
`Remove`, `MarkDeleted`, `Search`, `Filter`; `Restart` ends every call. A failing
operation of the index may have done a part of its work.

*Properties.* `StoresAgree`: only completed documents are active, one call ingests a
document, nothing but a restart leaves an ingestion to nobody, a document and its
replacement are active together or answered from together only when the replacement was
retried, temporary files are removed. `FailureLeavesNothing`: the compensation.
`DocumentsAreKept`: a document becomes active only with all its records in the index,
and stops being active only when it is deleted or in the step that activates its
replacement. `IngestionEnds`: liveness.

*Bounds.* Two documents are a document and its replacement, or two uploads of one file;
two calls at a time are every pair of operations; four calls are an upload, a
replacement, a failure's retry and one more. A file of two records in batches of one
has a state between two batches.

*Fairness.* Weak fairness of each call's `Step`: operations of the index have time-outs
and counted retries. Nobody has to retry, and restarts are not fair.

## Organization and registers

`Organization`: `staff` (a person's row and account: employment status, department,
manager, role, whether the account is active), `enabled` (departments), `asset`,
`action`, `job` (the import), `active` (the company), `calls`. Nearly every handler of
`admin/service.py` and `onboarding/service.py` checks what plain reads return and then
updates: each is a read step (`HireRead`, `EditRead`, ...) and a write step
(`HireWrite`, ...). A call keeps in `since` the operations committed after its reads, so
that a property can name the race that breaks it. An appointment is three steps after
its reads: the snapshot its first UPDATE takes of the managers to demote
(`AppointDemote`), their locks (`AppointLock`), and the promotion with the commit
(`AppointPromote`). Confirming an import commits twice (`ConfirmStart`, `ConfirmRows`).
`Registers` adds the routes of suppliers, software, holidays and leave balances, one
shape for all (`Open`, `Insert`, `Update`, `Put`) with the checks of each, the unique
constraints at the write, and `Writers`: the company, or an active manager of the
department the register belongs to.

*Properties.* `RecordsAgree`: assigned assets have a holder, an import brings all its
rows or none, only a failure leaves a job that nobody processes, and an appointment waits
for another only when an appointment, an import or an edit overtook its checks
(`NoCircleOfWaits`): without that no circle of waits can close. `PeopleAreLed`: reporting
lines close a cycle only by two edits that overlap or by a file that brings one
(`FileHasCycle`; confirming follows no lines); an appointment leaves one manager; an enabled department loses its
last manager only when he is moved or by the races named; a company is activated with
its checklist fulfilled, unless the checklist was overtaken. `AssetsKept`: no edit of an
asset is lost; only a race revives one or leaves it with somebody who is gone.
`RegistersKept`: two suppliers of one name (in any letters) come only from overlapping
calls, no edit of the catalogue is lost, removed holidays do not come back, and a manager
who lost his post writes with calls already begun only.

*Bounds.* Two sessions give every overlap of two handlers; the properties relate two
calls each. The proofs have any number of sessions, and showed what two cannot: two
appointments into two departments, overtaken by edits that exchange the people they
appoint, want each other's rows, and the database ends one. The company is either at work, with a manager and a member of one department
(three calls), or new (four calls: import, appointment, activation and one more).
Three names are one name, the same in other letters, and the same with blanks. One
behaviour touches one register; the registers share no rows.

*Left out.* The import of departments (its rows are handled as the employees' are,
without managers), e-mail edits, hiring somebody as terminated,
`expected_updated_at` beside the version, inactive rows created as such, and fields that
nothing depends on. `list_import_jobs` calls a method its repository does not have.
`EmployeeService`, `UserService`, `DepartmentService` and create and update of
`CompanyService` have no route.

## Notices and streams

`EventSource` is the browser's parser and the page's handler: a block of the stream
ends at a blank line, which only a heartbeat sends; the data of its events is joined
and the last id wins; the page reads a block of one event and skips an id it has
seen. `EventStream` is the generator (`Connect`, `Replay`, `Poll`, `Send`, `Sleep`,
`Heartbeat`, `Disconnect`), the process (`Restart`, `active`), the timeline
(`AppendEvent`) and a tab that shows one request at a time (`Visit`, `Reload`).
`NotificationStream` is the same generator over an inbox whose notifications carry
the time their transaction began (`Begin`, `Commit`, `Rollback`) and are polled newest
first; `OpenPage` is a page that reads the inbox and opens a new source.

`Notices` says which transactions write into that inbox, for the account of the company:
`Told` is whom a gap, a failure, an escalation and an update of a request notify. A run
that records a gap takes the advisory lock of its key (`KeyFree`), looks for an
unresolved row (`Look`), counts one more or inserts (`Count`), and commits with its
checkpoint (`CommitNotice`); the administrator closes and reopens gaps without that lock
(`CloseGap`, `ReopenGap`).

*Properties.* `PlacesCounted`: the count of connections is the number of open streams,
whatever ends them. `NothingSkipped` and `NoneOvertaken`: the cursor passes nothing that
was not sent, except, for notifications, a row whose transaction committed after that of
a later one. `EventsArrive`, `NotificationsArrive`: what is committed is sent, unless the
connection ends. `GapsAddUp`: every committed record is counted once, one gap per
operation is unresolved, and a run is refused its new gap only when an administrator
reopened an old one after it had looked.

*Bounds.* The batch and the replay are smaller than the timeline and than a gap of
invisible events, the cases where a cursor could pass something. `FitsBatch` keeps the
environment to what one poll sees: of a burst of more than a batch between two polls the
oldest are not streamed. Two writers are two transactions that overlap; three
transactions with two changes give create, close, count and reopen.

*Fairness.* A generator whose connection is open goes on (weak), and its clock
reaches the next heartbeat (strong: a heartbeat is possible only between polls).
Clients and connections owe nothing, so liveness is "unless the connection ends".

## Sessions

`Session`: `row` (refresh tokens by pair, and the login a pair goes back to), `fresh`
(access tokens that have not expired), `active` (user and company), `tab` (the stored
pair and the refresh under way), `req` (a page's request) and `call` (a refresh). The
server: `CallServed` (the rotation, one transaction under the lock of the row), `Login`,
`Register`, `Serve`. The browser (`client.ts`): `Send`, `Denied` (join the refresh under
way, start one, or sign out), `CallArrives`, `CallLost`, `Logout`, `Reload`, `Copy`.

*Properties.* `SessionsAgree`: of one login at most one refresh token is usable, and a
tab holds that one unless its replacement is on the way or the login has two holders;
whoever waits, waits for a refresh that will be answered or lost. `OnlyCopiesAreRefused`:
a used token is refused only after a tab was copied, or reloaded while it refreshed.
That nobody waits for ever depends on the browser's time-outs; the safety part
(`WaitersAreAnswered`) stands for it.

*Bounds.* Two requests are the concurrent 401s; two tabs are a copy and its original;
three pairs are two rotations, or a rotation and another login. Pages that send are behind
sign-in; only tokens somebody holds expire.

## The desk

`Desk`: `request` (the few fields a page reads), `action` (human actions), `place` (a
manager's department), `page[u]` (the screen of a user: kind, offers, what moved since),
`accepted` (history). Pages: the list of requests, the dashboard, the inbox, the
workspace (`Load`), the detail page in its two reads (`Open`, `LoadActions`), the page of
an action (`Review`), the assistant (`Chat`, `Submit`, `Hear`, `HearError`). Clicks:
`RespondRead`/`RespondWrite`, `CancelRead`/`CancelWrite`, `Answer`. `Progress` is the
environment: the request's checkpoints, a superset of what `RequestLifecycle` and
`DepartmentWorkflow` produce.

*Properties.* `RefusedMeansMoved`: a click on what a page offered is refused only if
something that decides it changed after the page was read; SQL filters, presentation and
handlers each state the permissions, and must agree. Four offers the code never keeps are
named in `NeverKept` and [below](#what-the-code-does-not-keep). `DeskAgrees`: an action
takes one response.

*Bounds.* One user of each kind, and a second employee who is not the requester; three
pages let two users' pages overlap while one of them reads again; one action takes every
race of two responses. `RequestDetailPage` also starts a created request when it is
opened, which is `Checkpoint` here. `update_metadata` and `transition_status` have no
route. Only `POST /human-actions` creates an action; nothing cancels or expires one.
A response's optional `expected_updated_at` is left out: nothing but a response writes a
pending row, so the comparison could only fail where `StillPending` does.

## Proofs

Proved by TLAPS for every value of the constants that the `ASSUME`s admit.

`RequestLifecycle_proofs`. The properties are not inductive: a gap-free timeline says
nothing of what an open transaction will append. `IInv` adds `LockInv` (the lock's
holder is the session with an open transaction, hence there is one), `FreshInv` (what
an unstarted request looks like) and `WritersInv`, which says of each open
transaction that its commit would keep every property (`PendingOk`: its first number
is still the next one, its row agrees with its document, its end has its event) and of
each run that the state it carries is that of a started request with no open
question. The argument has one lemma per action and one theorem for `Next`; the
timeline lemmas show that `max() + 1` on a gap-free timeline is its length plus one.
From `IInv` follow `TypeCorrect`, `TimelineIsGapFree`, `RequestStartedOnce`,
`DocumentAgrees`, `QuestionsAnsweredOnce`, `EndsAreExplained`, and, with a step
lemma, `TerminalWhenQuiet`. They hold for any number of sessions, departments,
clarifications, calls, any `TransitionTargets` and any faults. `TypeOK`,
`TimelineGapFree` and `StartedOnce` are conjuncts of `IInv` and checked with it.

`OneAtATime` is the refinement: with at most one session, `Spec` implements the abstract
`RequestStatus`. `AloneInv` says what a handler relies on from step to step when nobody
else writes: what it read is the row (`Carries`, `MayCancel`, a transition still allowed),
the row an open transaction will publish is `Promised`, and after a rollback the state of
the run names a department if the row does. Create and commit are the steps that map
to steps of the promise, all others to stutters. The hypothesis is needed: with two
sessions a checkpoint may undo a cancel.

`FinanceBudget_proofs`. `IInv` is `TypeOK /\ HolderIsCurrent`: whoever holds a lock
works on the committed row, and what it decided on is still accepted there. The step
that matters is `OthersStayAccepted`: a commit on one budget cannot invalidate what
the holder of another budget decided, because the ledger entry it refers to is of its
own budget. From it: `TypeCorrect` (totals never go below zero), `CheckedIsCommitted`,
and four action properties, each by what a step may do to a row or to the ledger:
`Solvent` (no overspending), `ClosedMeansClosed`, `LedgerIsFinal`, `RevisionsCount`.
`LedgerExplains` needs more: `Books` adds that nothing is spent from a budget that does
not exist. A sum is the size of a union of disjoint sets, one per entry, so that posting
an entry adds its amount and reversing one takes it away (`CellsChange`, `TotalChange`);
each movement is shown to change the row by no more than the totals.

`HRLeave_proofs`. The rows do not say what a transaction will write. `RunAgrees` and
`CancelAgrees` say that what a call has read under its locks is what stands there, part by
part as it takes them; `LocksApart` that no two hold one lock. `ReadyAgrees` is what
makes approvals keep the minimum: a run that is ready to approve holds an active rule over
all its days which the department still satisfies; active rules being disjoint, a second
run with a day in common would have to hold the same rule. `CancelsAlone` and
`CancelledIsOver` say what `CancelOverlap` excludes. From it: `LeaveInvariant`,
`BooksStayAgreed`, `CancelsGiveBack`, and `StaffingIsKept`, which assumes `~AdminOverlap`:
the code does not serialize administrators, and with two of them the property is false.
`CancellingIsSafe` contains `CirclesAreOfOneLeave` (`OneCircle`) and what becomes of those
who wait (`SomeoneGoesOn`): suppose every call waited and no two for each other. A cancel
that waits for the request waits for a run that wants the leave the cancel holds,
which was excluded; a cancel that waits for the balance waits for such a cancel; so no
cancel holds a lock. Runs take their locks in one order, so none waits for a run that
waits. Nobody could hold a lock, and nobody would wait.

`DepartmentWorkflow_proofs`. `CallsNest` relates the section of the document to the
timeline, and nothing in it says which node comes next: a step of `Execute` would be free
to run a department that is not in charge. `IInv` adds, part by part, what the routing
establishes and the nodes rely on: `CallsOpen` (the open calls run from the owner to the
department in charge, each asked on the way of the last), `HistoryAgrees` (a closed call
has one answer in the history, within attempts), `NodeAgrees` (what the document must look
like for the node that is next, `NextSkeletonNode` after a stop included), `WorkDone`
(a completed owner's result is in the document), `FundsAgree`, `AnswerAgrees`,
`RisksAgree` and `QuestionAgrees`. The argument goes by operation of `Collaboration`
(what `Prepared`, `Ended`, `Nested`, `Paused` and `Finished` do to the chain and to the
history), then by node, then by routing function. From it: `WorkflowInvariant`,
`CallsStayNested`, `AnswersStayWithTheAsker`, `EndsAreEarned`.

`Company_proofs`, procurement. `RankingIsSound` speaks of rows only, while a save
shortlists out of rows a run has read: `ReadingsHold` says what a reading that nobody
has overtaken still guarantees of the row, which is that it can be bought by the
weighting that was *read*. The answer's weighting is arbitrary, so a row may be
ineligible by it; `UnfitByTheAnswer` shows that it then lacks a criterion of `Added`. The
lemmas on scores are arithmetic: `RoundHalfUp` is monotone, a quotation that is nowhere
worse scores no less, and ranks follow the order of the code with its ties. A
selection stays because `SelectionAgrees`, `SelectionExists` and `SelectionIsApproved`
are kept by each way of saving. From it: `PurchaseInvariant`, `RankingStaysSound`,
`UnfitShortlistsAreExplained`, `SelectionsHold`.

`Company_proofs`, organization and registers. Every handler checks what plain reads
return and writes later, so the properties depend on what a commit leaves to the calls
that have read before it. `OrgInv` says of each call under way what its reads still
guarantee unless a commit of a kind it names overtook it (`UnderWay`, one clause per
handler: that the new manager of an edit leads, line by line, to the top without the
person edited; that an employee to be deactivated manages nobody and holds nothing; that
the rows an appointment has locked are the department's managers; that the checklist is
fulfilled; that whoever writes a register may), what the rows always are (`People`,
`Kept`), that each call moves one version at most (`VersionsBounded`), and that no two
appointments hold one row (`HeldApart`). Thirteen kinds of commit times thirteen kinds of
call would be 169 cases: instead a frame states what a commit of each kind leaves
alone (`Frame`: `StaffFrame`, `AssetFrame`, `RegisterFrame`), each handler is shown to keep its frame, and one
lemma carries any call of another session over any frame. A cycle of reporting lines is
excluded from a `Line`, a set of people closed under "reports to" that holds the new
manager and not the person; that the code's walk up to the top gives one is proved by a
least counterexample among the finitely many steps. From it: `RegistersInvariant`,
`RecordsAlwaysAgree`, `AssetsAreKept`, `RegistersAreKept`, `PeopleAreAlwaysLed`. Two of
the properties had to be corrected on the way: a file with a circle of managers
is imported as it is, and in three sessions two appointments and two moves make a circle of
waits, neither of which the checked instance could show.

`KnowledgeIngestion_proofs`. `WorkAgrees` and `CallAgrees` tie each call's
stage and the row its session holds to the committed row and to the index: what an
ingestion has upserted is in the index and of nobody else, and whoever is
past a lock is the one the row names. `OneIngestion` makes the steps of two calls on one
document disjoint; `RoomKept` bounds the version numbers. From it: `KnowledgeInvariant`,
`StoresStayAgreed`, `FailuresAreTakenBack`, and the action property
`ActiveDocumentsAreKept`.

`Realtime_proofs`, events. `NothingSkipped` at a cursor says nothing of the batch that is
being sent. `StreamOk` describes the stage of a stream (what of the batch is still to be
sent lies beyond the cursor, in order) and `NothingLeftOut` that every visible event up to
the cursor was sent and between cursor and batch is none. From it: `StreamsInvariant`,
`PlacesAreCounted`, `NothingIsSkipped`.

`Realtime_proofs`, notifications. `NoneOvertaken` says that what was not sent lies beyond
the cursor; it is kept because a poll, which takes the newest, leaves nothing behind.
`FeedInv` therefore counts: what a poll or a replay has still to find, with what open
transactions may add, is no more than it asks for (`Fits`). `InOrder` says that
what was not overtaken is sent in order, `SentBefore` and `BlockBefore` where the id a
source resumes from and the block it is reading stand with regard to the cursor.
`GapsInv` is about the transactions: a run that has looked holds the key of its operation
(`OneCallPerKey`) and, unless an administrator interfered, the row it saw (`RowsHeld`),
hence `NoTwoUnresolved`; counts are sizes of disjoint sets, one cell per record.
From them: `NotificationsAreNotPassedOver`, `GapsAreCounted`.

`Browser_proofs`, sessions. The state that matters lies in two places, the server's rows and
what tabs and requests under way carry. `CallsAreOwned` gives each refresh a
tab or marks it as left over, `CallsAreUseful` says that a refresh of a login with one
holder carries its usable token or has been served, `HeldTokenIsUsable` follows the
token through rotation, answer and loss, and `OneHolder` says when a login has one. From
it: `SessionsInvariant`, `SessionsStayAgreed`, `RefusalsAreCopies`.

`Browser_proofs`, desk. `RefusedMeansMoved` speaks of the moment a click is refused.
`OffersKept` says the same of every offer on every screen before anybody clicks: its
handler would accept it now (`Honoured`), or something that decides it has moved
since, or it is one of those never kept (`Excused`). `ClickKept` and `ChatKept` follow a
click between the handler's read and its write. For each page, what its filter selects is
shown to be what the handler behind the offer accepts; for each step of the world, what
it changes is shown to be marked as moved on every screen whose offers it decides.
`ResponsesKept` is the response taken once. From it: `OffersAreKept`, `OneResponseOnly`.

Assumptions used: `None`, `Nil` and `Nothing` are outside the sets they stand beside; amounts are
positive, weights are those the schema admits, offers and edits have their types; bounds
and minima are natural numbers, and depth, calls, attempts and revisions lie between one
(revisions: none) and the code's limits; clients, writers, candidates, calls, sessions of the organization, employees, requests
of leave and references are finite sets; files have at least one record, leaves at least
one day and finitely many; a poll of notifications asks for no more than a replay; who is
there at first is a well-formed staff, led by people who are there, and an imported
file names departments and people. Each is an `ASSUME` of the module that declares the constant,
and TLC evaluates it in the runs.

Every invariant and every action property that the runs check is stated by a theorem,
two of them under a hypothesis: `StaffingKept` for one administrator at a time,
`ImplementsPromise` for one session. Only checked by TLC, because the prover has neither
fairness nor `ENABLED`: liveness (`CallsReturn`, `CallReturns`, `IngestionEnds`,
`EventsArrive`, `NotificationsArrive`), and that a call which waits for nobody has a step
to take (`NobodyIsStuck` of `HRLeave` and of `Registers`, in the further instances).

## Further instances

The listed runs all pass. These configurations lie beside them
(`tlc -config X.cfg M`). Each property is checked by itself (the two `Small` instances
name several: leave one in). All but the last three are violated, which shows what the
code does instead.

| Configuration | Module | Property | What the code does |
|---|---|---|---|
| `MCRoutedRunMovesOn` | `MCRequestLifecycle` | `RoutedRunMovesOn` | the graph chooses each node on the state the run started with, so a routed request never reaches its department |
| `MCFailureIsRecorded` | `MCRequestLifecycle` | `FailureIsRecorded` | a rolled-back Router checkpoint cannot be recorded as a failure; the request stays in routing |
| `MCDepartmentsSmall` | `MCDepartmentWorkflow` | `AlarmsAreReal` | `human_action.required` is never cleared, so after a revision a receiver that merely answers is announced as waiting for a person |
| `MCProcurementIsToldTheTruth` | `MCDepartmentWorkflow` | `ProcurementIsToldTheTruth` | Procurement's question names the amount `total_amount`, Finance reads `estimated_cost` or `quoted_amount`: sufficiency is asserted, not checked |
| `MCDepartmentsSmall` | `MCDepartmentWorkflow` | `FailedStaysFailed` | an unsupported request is marked failed by its checkpoint and completed by a later node |
| `MCReleasedAtMostOnce` | `MCFinanceBudget` | `ReleasedAtMostOnce` | a reservation may be released twice under two references |
| `MCAllocationCoversUse` | `MCFinanceBudget` | `AllocationCoversUse` | a budget's allocation may be lowered below its use |
| `MCPageKeepsUp` | `MCEventStream` | `PageKeepsUp` | events between two heartbeats merge into one message, which the page drops |
| `MCOrganizationSmall` | `MCOrganization` | `RetiredAfterUnassignment` | retiring an asset compares neither holder nor version at the write |
| `MCOrganizationSmall` | `MCOrganization` | `CompletedIsKept` | of two confirmations of one import the loser's failure replaces the winner's completion |
| `MCOrganizationSmall` | `MCOrganization` | `ManagersAreAppointed` | an import makes everyone a row names as manager a department manager |
| `MCOrganizationSmall` | `MCOrganization` | `DisabledIsEmpty` | people are moved into a department while, or after, it is disabled |
| `MCOrganizationSmall` | `MCOrganization` | `NobodyIsStuck` | holds: only rows of users hold up a call that has begun |
| `MCLeaveLive` | `MCHRLeave` | `NobodyIsStuck` | holds: only locks hold up a call that has begun |
| `MCLeaveLive` | `MCHRLeave` | `CallsReturn` | holds: every call of a run and a cancel of one leave ends |

## What the code does not keep

Beyond the further instances, found while modelling. Each is outside what the listed
properties claim: a property names the exception, or a constant excludes it.

* *Requests.* A checkpoint of a running graph undoes a cancel that committed after the
  run loaded the request (`TerminalIsFinal`). Of two overlapping resumes the second
  replaces the owner the first one set (`OwnerImmutable`) and rebuilds the completed
  steps (`StepsNotRewritten`).
* *Leave.* Where `CancelOverlap` holds, a cancel that overlaps an approval leaves the days
  reserved, and two overlapping cancels give the days of one leave back twice. With
  `AdminOverlap`, two administrators add overlapping active rules.
* *Departments.* Customer support, given IT's answer, clears the section: a second
  question asked at once is lost and the run fails at `collaboration_start`. Customer
  support may wait for its customer without a question, and HR and customer support may
  attach a question to any action, so a completed request may still show one. A
  receiver's pause for a person is never followed by more. The answer IT is given carries
  `budget_sufficient` but not whether the policy allows it or the reservation succeeded.
  `persist_..._collaboration_result` find nothing in the translated answers. The document
  keeps the last six calls: a request that goes on longer forgets what Finance answered. A stop
  between a department and the reviewer can complete a risky result unreviewed.
* *Procurement.* With no delivery days and no weight on delivery a score can exceed its
  bound, and the save fails; so does a save of mixed currencies. A selection cannot move
  to a quotation with a smaller id. An edit leaves the other scores as they were. The
  receiver's shortlist is rolled back though it was reported. The weighting of an answer
  is never compared with the one that was read: an answer that weighs quality or
  delivery where the reading did not shortlists, or selects, a quotation that its own
  save leaves without a rank, with no edit in between; an answer without weights
  separates the two records of the selection. Finance's approval may be
  cleared again before the save. Validating an answer reads rows that a rollback has
  expired (`RowsExpire`).
* *Knowledge.* An ingestion under way, or a retry, activates a document that was deleted
  meanwhile (`DeletedIsFinal`). Two uploads of one file both pass the duplicate check
  (`NoDuplicates`). A retried replacement does not retire what it replaces, and a failed
  one blocks further replacement. A retry that cannot reach the index leaks its file. A
  restart leaves documents in processing for good.
* *Organization.* A manager who is moved keeps the role and gains the registers of the
  new department. An edit may set a terminated employee to active while the account stays
  closed. An imported file in which people manage each other in a circle is imported as it
  is. Two appointments that edits have overtaken may wait for each other.
  `manager_coverage` demands active employment where `get_status` does not. A
  supplier's name with blanks around it passes the check. Deleting a leave balance
  answers 204 and leaves the row; a soft delete of software moves no version.
* *Streams.* Of a burst of more than a batch only the newest notifications are streamed,
  and one that commits late never is. A resumed stream sends what it replayed a second
  time (`ResumesOnce`). The page skips an event when another request's event had the same
  number (`OnlyDuplicatesSkipped`).
* *Sessions.* A refresh that is answered after a logout puts its pair back; after another
  login in the same tab it replaces that login's pair, and a waiting request is retried
  with it.
* *Desk.* The question of a request cancelled before it was answered stays on its page.
  A manager's pages link to actions that name another person and no role. The page of an
  action links to its request, whoever may see that. The assistant sends every later
  message to the request of the first, as an answer to a question it did not ask. The
  dashboard of a manager counts all actions of the department's requests, the inbox asks
  for role and person together.

## Not modelled

* **LLM client** (`llm/`): one loop over the provider's answers that keeps nothing
  between calls. What the provider answers, an error included, is a choice of the
  environment in every model.
* **Earlier engine** (`workflow/engine.py`, `linear_runner.py`, `steps/`): imported by
  nothing.
* **Core and configuration**: plumbing; what a database session does is part of every
  model.
* **Presentation** in `src/frontend`: layout, forms and the query cache.
* Left out of modelled components: what language models are told and how answers are
  parsed; texts; evidence; read-only lists, counts and statistics; marking notifications
  as read (one conditional UPDATE of the reader's own rows; `mark_all_read` also marks
  what the page has not shown); `FailureService.resolve`, which has no route; permissions
  of retrieval, chunking and extraction (pure functions of one input, or parsing of
  foreign formats); onboarding checklists and job descriptions of HR; access grants and
  hardware of IT; hashing and signing; `change_password`, which touches no token.

## Plan

An abstract specification of the departments in control, implemented by
`DepartmentWorkflow`; a liveness property of `Desk` and of `Session`, once the browser's
time-outs are modelled.
