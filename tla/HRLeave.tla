------------------------------- MODULE HRLeave -------------------------------
(***************************************************************************)
(* Leave requests of one department: the days they reserve on the leave    *)
(* balances of their employees, the staffing rules that bound who may be   *)
(* absent, the cancellation of a request and the administration of rules   *)
(* and balances (departments/hr/service.py, departments/hr/tools.py,       *)
(* requests/service.py, admin/service.py).                                 *)
(*                                                                         *)
(* A run decides on unlocked reads and persists its decision later, in a   *)
(* transaction that locks the request, the leave, the balance and the      *)
(* staffing rule in this order; a cancel locks the leave, the balance and  *)
(* the request.  Every lock is held until the transaction ends.            *)
(***************************************************************************)
EXTENDS Integers, FiniteSets

CONSTANTS Sessions,      \* concurrent handlers
          Requests,      \* leave requests
          Employees,     \* the active employees of the department
          Cases,         \* who asks for leave of which workdays, the periods
                         \* of rules that stand at first, what an administrator
                         \* may set meanwhile: days of a balance, periods of a
                         \* rule; and whether a cancel may overlap
                         \* another handler of its request
          Rules,         \* rows of department_staffing_rules
          Minima,        \* the minimum staffing a rule may ask for
          AdminOverlap,  \* two administrators may edit rules at once
          None

ASSUME CasesAssumption ==
  \A f \in Cases : /\ f.owner \in [Requests -> Employees]
                   /\ \A r \in Requests : f.span[r] # {} /\ IsFiniteSet(f.span[r])
                   /\ f.allotments \subseteq Nat
                   /\ f.overlap \in BOOLEAN
ASSUME MinimaAssumption == Minima \subseteq Nat
ASSUME RowsAssumption == IsFiniteSet(Employees) /\ IsFiniteSet(Requests)

VARIABLES plan,     \* the case at hand; never changed
          leave,    \* leave_requests
          balance,  \* leave_balances, one per employee
          rule,     \* department_staffing_rules
          request,  \* status of the business request
          call      \* what each session is doing

vars == <<plan, leave, balance, rule, request, call>>

Owner == plan.owner
Span == plan.span
Allotments == plan.allotments
Periods == plan.periods
Standing == plan.standing
CancelOverlap == plan.overlap

-----------------------------------------------------------------------------
Decisions == {"none", "pending", "approved", "rejected", "cancelled"}

\* "none" is a request without a row in leave_requests.
Leaves == [decision : Decisions, reserved : Nat]
NoLeave == [decision |-> "none", reserved |-> 0]

\* used_days is left out: no code writes it.
Balances == [allocated : Nat, reserved : Nat]
NoBalance == [allocated |-> 0, reserved |-> 0]

\* The check constraints of leave_balances.
BalanceOk(b) == b.reserved >= 0 /\ b.reserved <= b.allocated

RuleForms(periods) == [days : periods, minimum : Minima, active : BOOLEAN]
RuleRows == RuleForms(Periods \cup Standing)

\* "open" is every status that is not terminal; "closed" every terminal one but
\* cancelled.
RequestStates == {"open", "closed", "cancelled"}

Locks == {"request", "leave"} \X Requests
           \cup {"balance"} \X Employees \cup {"rule"} \X Rules

Idle == [pc |-> "idle", locks |-> {}]

Runs == [kind : {"run"}, pc : {"decided", "request", "leave", "balance", "ready", "ran"},
         r : Requests, decision : {"pending", "approved", "rejected"}, staffed : BOOLEAN,
         leave : Leaves, balance : Balances, locks : SUBSET Locks]
Cancels == [kind : {"cancel"}, pc : {"cancelling", "releasing", "updating"},
            r : Requests, leave : Leaves, balance : Balances, locks : SUBSET Locks]
Edits == [kind : {"edit"}, pc : {"editing"}, u : Rules, new : RuleForms(Periods), old : BOOLEAN,
          locks : {{}}]

Calls == {Idle} \cup Runs \cup Cancels \cup Edits

Is(s, kind, pc) == call[s] # Idle /\ call[s].kind = kind /\ call[s].pc = pc
WorksOn(s, r) == call[s] # Idle /\ call[s].kind \in {"run", "cancel"} /\ call[s].r = r

-----------------------------------------------------------------------------
(* Row locks: FOR UPDATE and UPDATE wait for the transaction that holds it. *)

LockFree(s, l) == \A t \in Sessions \ {s} : l \notin call[t].locks
Unlocked(l) == \A t \in Sessions : l \notin call[t].locks

Bug_PlainSelect(x) == {}
BalanceLock(e) == {<<"balance", e>>}
RuleLock(u) == {<<"rule", u>>}

\* Session s locks ls and goes on as c.
Acquire(s, ls, c) ==
  /\ \A l \in ls : LockFree(s, l)
  /\ call' = [call EXCEPT ![s] = [c EXCEPT !.locks = @ \cup ls]]
  /\ UNCHANGED <<plan, leave, balance, rule, request>>

\* A session that ends, gives its locks back.
Return(s) == call' = [call EXCEPT ![s] = Idle]

-----------------------------------------------------------------------------
(* Facts.                                                                  *)

Days(r) == Cardinality(Span[r])
Holds(r) == leave[r].decision = "approved" /\ leave[r].reserved > 0

\* The other employees absent on some day of the request.
Overlapping(r) ==
  {Owner[q] : q \in {q \in Requests \ {r} : Holds(q) /\ Span[q] \cap Span[r] # {}}}

Start(u) == CHOOSE d \in rule[u].days : \A e \in rule[u].days : d <= e
Covering(r) == {u \in Rules : /\ rule[u] # None
                              /\ rule[u].active
                              /\ Span[r] \subseteq rule[u].days}

\* The rule with the latest effective_from.
Applicable(r) == {u \in Covering(r) : \A v \in Covering(r) : Start(v) <= Start(u)}

StaffingOk(r, u) ==
  Cardinality(Employees) - Cardinality(Overlapping(r)) - 1 >= rule[u].minimum

\* _apply_authoritative_facts: the policy and the manager's answer choose
\* between the three decisions; a shortage decides for rejection.
Short(r) ==
  \/ balance[Owner[r]].allocated - balance[Owner[r]].reserved < Days(r)
  \/ \E u \in Applicable(r) : ~StaffingOk(r, u)

Verdicts(r) == IF Short(r) THEN {"rejected"} ELSE {"pending", "approved", "rejected"}

-----------------------------------------------------------------------------
(* A run of the workflow: decide, persist, go on.                          *)

Decide(s, r) ==
  /\ call[s] = Idle
  /\ request[r] = "open"
  /\ CancelOverlap \/ \A t \in Sessions : ~(WorksOn(t, r) /\ call[t].kind = "cancel")
  /\ \E d \in Verdicts(r) :
       call' = [call EXCEPT ![s] =
                  [kind |-> "run", pc |-> "decided", r |-> r, decision |-> d,
                   staffed |-> Applicable(r) # {}, leave |-> NoLeave,
                   balance |-> NoBalance, locks |-> {}]]
  /\ UNCHANGED <<plan, leave, balance, rule, request>>

\* save_checkpoint updates the request's row first.
LockRequest(s) ==
  /\ Is(s, "run", "decided")
  /\ Acquire(s, {<<"request", call[s].r>>}, [call[s] EXCEPT !.pc = "request"])

\* A leave without a row has nothing to lock.
LeaveLock(r) == IF leave[r].decision = "none" THEN {} ELSE {<<"leave", r>>}
LockLeave(s) ==
  LET c == call[s] IN
    /\ Is(s, "run", "request")
    /\ Acquire(s, LeaveLock(c.r), [c EXCEPT !.pc = "leave", !.leave = leave[c.r]])

LockBalance(s) ==
  LET c == call[s] IN
    /\ Is(s, "run", "leave")
    /\ Acquire(s, BalanceLock(Owner[c.r]),
               [c EXCEPT !.pc = "balance", !.balance = balance[Owner[c.r]]])

Desired(c) == IF c.decision = "approved" THEN Days(c.r) ELSE 0
Delta(c) == Desired(c) - c.leave.reserved

\* An approval that reserves more is validated again: the balance under its
\* lock, then the absences under the lock of the staffing rule.
Covered(c) == c.balance.allocated - c.balance.reserved >= Delta(c)
Revalidates(c) == Delta(c) > 0 /\ Covered(c) /\ c.staffed
LockRule(s) ==
  LET c == call[s] IN
    /\ Is(s, "run", "balance") /\ Revalidates(c)
    /\ \E u \in Applicable(c.r) :
         /\ StaffingOk(c.r, u)
         /\ Acquire(s, RuleLock(u), [c EXCEPT !.pc = "ready"])

\* Whether the balance can give back what the decision releases.
Releasable(c) == Delta(c) <= 0 /\ c.balance.reserved + Delta(c) >= 0

\* The transaction is over, and what it read is of no more use.
Ran(c) ==
  [c EXCEPT !.pc = "ran", !.leave = NoLeave, !.balance = NoBalance, !.locks = {}]

Commit(s) ==
  LET c == call[s]
      new == [c.balance EXCEPT !.reserved = @ + Delta(c)]
  IN /\ Is(s, "run", "ready") \/ (Is(s, "run", "balance") /\ Releasable(c))
     /\ BalanceOk(new)
     /\ leave' = [leave EXCEPT ![c.r] = [decision |-> c.decision, reserved |-> Desired(c)]]
     /\ balance' = IF Delta(c) = 0 THEN balance
                   ELSE [balance EXCEPT ![Owner[c.r]].reserved = new.reserved]
     /\ request' = [request EXCEPT ![c.r] = "open"]
     /\ call' = [call EXCEPT ![s] = Ran(c)]
     /\ UNCHANGED <<plan, rule>>

\* A revalidation that fails rolls the checkpoint back; the run goes on to
\* record the failure.
Refused(c) ==
  \/ Delta(c) > 0 /\ \/ ~Covered(c) \/ ~c.staffed
                     \/ Applicable(c.r) = {}
                     \/ \E u \in Applicable(c.r) :
                          Unlocked(<<"rule", u>>) /\ ~StaffingOk(c.r, u)
  \/ Delta(c) < 0 /\ ~Releasable(c)
Refuse(s) ==
  LET c == call[s] IN
    /\ Is(s, "run", "balance") /\ Refused(c)
    /\ call' = [call EXCEPT ![s] = Ran(c)]
    /\ UNCHANGED <<plan, leave, balance, rule, request>>

\* The run closes the request (completed, rejected or failed), or leaves it to
\* a person's answer or a review.
Close(s) ==
  /\ Is(s, "run", "ran")
  /\ LockFree(s, <<"request", call[s].r>>)
  /\ request' = [request EXCEPT ![call[s].r] = "closed"]
  /\ Return(s)
  /\ UNCHANGED <<plan, leave, balance, rule>>
Wait(s) ==
  /\ Is(s, "run", "ran")
  /\ Return(s)
  /\ UNCHANGED <<plan, leave, balance, rule, request>>

-----------------------------------------------------------------------------
(* Cancellation.                                                           *)

\* cancel reads the request and the leave without a lock.
CancelRead(s, r) ==
  /\ call[s] = Idle
  /\ request[r] = "open"
  /\ CancelOverlap \/ \A t \in Sessions : ~WorksOn(t, r)
  /\ call' = [call EXCEPT ![s] =
                [kind |-> "cancel", r |-> r, leave |-> leave[r],
                 pc |-> IF leave[r].decision = "none" THEN "updating" ELSE "cancelling",
                 balance |-> NoBalance, locks |-> {}]]
  /\ UNCHANGED <<plan, leave, balance, rule, request>>

\* release_leave_reservation locks the row, but the session already holds the
\* object: the days it gives back are the ones read before.
Bug_NothingToRelease(c) == FALSE
ToRelease(c) == c.leave.reserved > 0
CancelLockLeave(s) ==
  LET c == call[s] IN
    /\ Is(s, "cancel", "cancelling")
    /\ Acquire(s, {<<"leave", c.r>>},
               [c EXCEPT !.pc = IF ToRelease(c) THEN "releasing" ELSE "updating"])

CancelLockBalance(s) ==
  LET c == call[s] IN
    /\ Is(s, "cancel", "releasing")
    /\ balance[Owner[c.r]].reserved >= c.leave.reserved
    /\ Acquire(s, BalanceLock(Owner[c.r]),
               [c EXCEPT !.pc = "updating", !.balance = balance[Owner[c.r]]])

\* Otherwise the leave reservation state is inconsistent, and cancel raises.
CancelRefuse(s) ==
  /\ Is(s, "cancel", "releasing")
  /\ LockFree(s, <<"balance", Owner[call[s].r]>>)
  /\ balance[Owner[call[s].r]].reserved < call[s].leave.reserved
  /\ Return(s)
  /\ UNCHANGED <<plan, leave, balance, rule, request>>

\* Only the attributes that changed since the read are written.
Released(c, now) ==
  [decision |-> IF c.leave.decision = "rejected" THEN now.decision ELSE "cancelled",
   reserved |-> 0]
CancelCommit(s) ==
  LET c == call[s]
      e == Owner[c.r]
  IN /\ Is(s, "cancel", "updating")
     /\ LockFree(s, <<"request", c.r>>)
     /\ request' = [request EXCEPT ![c.r] = "cancelled"]
     /\ IF ToRelease(c)
        THEN /\ leave' = [leave EXCEPT ![c.r] = Released(c, @)]
             /\ balance' = [balance EXCEPT ![e].reserved = c.balance.reserved - c.leave.reserved]
        ELSE UNCHANGED <<leave, balance>>
     /\ Return(s)
     /\ UNCHANGED <<plan, rule>>

-----------------------------------------------------------------------------
(* Administration of staffing rules and balances.                          *)

\* An active rule of the department with a day in common.
Clash(u, new) == \E v \in Rules \ {u} : /\ rule[v] # None
                                        /\ rule[v].active
                                        /\ rule[v].days \cap new.days # {}

EditCheck(s, u, new) ==
  /\ call[s] = Idle
  /\ AdminOverlap \/ \A t \in Sessions : ~Is(t, "edit", "editing")
  /\ ~Clash(u, new)
  /\ call' = [call EXCEPT ![s] = [kind |-> "edit", pc |-> "editing", u |-> u, new |-> new,
                                  old |-> rule[u] # None, locks |-> {}]]
  /\ UNCHANGED <<plan, leave, balance, rule, request>>

\* effective_from is unique in the department.
StartTaken(u, new) ==
  \E v \in Rules \ {u} : /\ rule[v] # None
                         /\ Start(v) = CHOOSE d \in new.days : \A e \in new.days : d <= e
EditWrite(s) ==
  LET c == call[s] IN
    /\ Is(s, "edit", "editing")
    /\ LockFree(s, <<"rule", c.u>>)
    /\ rule' = IF c.old = (rule[c.u] # None) /\ ~StartTaken(c.u, c.new)
               THEN [rule EXCEPT ![c.u] = c.new] ELSE rule
    /\ Return(s)
    /\ UNCHANGED <<plan, leave, balance, request>>

DeleteRule(u) ==
  /\ rule[u] # None
  /\ Unlocked(<<"rule", u>>)
  /\ rule' = [rule EXCEPT ![u] = None]
  /\ UNCHANGED <<plan, leave, balance, request, call>>

\* An administrator's update of a balance has the check constraint for guard.
Allocate(e) ==
  /\ Unlocked(<<"balance", e>>)
  /\ \E a \in Allotments : /\ BalanceOk([balance[e] EXCEPT !.allocated = a])
                           /\ balance' = [balance EXCEPT ![e].allocated = a]
  /\ UNCHANGED <<plan, leave, rule, request, call>>

-----------------------------------------------------------------------------
(* Failures.                                                               *)

\* A failed statement, a crash: the transaction and the call are gone.
Rollback(s) ==
  /\ call[s] # Idle
  /\ Return(s)
  /\ UNCHANGED <<plan, leave, balance, rule, request>>

\* The locks a session would have to wait for.
RuleLocks(r) == UNION {RuleLock(u) : u \in Applicable(r)}
Wanted(s) ==
  LET c == call[s] IN
    CASE Is(s, "run", "decided") -> {<<"request", c.r>>}
      [] Is(s, "run", "request") -> LeaveLock(c.r)
      [] Is(s, "run", "leave") -> BalanceLock(Owner[c.r])
      [] Is(s, "run", "balance") -> IF Revalidates(c) THEN RuleLocks(c.r) ELSE {}
      [] Is(s, "edit", "editing") -> RuleLock(c.u)
      [] Is(s, "cancel", "cancelling") -> {<<"leave", c.r>>}
      [] Is(s, "cancel", "releasing") -> BalanceLock(Owner[c.r])
      [] Is(s, "cancel", "updating") -> {<<"request", c.r>>}
      [] OTHER -> {}
WaitsFor(s, t) == s # t /\ Wanted(s) \cap call[t].locks # {}

\* PostgreSQL aborts one of two transactions that wait for each other.
BreakDeadlock(s) ==
  /\ \E t \in Sessions : WaitsFor(s, t) /\ WaitsFor(t, s)
  /\ Rollback(s)

-----------------------------------------------------------------------------
Init ==
  /\ leave = [r \in Requests |-> NoLeave]
  /\ plan \in Cases
  /\ balance \in [Employees -> [allocated : Allotments, reserved : {0}]]
  /\ rule \in [Rules -> RuleForms(Standing) \cup {None}]
  /\ \A u \in Rules : rule[u] # None => rule[u].active /\ ~Clash(u, rule[u])
  /\ request = [r \in Requests |-> "open"]
  /\ call = [s \in Sessions |-> Idle]

Run(s) == \/ LockRequest(s) \/ LockLeave(s) \/ LockBalance(s) \/ LockRule(s)
          \/ Commit(s) \/ Refuse(s) \/ Close(s) \/ Wait(s)
Cancel(s) == CancelLockLeave(s) \/ CancelLockBalance(s) \/ CancelRefuse(s) \/ CancelCommit(s)

Next ==
  \/ \E s \in Sessions :
       \/ \E r \in Requests : Decide(s, r) \/ CancelRead(s, r)
       \/ Run(s) \/ Cancel(s) \/ Rollback(s)
       \/ \E u \in Rules, new \in RuleForms(Periods) : EditCheck(s, u, new)
       \/ EditWrite(s)
  \/ \E u \in Rules : DeleteRule(u)
  \/ \E e \in Employees : Allocate(e)

Spec == Init /\ [][Next]_vars

\* Lock waiters are served in order, so a lock that is freed again and again
\* is obtained; the model's calls end, within their time-outs.
LiveSpec ==
  /\ Spec
  /\ \A s \in Sessions : /\ SF_vars(Run(s) \/ Cancel(s) \/ EditWrite(s))
                         /\ WF_vars(BreakDeadlock(s))

-----------------------------------------------------------------------------
(* Properties.                                                             *)

\* Every variable has its type, and no balance is overdrawn.
TypeOK ==
  /\ leave \in [Requests -> Leaves]
  /\ balance \in [Employees -> Balances]
  /\ \A e \in Employees : balance[e].reserved <= balance[e].allocated
  /\ rule \in [Rules -> RuleRows \cup {None}]
  /\ request \in [Requests -> RequestStates]
  /\ call \in [Sessions -> Calls]

\* An approval leaves every day it covers staffed: the employees who are not
\* absent are at least the minimum of each active rule over that day, however
\* approvals, cancellations and edits of rules interleave.
ApprovalsKeepMinimum ==
  [][\A r \in Requests : ~Holds(r) /\ Holds(r)' =>
       \A d \in Span[r], u \in Rules :
         /\ rule'[u] # None
         /\ rule'[u].active
         /\ d \in rule'[u].days
         => Cardinality(Employees \ {Owner[q] : q \in {q \in Requests :
                                       d \in Span[q] /\ Holds(q)'}})
              >= rule'[u].minimum]_vars

\* At most one active rule covers a day.
RulesDisjoint ==
  \A u, v \in Rules :
    /\ u # v
    /\ rule[u] # None /\ rule[u].active
    /\ rule[v] # None /\ rule[v].active
    => rule[u].days \cap rule[v].days = {}

\* The department stays staffed: one minimum holds for each day, and every
\* approval keeps it.
StaffingKept == ApprovalsKeepMinimum /\ []RulesDisjoint

\* Days are held by approvals only: a pending, rejected or cancelled leave
\* reserves nothing.
OnlyApprovalsHold == \A r \in Requests : leave[r].reserved > 0 => Holds(r)

\* The days the leaves of an employee hold, the n-th day of a leave one of them.
HeldDays(e) == UNION {{r} \X (1..leave[r].reserved) : r \in {q \in Requests : Owner[q] = e}}

\* The days a balance has reserved are those its employee's leaves hold: an
\* approval reserves once, and what it reserved is released once, if no cancel
\* overlaps another handler of its request.
ReservationsAddUp ==
  ~CancelOverlap =>
    \A e \in Employees : balance[e].reserved = Cardinality(HeldDays(e))

\* The books of the leaves: requests, balances and approvals agree with one another.
BooksAgree == TypeOK /\ OnlyApprovalsHold /\ ReservationsAddUp

\* A cancelled request that nobody is working on holds no days, under the same
\* condition.
CancelledHoldsNothing ==
  ~CancelOverlap =>
    \A r \in Requests :
      request[r] = "cancelled" /\ (\A s \in Sessions : ~WorksOn(s, r)) => ~Holds(r)

\* Only a run and a cancel of one leave can wait for each other: their orders of
\* locking are opposite, all others agree.
OneCircle ==
  \A s, t \in Sessions : WaitsFor(s, t) /\ WaitsFor(t, s) =>
    call[s].kind # call[t].kind /\ call[s].r = call[t].r

\* However many calls are under way, one of them waits for nobody, or the database
\* ends a circle of two: no longer circle of runs, cancels and edits ever closes.
SomeoneGoesOn ==
  (\E s \in Sessions : call[s] # Idle) =>
    \E s \in Sessions : /\ call[s] # Idle
                        /\ \/ \A t \in Sessions : ~WaitsFor(s, t)
                           \/ \E t \in Sessions : WaitsFor(s, t) /\ WaitsFor(t, s)

\* A call that waits for nobody has a step to take.
NobodyIsStuck ==
  \A s \in Sessions : call[s] # Idle /\ (\A t \in Sessions : ~WaitsFor(s, t)) =>
    ENABLED (Run(s) \/ Cancel(s) \/ EditWrite(s))

\* Cancelling is safe: it leaves no days held and nobody waiting for ever.
CancelsAreSafe == CancelledHoldsNothing /\ OneCircle /\ SomeoneGoesOn

\* Every call ends.
CallsReturn == \A s \in Sessions : call[s] # Idle ~> call[s] = Idle
=============================================================================
