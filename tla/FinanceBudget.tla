---------------------------- MODULE FinanceBudget ----------------------------
(***************************************************************************)
(* Budgets and the ledger of their movements: the Finance tool service     *)
(* (departments/finance/tools.py) called by concurrent workflow sessions,  *)
(* and the administration of budgets (admin/service.py), which reads       *)
(* without a lock and writes under an optimistic version.                  *)
(*                                                                         *)
(* A tool call locks the budget row with SELECT ... FOR UPDATE, decides on *)
(* the object it read, and its session commits or rolls back later; the    *)
(* lock is held in between.  References are unique in the company, so the  *)
(* ledger is a function of the reference.                                  *)
(***************************************************************************)
EXTENDS Integers, FiniteSets

CONSTANTS Sessions,     \* concurrent handlers
          Budgets,      \* rows of `budgets`
          Requests,     \* business requests that may own a finance_requests row
          Answers,      \* reservation statuses the model's answers may carry
          References,   \* idempotency references
          Amounts,      \* amounts a caller may name, in cents
          Authorized,   \* the tool is built with an independent approver
          Executed,     \* the tool is built with execution_confirmed
          MaxAllocated, \* bound on an allocation
          MaxVersion,   \* bound on the optimistic version
          None          \* no reference, no entry

ASSUME AmountsAssumption == Amounts \subseteq Nat \ {0}
ASSUME AnswersAssumption == Answers \subseteq
  {"not_requested", "pending", "reserved", "released", "failed"}
ASSUME BoundsAssumption == MaxAllocated \in Nat /\ MaxVersion \in Nat
ASSUME FlagsAssumption == Authorized \in BOOLEAN /\ Executed \in BOOLEAN
ASSUME ReferencesAssumption == IsFiniteSet(References)
ASSUME NoneAssumption == None \notin References

VARIABLES budget,  \* committed rows
          ledger,  \* committed financial_transactions, by reference
          label,   \* finance_requests.reservation_status, by request
          call     \* what each session is doing

vars == <<budget, ledger, label, call>>

-----------------------------------------------------------------------------
Labels == {"not_requested", "pending", "reserved", "released", "failed"}

\* "inactive" stands for draft, frozen, closed, out of period or of another
\* currency: the four answers of _validate_budget before the amount.
Statuses == {"absent", "active", "inactive"}

Rows == [status : Statuses, version : Nat, allocated : Nat,
         reserved : Nat, committed : Nat, spent : Nat]

NoRow == [status |-> "absent", version |-> 0, allocated |-> 0,
          reserved |-> 0, committed |-> 0, spent |-> 0]

Recorded == {"commitment", "expense", "adjustment", "reversal"}
Types == {"reservation", "release"} \cup Recorded

Entries == [type : Types, budget : Budgets, amount : Amounts,
            target : References \cup {None}, status : {"confirmed", "reversed"}]

ASSUME NoEntryAssumption == None \notin Entries

\* A tool call's arguments, and an administrator's new allocation (0: not
\* given) and status.
Movements == [type : Types, budget : Budgets, amount : Amounts,
              reference : References, target : References \cup {None},
              request : Requests]
Revisions == [type : {"revise"}, budget : Budgets, amount : 0..MaxAllocated,
              status : Statuses \ {"absent"}]

Idle == [pc |-> "idle"]
Calls == {Idle} \cup [pc : {"holding"}, op : Movements, row : Rows]
                \cup [pc : {"revising"}, op : Revisions, row : Rows]

Held(row) == row.reserved + row.committed + row.spent
Available(row) == row.allocated - Held(row)

\* SELECT ... FOR UPDATE and UPDATE wait for the holder of the row.
Bug_NoBudgetLock(b) == TRUE
LockFree(b) == \A s \in Sessions : call[s].pc = "holding" => call[s].op.budget # b

-----------------------------------------------------------------------------
(* What each movement requires of the locked row, and what it makes of it. *)

\* The confirmed entry of the same budget and amount a call refers to.
Bug_AnyEntry(op) == op.target # None /\ ledger[op.target] # None
Matches(op) ==
  /\ op.target # None
  /\ ledger[op.target] # None
  /\ ledger[op.target].budget = op.budget
  /\ ledger[op.target].status = "confirmed"
  /\ ledger[op.target].amount = op.amount

\* The column _reverse_totals gives back, for the types it knows.
Field == [reservation |-> "reserved", commitment |-> "committed",
          expense |-> "spent", adjustment |-> "allocated"]

ReserveOk(op, row) == row.status = "active" /\ op.amount <= Available(row)

ReleaseOk(op, row) ==
  Matches(op) /\ ledger[op.target].type = "reservation" /\ row.reserved >= op.amount

RecordOk(op, row) ==
  /\ Authorized
  /\ CASE op.type = "commitment" ->
            row.reserved >= op.amount \/ op.amount <= Available(row)
       [] op.type = "expense" ->
            Executed /\ (row.committed >= op.amount \/ op.amount <= Available(row))
       [] op.type = "adjustment" -> TRUE
       [] op.type = "reversal" ->
            /\ Matches(op)
            /\ ledger[op.target].type \in DOMAIN Field
            /\ row[Field[ledger[op.target].type]] >= op.amount

Accepted(op, row) == CASE op.type = "reservation" -> ReserveOk(op, row)
                       [] op.type = "release" -> ReleaseOk(op, row)
                       [] OTHER -> RecordOk(op, row)

\* A total that covers the amount gives it up, one that does not is left.
Take(row, total, amount) ==
  IF row[total] >= amount THEN [row EXCEPT ![total] = @ - amount] ELSE row

After(op, row) ==
  CASE op.type = "reservation" -> [row EXCEPT !.reserved = @ + op.amount]
    [] op.type = "release" -> [row EXCEPT !.reserved = @ - op.amount]
    [] op.type = "commitment" ->
         [Take(row, "reserved", op.amount) EXCEPT !.committed = @ + op.amount]
    [] op.type = "expense" ->
         [Take(row, "committed", op.amount) EXCEPT !.spent = @ + op.amount]
    [] op.type = "adjustment" -> [row EXCEPT !.allocated = @ + op.amount]
    [] op.type = "reversal" -> [row EXCEPT ![Field[ledger[op.target].type]] = @ - op.amount]

\* The ORM writes the columns whose value changed since they were read.
Flush(row, read, new) == [f \in DOMAIN row |-> IF new[f] # read[f] THEN new[f] ELSE row[f]]

Entry(op) == [type |-> op.type, budget |-> op.budget, amount |-> op.amount,
              target |-> op.target,
              status |-> "confirmed"]

\* The new entry, and the original of a reversal marked reversed.
Bug_KeepOriginal(op) == [ledger EXCEPT ![op.reference] = Entry(op)]
Posted(op) ==
  [k \in References |->
     IF k = op.reference THEN Entry(op)
     ELSE IF op.type = "reversal" /\ k = op.target
          THEN [ledger[k] EXCEPT !.status = "reversed"] ELSE ledger[k]]

-----------------------------------------------------------------------------
(* Tool calls.                                                             *)

\* execute: lock the row, look the reference up, validate.  A call that finds
\* its reference answers from the ledger and one that is rejected raises;
\* neither changes anything, so only accepted calls are steps.
Begin(s, op) ==
  /\ call[s] = Idle
  /\ budget[op.budget].status # "absent"
  /\ LockFree(op.budget)
  /\ ledger[op.reference] = None
  /\ Accepted(op, budget[op.budget])
  /\ call' = [call EXCEPT ![s] = [pc |-> "holding", op |-> op, row |-> budget[op.budget]]]
  /\ UNCHANGED <<budget, ledger, label>>

\* A dedicated tool relabels the finance_requests row, if there is one.
Relabelled(op) ==
  IF label[op.request] = None THEN label
  ELSE CASE op.type = "reservation" -> [label EXCEPT ![op.request] = "reserved"]
         [] op.type = "release" -> [label EXCEPT ![op.request] = "released"]
         [] OTHER -> label

\* The entry is inserted (its reference must still be unique), the totals are
\* written, and the workflow's checkpoint commits.
Unique(op) == ledger[op.reference] = None
Commit(s) ==
  /\ call[s].pc = "holding"
  /\ LET op == call[s].op
         new == After(op, call[s].row)
     IN /\ Unique(op)
        /\ ledger' = Posted(op)
        /\ budget' = [budget EXCEPT ![op.budget] = Flush(@, call[s].row, new)]
        /\ label' = Relabelled(op)
  /\ call' = [call EXCEPT ![s] = Idle]

\* A duplicate reference, a failed statement, a failed checkpoint, a crash.
Rollback(s) ==
  /\ call[s].pc = "holding"
  /\ call' = [call EXCEPT ![s] = Idle]
  /\ UNCHANGED <<budget, ledger, label>>

\* persist_result of the Finance service upserts the request's row with the
\* reservation status the model's answer carries.
PersistResult(r) ==
  /\ \E v \in Answers : label' = [label EXCEPT ![r] = v]
  /\ UNCHANGED <<budget, ledger, call>>

-----------------------------------------------------------------------------
(* Administration.                                                         *)

Created(a, st) == [NoRow EXCEPT !.status = st, !.version = 1, !.allocated = a]
Create(b) ==
  /\ budget[b].status = "absent"
  /\ \E a \in Amounts, st \in {"active", "inactive"} :
       /\ a <= MaxAllocated
       /\ budget' = [budget EXCEPT ![b] = Created(a, st)]
  /\ UNCHANGED <<ledger, label, call>>

\* AdminBudgetService.update reads the row without a lock and checks the new
\* allocation against it.
RevisionOk(op, row) == op.amount # 0 => op.amount >= Held(row)
ReviseRead(s, op) ==
  /\ call[s] = Idle
  /\ budget[op.budget].status # "absent"
  /\ budget[op.budget].version < MaxVersion
  /\ RevisionOk(op, budget[op.budget])
  /\ call' = [call EXCEPT ![s] = [pc |-> "revising", op |-> op, row |-> budget[op.budget]]]
  /\ UNCHANGED <<budget, ledger, label>>

\* UPDATE ... WHERE version = expected: the tools never touch the version.
Bug_AnyVersion(row, read) == TRUE
SameVersion(row, read) == row.version = read.version
Revised(row, read, op) ==
  [row EXCEPT !.allocated = IF op.amount = 0 THEN @ ELSE op.amount,
              !.status = op.status, !.version = read.version + 1]
ReviseWrite(s) ==
  /\ call[s].pc = "revising"
  /\ LET op == call[s].op IN
       /\ LockFree(op.budget)
       /\ budget' = IF SameVersion(budget[op.budget], call[s].row)
                    THEN [budget EXCEPT ![op.budget] = Revised(@, call[s].row, op)]
                    ELSE budget
  /\ call' = [call EXCEPT ![s] = Idle]
  /\ UNCHANGED <<ledger, label>>

\* soft_delete closes the budget and leaves the version.
SoftDelete(b) ==
  /\ budget[b].status # "absent"
  /\ LockFree(b)
  /\ budget' = [budget EXCEPT ![b].status = "inactive"]
  /\ UNCHANGED <<ledger, label, call>>

-----------------------------------------------------------------------------
Init ==
  /\ budget = [b \in Budgets |-> NoRow]
  /\ ledger = [k \in References |-> None]
  /\ label = [r \in Requests |-> None]
  /\ call = [s \in Sessions |-> Idle]

\* The tool's three writing operations, told apart by the kind of movement.
Reserve(s) == \E op \in Movements : op.type = "reservation" /\ op.target = None /\ Begin(s, op)
Release(s) == \E op \in Movements : op.type = "release" /\ Begin(s, op)
Record(s) == \E op \in Movements :
               /\ op.type \in Recorded
               /\ op.type # "reversal" => op.target = None
               /\ op.type = "adjustment" =>
                    budget[op.budget].allocated + op.amount <= MaxAllocated
               /\ Begin(s, op)
Revise(s) == \E op \in Revisions : ReviseRead(s, op)

Next ==
  \/ \E s \in Sessions : \/ Reserve(s) \/ Release(s) \/ Record(s)
                         \/ Commit(s) \/ Rollback(s)
                         \/ Revise(s) \/ ReviseWrite(s)
  \/ \E r \in Requests : PersistResult(r)
  \/ \E b \in Budgets : Create(b) \/ SoftDelete(b)

Spec == Init /\ [][Next]_vars

-----------------------------------------------------------------------------
(* Properties.                                                             *)

\* Every variable has its type; amounts never go below zero, which the check
\* constraints of `budgets` would refuse.
TypeOK ==
  /\ budget \in [Budgets -> Rows]
  /\ ledger \in [References -> Entries \cup {None}]
  /\ label \in [Requests -> Labels \cup {None}]
  /\ call \in [Sessions -> Calls]

\* The holder of a budget's lock is alone, and the object it works on is the
\* committed row: what it decided on is still so when it commits.
HolderIsCurrent ==
  \A s \in Sessions : call[s].pc = "holding" =>
    /\ call[s].row = budget[call[s].op.budget]
    /\ call[s].row.status # "absent"
    /\ Accepted(call[s].op, call[s].row)
    /\ \A t \in Sessions \ {s} :
         call[t].pc = "holding" => call[t].op.budget # call[s].op.budget

\* What the confirmed entries of a budget and a type add up to: each entry
\* counts as many pairs as it has cents.
Counted(k, b, type) ==
  IF /\ ledger[k] # None
     /\ ledger[k].budget = b
     /\ ledger[k].type = type
     /\ ledger[k].status = "confirmed"
  THEN ledger[k].amount ELSE 0

Total(b, type) == Cardinality(UNION {{k} \X (1..Counted(k, b, type)) : k \in References})

\* The ledger explains the totals: no money is held without a confirmed
\* reservation, none is committed without a confirmed commitment, and what is
\* spent is exactly the confirmed expenses.
LedgerExplainsTotals ==
  \A b \in Budgets :
    /\ budget[b].reserved <= Total(b, "reservation")
    /\ budget[b].committed <= Total(b, "commitment")
    /\ budget[b].spent = Total(b, "expense")

\* No movement overspends: a step that raises what a budget holds leaves it
\* within its allocation, whatever other sessions and administrators do
\* between the check and the commit.
NeverOverspends ==
  [][\A b \in Budgets : Held(budget'[b]) > Held(budget[b]) =>
       Held(budget'[b]) <= budget'[b].allocated]_vars

\* A budget that is closed, frozen or out of period takes no new hold: closing
\* it and reserving from it do not overlap.
NoHoldOnInactive ==
  [][\A b \in Budgets : budget'[b].reserved > budget[b].reserved =>
       budget[b].status = "active" /\ budget'[b].status = "active"]_vars

\* A ledger entry is never replaced: a later step can only mark it reversed,
\* once, and a reversal of its exact amount is then in the ledger.
EntriesAreFinal ==
  [][\A k \in References : ledger[k] # None /\ ledger'[k] # ledger[k] =>
       /\ ledger[k].status = "confirmed"
       /\ ledger'[k] = [ledger[k] EXCEPT !.status = "reversed"]
       /\ \E n \in References : /\ ledger[n] = None
                                /\ ledger'[n] # None
                                /\ ledger'[n].type = "reversal"
                                /\ ledger'[n].target = k
                                /\ ledger'[n].amount = ledger[k].amount]_vars

\* No revision is lost: whatever changes an allocation without a ledger entry
\* moves the version exactly one past the row it replaces, so of two
\* administrators who read the same row only one succeeds.
RevisionsNotLost ==
  [][\A b \in Budgets :
       /\ budget[b].status # "absent"
       /\ budget'[b].allocated # budget[b].allocated
       /\ ledger' = ledger
       => budget'[b].version = budget[b].version + 1]_vars

\* A reservation is released at most once.  The code marks nothing on the
\* reservation, so a second release under another reference is accepted
\* whenever other reservations keep the reserved total high enough.
ReleasedAtMostOnce ==
  \A k, n \in References :
    /\ ledger[k] # None /\ ledger[k].type = "release"
    /\ ledger[n] # None /\ ledger[n].type = "release"
    /\ ledger[k].target = ledger[n].target
    => k = n

\* An administrator cannot bring an allocation below what is reserved,
\* committed and spent.
AllocationCoversUse ==
  [][\A b \in Budgets : budget'[b].allocated < budget[b].allocated =>
       budget'[b].allocated >= Held(budget'[b])]_vars

=============================================================================
