------------------------- MODULE FinanceBudget_proofs -------------------------
(***************************************************************************)
(* Proofs about FinanceBudget.  The inductive invariant is TypeOK together *)
(* with HolderIsCurrent: the session that holds a budget's lock works on   *)
(* the committed row, and what it decided still holds when it commits.     *)
(***************************************************************************)
EXTENDS FinanceBudget, FiniteSetTheorems, TLAPS

IInv == TypeOK /\ HolderIsCurrent

\* What HolderIsCurrent says of one session.
HolderOk(t) ==
  call[t].pc = "holding" =>
    /\ call[t].row = budget[call[t].op.budget]
    /\ call[t].row.status # "absent"
    /\ Accepted(call[t].op, call[t].row)
    /\ \A u \in Sessions \ {t} :
         call[u].pc = "holding" => call[u].op.budget # call[t].op.budget

LEMMA HolderParts == HolderIsCurrent <=> \A t \in Sessions : HolderOk(t)
  BY DEF HolderIsCurrent, HolderOk

LEMMA HolderPartsPrimed == HolderIsCurrent' <=> \A t \in Sessions : HolderOk(t)'
  BY DEF HolderIsCurrent, HolderOk

\* What is written back when the object is the committed row is the new row.
LEMMA FlushCurrent ==
  ASSUME NEW row \in Rows, NEW new \in Rows
  PROVE  Flush(row, row, new) = new
<1>1. DOMAIN row = DOMAIN new
  BY DEF Rows
<1>2. \A f \in DOMAIN row : (IF new[f] # row[f] THEN new[f] ELSE row[f]) = new[f]
  OBVIOUS
<1>3. new = [f \in DOMAIN new |-> new[f]]
  BY DEF Rows
<1> QED
  BY <1>1, <1>2, <1>3 DEF Flush

\* Amounts are positive.
LEMMA AmountPositive ==
  ASSUME NEW a \in Amounts
  PROVE  a \in Nat /\ a > 0
  BY AmountsAssumption

\* Every movement names a positive amount.
LEMMA MovementAmount ==
  ASSUME NEW op \in Movements
  PROVE  op.amount \in Nat /\ op.amount > 0
<1>1. op.amount \in Amounts
  BY DEF Movements
<1> QED
  BY <1>1, AmountPositive

\* Giving an amount up lowers one total, or none.
LEMMA TakeType ==
  ASSUME NEW row \in Rows, NEW n \in Nat, n > 0, NEW f \in {"reserved", "committed"},
         NEW new, new = Take(row, f, n)
  PROVE  /\ new \in Rows
         /\ new.status = row.status
         /\ new.allocated = row.allocated
         /\ new.reserved <= row.reserved
         /\ Held(new) = IF row[f] >= n THEN Held(row) - n ELSE Held(row)
<1>1. CASE row[f] >= n
  BY <1>1 DEF Take, Rows, Held
<1>2. CASE ~(row[f] >= n)
  BY <1>2 DEF Take, Rows
<1> QED
  BY <1>1, <1>2

\* An accepted movement leaves a row of the right type.
LEMMA AfterType ==
  ASSUME NEW op \in Movements, NEW row \in Rows, Accepted(op, row)
  PROVE  /\ After(op, row) \in Rows
         /\ After(op, row).status = row.status
<1>0. op.amount \in Nat /\ op.amount > 0
  BY MovementAmount
<1>1. CASE op.type = "reservation"
  BY <1>0, <1>1 DEF After, Rows
<1>2. CASE op.type = "release"
  BY <1>0, <1>2 DEF After, Rows, Accepted, ReleaseOk
<1>3. CASE op.type = "commitment"
  <2> DEFINE taken == Take(row, "reserved", op.amount)
  <2>1. taken \in Rows /\ taken.status = row.status
    BY <1>0, TakeType
  <2>2. After(op, row) = [taken EXCEPT !.committed = @ + op.amount]
    BY <1>3 DEF After
  <2> HIDE DEF taken
  <2> QED
    BY <1>0, <2>1, <2>2 DEF Rows
<1>4. CASE op.type = "expense"
  <2> DEFINE taken == Take(row, "committed", op.amount)
  <2>1. taken \in Rows /\ taken.status = row.status
    BY <1>0, TakeType
  <2>2. After(op, row) = [taken EXCEPT !.spent = @ + op.amount]
    BY <1>4 DEF After
  <2> HIDE DEF taken
  <2> QED
    BY <1>0, <2>1, <2>2 DEF Rows
<1>5. CASE op.type = "adjustment"
  BY <1>0, <1>5 DEF After, Rows
<1>6. CASE op.type = "reversal"
  <2> DEFINE f == Field[ledger[op.target].type]
  <2>1. f \in {"reserved", "committed", "spent", "allocated"} /\ row[f] >= op.amount
    BY <1>6 DEF Accepted, RecordOk, Field
  <2>2. After(op, row) = [row EXCEPT ![f] = @ - op.amount]
    BY <1>6 DEF After
  <2> HIDE DEF f
  <2> QED
    BY <1>0, <2>1, <2>2 DEF Rows
<1> QED
  BY <1>1, <1>2, <1>3, <1>4, <1>5, <1>6 DEF Movements, Types, Recorded

\* A movement that raises what a row holds was within the row's allocation.
LEMMA WithinAllocation ==
  ASSUME NEW op \in Movements, NEW row \in Rows, Accepted(op, row),
         Held(After(op, row)) > Held(row)
  PROVE  Held(After(op, row)) <= After(op, row).allocated
<1>0. op.amount \in Nat /\ op.amount > 0
  BY MovementAmount
<1>1. CASE op.type = "reservation"
  BY <1>0, <1>1 DEF After, Rows, Accepted, ReserveOk, Held, Available
<1>2. CASE op.type = "release"
  BY <1>0, <1>2 DEF After, Rows, Held
<1>3. CASE op.type = "commitment"
  <2> DEFINE taken == Take(row, "reserved", op.amount)
  <2>1. /\ taken \in Rows
        /\ taken.allocated = row.allocated
        /\ Held(taken) = IF row.reserved >= op.amount THEN Held(row) - op.amount ELSE Held(row)
    BY <1>0, TakeType
  <2>2. After(op, row) = [taken EXCEPT !.committed = @ + op.amount]
    BY <1>3 DEF After
  <2> HIDE DEF taken
  <2>3. /\ Held(After(op, row)) = Held(taken) + op.amount
        /\ After(op, row).allocated = row.allocated
    BY <1>0, <2>1, <2>2 DEF Rows, Held
  <2>4. row.reserved >= op.amount \/ op.amount <= Available(row)
    BY <1>3 DEF Accepted, RecordOk
  <2>5. Held(row) \in Nat /\ row.allocated \in Nat
    BY DEF Rows, Held
  <2> QED
    BY <1>0, <2>1, <2>3, <2>4, <2>5 DEF Available
<1>4. CASE op.type = "expense"
  <2> DEFINE taken == Take(row, "committed", op.amount)
  <2>1. /\ taken \in Rows
        /\ taken.allocated = row.allocated
        /\ Held(taken) = IF row.committed >= op.amount THEN Held(row) - op.amount ELSE Held(row)
    BY <1>0, TakeType
  <2>2. After(op, row) = [taken EXCEPT !.spent = @ + op.amount]
    BY <1>4 DEF After
  <2> HIDE DEF taken
  <2>3. /\ Held(After(op, row)) = Held(taken) + op.amount
        /\ After(op, row).allocated = row.allocated
    BY <1>0, <2>1, <2>2 DEF Rows, Held
  <2>4. row.committed >= op.amount \/ op.amount <= Available(row)
    BY <1>4 DEF Accepted, RecordOk
  <2>5. Held(row) \in Nat /\ row.allocated \in Nat
    BY DEF Rows, Held
  <2> QED
    BY <1>0, <2>1, <2>3, <2>4, <2>5 DEF Available
<1>5. CASE op.type = "adjustment"
  BY <1>0, <1>5 DEF After, Rows, Held
<1>6. CASE op.type = "reversal"
  <2> DEFINE f == Field[ledger[op.target].type]
  <2>1. f \in {"reserved", "committed", "spent", "allocated"}
    BY <1>6 DEF Accepted, RecordOk, Field
  <2>2. After(op, row) = [row EXCEPT ![f] = @ - op.amount]
    BY <1>6 DEF After
  <2> HIDE DEF f
  <2> QED
    BY <1>0, <2>1, <2>2 DEF Rows, Held
<1> QED
  BY <1>1, <1>2, <1>3, <1>4, <1>5, <1>6 DEF Movements, Types, Recorded

\* What a session holds: a movement and a row.
LEMMA HoldingType ==
  ASSUME NEW c \in Calls, c.pc = "holding"
  PROVE  c.op \in Movements /\ c.row \in Rows
  BY DEF Calls, Idle

\* What a session that revises holds: a revision and the row it read.
LEMMA RevisingType ==
  ASSUME NEW c \in Calls, c.pc = "revising"
  PROVE  c.op \in Revisions /\ c.row \in Rows
  BY DEF Calls, Idle

\* A movement's fields.
LEMMA MovementType ==
  ASSUME NEW op \in Movements
  PROVE  /\ op.type \in Types
         /\ op.budget \in Budgets
         /\ op.reference \in References
         /\ op.target \in References \cup {None}
         /\ op.request \in Requests
  BY DEF Movements

\* The entry a commit posts has the type of an entry, and so has every other.
LEMMA PostedType ==
  ASSUME NEW op \in Movements, NEW row \in Rows, TypeOK, Accepted(op, row)
  PROVE  Posted(op) \in [References -> Entries \cup {None}]
<1> SUFFICES ASSUME NEW k \in References
             PROVE  Posted(op)[k] \in Entries \cup {None}
  BY DEF Posted
<1>1. CASE k = op.reference
  BY <1>1 DEF Posted, Entry, Entries, Movements
<1>2. CASE k # op.reference /\ op.type = "reversal" /\ k = op.target
  <2>1. ledger[k] # None
    BY <1>2 DEF Accepted, RecordOk, Matches
  <2>2. ledger[k] \in Entries
    BY <2>1 DEF TypeOK
  <2>3. [ledger[k] EXCEPT !.status = "reversed"] \in Entries
    BY <2>2 DEF Entries
  <2> QED
    BY <1>2, <2>3 DEF Posted
<1>3. CASE k # op.reference /\ ~(op.type = "reversal" /\ k = op.target)
  BY <1>3 DEF Posted, TypeOK
<1> QED
  BY <1>1, <1>2, <1>3

\* A commit on one budget leaves the acceptance of a movement of another.
LEMMA OthersStayAccepted ==
  ASSUME TypeOK, NEW op \in Movements, NEW mine \in Rows, Accepted(op, mine),
         Unique(op), ledger' = Posted(op),
         NEW other \in Movements, NEW row \in Rows, Accepted(other, row),
         other.budget # op.budget
  PROVE  Accepted(other, row)'
<1>1. ASSUME Matches(other)
      PROVE  /\ ledger'[other.target] = ledger[other.target]
             /\ Matches(other)'
  <2>1. other.target \in References
    BY <1>1, MovementType DEF Matches
  <2>2. other.target # op.reference
    BY <1>1 DEF Matches, Unique
  <2>3. op.type = "reversal" => other.target # op.target
    BY <1>1 DEF Matches, Accepted, RecordOk
  <2>4. ledger'[other.target] = ledger[other.target]
    BY <2>1, <2>2, <2>3 DEF Posted
  <2> QED
    BY <1>1, <2>4 DEF Matches
<1>2. CASE other.type = "reservation"
  BY <1>2 DEF Accepted, ReserveOk, Available, Held
<1>3. CASE other.type = "release"
  BY <1>1, <1>3 DEF Accepted, ReleaseOk
<1>4. CASE other.type = "reversal"
  BY <1>1, <1>4 DEF Accepted, RecordOk
<1>5. CASE other.type \in {"commitment", "expense", "adjustment"}
  BY <1>5 DEF Accepted, RecordOk, Available, Held
<1> QED
  BY <1>2, <1>3, <1>4, <1>5, MovementType DEF Types, Recorded

-----------------------------------------------------------------------------
(* Each action keeps the invariant.                                        *)

\* The initial state: no rows, no entries, nobody at work.
LEMMA InitInv == Init => IInv
<1> SUFFICES ASSUME Init PROVE IInv
  OBVIOUS
<1>1. NoRow \in Rows
  BY DEF NoRow, Rows, Statuses
<1>2. TypeOK
  BY <1>1 DEF Init, TypeOK, Calls
<1>3. HolderIsCurrent
  BY DEF Init, HolderIsCurrent, Idle
<1> QED
  BY <1>2, <1>3 DEF IInv

\* A step that leaves the rows, the ledger and the holders keeps HolderIsCurrent.
LEMMA SameHolders ==
  ASSUME IInv, UNCHANGED <<budget, ledger>>, call' \in [Sessions -> Calls],
         \A t \in Sessions : call'[t].pc = "holding" => call'[t] = call[t]
  PROVE  HolderIsCurrent'
<1> SUFFICES ASSUME NEW t \in Sessions, call'[t].pc = "holding"
             PROVE  HolderOk(t)'
  BY HolderPartsPrimed DEF HolderOk
<1>1. call'[t] = call[t]
  OBVIOUS
<1>2. HolderOk(t)
  BY HolderParts DEF IInv
<1>3. Accepted(call[t].op, call[t].row) <=> Accepted(call[t].op, call[t].row)'
  BY <1>1 DEF Accepted, ReserveOk, ReleaseOk, RecordOk, Matches, Available, Held
<1> QED
  BY <1>1, <1>2, <1>3 DEF HolderOk

\* Beginning a tool call takes the lock of a free row and reads it.
LEMMA BeginInv ==
  ASSUME IInv, NEW s \in Sessions, NEW op \in Movements, Begin(s, op)
  PROVE  IInv'
<1> DEFINE mine == [pc |-> "holding", op |-> op, row |-> budget[op.budget]]
<1>1. op.budget \in Budgets /\ budget[op.budget] \in Rows
  BY MovementType DEF IInv, TypeOK
<1>2. mine \in Calls
  BY <1>1 DEF Calls
<1>3. call' = [call EXCEPT ![s] = mine]
  BY DEF Begin
<1>4. TypeOK'
  BY <1>2, <1>3 DEF IInv, TypeOK, Begin
<1>5. ASSUME NEW t \in Sessions, call'[t].pc = "holding"
      PROVE  HolderOk(t)'
  <2>1. Accepted(call'[t].op, call'[t].row) <=> Accepted(call[t].op, call[t].row)'
    BY DEF Begin, Accepted, ReserveOk, ReleaseOk, RecordOk, Matches, Available, Held
  <2>2. CASE t = s
    <3>1. call'[t] = mine
      BY <1>3, <2>2 DEF IInv, TypeOK
    <3>2. \A u \in Sessions \ {t} : call'[u] = call[u]
      BY <1>3, <2>2 DEF IInv, TypeOK
    <3> QED
      BY <2>1, <3>1, <3>2 DEF Begin, LockFree, HolderOk
  <2>3. CASE t # s
    <3>1. call'[t] = call[t] /\ call'[s] = mine
      BY <1>3, <2>3 DEF IInv, TypeOK
    <3>2. \A u \in Sessions \ {s} : call'[u] = call[u]
      BY <1>3 DEF IInv, TypeOK
    <3>3. call[t].op.budget # op.budget
      BY <1>5, <3>1 DEF Begin, LockFree
    <3>4. mine.op.budget = op.budget
      OBVIOUS
    <3>5. HolderOk(t)
      BY HolderParts DEF IInv
    <3> HIDE DEF mine
    <3> QED
      BY <1>5, <2>1, <3>1, <3>2, <3>3, <3>4, <3>5 DEF Begin, HolderOk
  <2> QED
    BY <2>2, <2>3
<1>6. HolderIsCurrent'
  BY <1>5, HolderPartsPrimed DEF HolderOk
<1> QED
  BY <1>4, <1>6 DEF IInv

\* What a commit does when the object it holds is the committed row: the row
\* becomes what the movement makes of the row that is there.
LEMMA CommitEffect ==
  ASSUME IInv, NEW s \in Sessions, Commit(s), NEW op, op = call[s].op
  PROVE  /\ op \in Movements /\ op.budget \in Budgets
         /\ budget[op.budget] \in Rows
         /\ budget[op.budget].status # "absent"
         /\ Accepted(op, budget[op.budget])
         /\ Unique(op)
         /\ ledger' = Posted(op)
         /\ budget' = [budget EXCEPT ![op.budget] = After(op, budget[op.budget])]
         /\ label' = Relabelled(op)
         /\ call' = [call EXCEPT ![s] = Idle]
<1>1. call[s] \in Calls /\ call[s].pc = "holding"
  BY DEF IInv, TypeOK, Commit
<1>2. op \in Movements /\ op.budget \in Budgets
  BY <1>1, HoldingType, MovementType
<1>3. HolderOk(s)
  BY HolderParts DEF IInv
<1>4. /\ call[s].row = budget[op.budget] /\ Accepted(op, budget[op.budget])
      /\ budget[op.budget].status # "absent"
  BY <1>1, <1>3 DEF HolderOk
<1>5. budget[op.budget] \in Rows
  BY <1>2 DEF IInv, TypeOK
<1>6. After(op, budget[op.budget]) \in Rows
  BY <1>2, <1>4, <1>5, AfterType
<1>7. Flush(budget[op.budget], budget[op.budget], After(op, budget[op.budget]))
        = After(op, budget[op.budget])
  BY <1>5, <1>6, FlushCurrent
<1> QED
  BY <1>2, <1>4, <1>5, <1>7 DEF Commit

\* A commit keeps the other holders: they hold other budgets, and the entries
\* they decided on belong to those.
LEMMA CommitInv ==
  ASSUME IInv, NEW s \in Sessions, Commit(s)
  PROVE  IInv'
<1> DEFINE op == call[s].op
<1>1. /\ op \in Movements /\ op.budget \in Budgets
      /\ budget[op.budget] \in Rows
      /\ Accepted(op, budget[op.budget])
      /\ Unique(op)
      /\ ledger' = Posted(op)
      /\ budget' = [budget EXCEPT ![op.budget] = After(op, budget[op.budget])]
      /\ label' = Relabelled(op)
      /\ call' = [call EXCEPT ![s] = Idle]
  BY CommitEffect
<1>2. TypeOK'
  <2>1. ledger' \in [References -> Entries \cup {None}]
    BY <1>1, PostedType DEF IInv
  <2>2. budget' \in [Budgets -> Rows]
    BY <1>1, AfterType DEF IInv, TypeOK
  <2>3. label' \in [Requests -> Labels \cup {None}]
    BY <1>1 DEF IInv, TypeOK, Relabelled, Labels
  <2>4. call' \in [Sessions -> Calls]
    BY <1>1 DEF IInv, TypeOK, Calls
  <2> QED
    BY <2>1, <2>2, <2>3, <2>4 DEF TypeOK
<1>3. ASSUME NEW t \in Sessions, call'[t].pc = "holding"
      PROVE  HolderOk(t)'
  <2>1. t # s /\ call'[t] = call[t]
    BY <1>1, <1>3 DEF IInv, TypeOK, Idle
  <2>2. \A u \in Sessions : call'[u].pc = "holding" => call'[u] = call[u]
    BY <1>1 DEF IInv, TypeOK, Idle
  <2>3. HolderOk(t) /\ HolderOk(s)
    BY HolderParts DEF IInv
  <2>4. call[t].op \in Movements /\ call[t].row \in Rows
    BY <1>3, <2>1, HoldingType DEF IInv, TypeOK
  <2>5. call[t].op.budget # op.budget
    BY <1>3, <2>1, <2>3 DEF HolderOk, Commit
  <2>6. budget'[call[t].op.budget] = budget[call[t].op.budget]
    BY <1>1, <2>4, <2>5, MovementType DEF IInv, TypeOK
  <2>7. Accepted(call[t].op, call[t].row)
    BY <1>3, <2>1, <2>3 DEF HolderOk
  <2>8. PICK mine, other, row :
          mine = call[s].op /\ other = call[t].op /\ row = call[t].row
    OBVIOUS
  <2> HIDE DEF op
  <2>9. Accepted(other, row)'
    <3>1. mine = op
      BY <2>8 DEF op
    <3>2. /\ mine \in Movements /\ budget[mine.budget] \in Rows
          /\ Accepted(mine, budget[mine.budget])
          /\ Unique(mine) /\ ledger' = Posted(mine)
      BY <1>1, <3>1
    <3>3. other \in Movements /\ row \in Rows /\ other.budget # mine.budget
      BY <2>4, <2>5, <2>8, <3>1
    <3>4. Accepted(other, row)
      BY <2>7, <2>8
    <3>5. PICK now : now = budget[mine.budget]
      OBVIOUS
    <3> QED
      BY <3>2, <3>3, <3>4, <3>5, OthersStayAccepted DEF IInv
  <2>10. Accepted(call[t].op, call[t].row)'
    BY <2>1, <2>8, <2>9
       DEF Accepted, ReserveOk, ReleaseOk, RecordOk, Matches, Available, Held
  <2> QED
    BY <1>3, <2>1, <2>2, <2>3, <2>6, <2>10 DEF HolderOk
<1>4. HolderIsCurrent'
  BY <1>3, HolderPartsPrimed DEF HolderOk
<1> QED
  BY <1>2, <1>4 DEF IInv

\* A rollback forgets the call.
LEMMA RollbackInv ==
  ASSUME IInv, NEW s \in Sessions, Rollback(s)
  PROVE  IInv'
<1>1. TypeOK'
  BY DEF IInv, TypeOK, Rollback, Calls
<1>2. \A t \in Sessions : call'[t].pc = "holding" => call'[t] = call[t]
  BY DEF IInv, TypeOK, Rollback, Idle
<1> QED
  BY <1>1, <1>2, SameHolders DEF IInv, TypeOK, Rollback

\* The upsert of a finance request touches its label only.
LEMMA PersistResultInv ==
  ASSUME IInv, NEW r \in Requests, PersistResult(r)
  PROVE  IInv'
<1>1. PICK v \in Answers : label' = [label EXCEPT ![r] = v]
  BY DEF PersistResult
<1>2. v \in Labels
  BY <1>1, AnswersAssumption DEF Labels
<1>3. TypeOK'
  BY <1>1, <1>2 DEF IInv, TypeOK, PersistResult
<1> QED
  BY <1>3, SameHolders DEF IInv, TypeOK, PersistResult

\* Creation writes a row nobody can hold: a holder's row is not absent.
LEMMA CreateInv ==
  ASSUME IInv, NEW b \in Budgets, Create(b)
  PROVE  IInv'
<1>1. PICK a \in Amounts, st \in {"active", "inactive"} :
        budget' = [budget EXCEPT ![b] = Created(a, st)]
  BY DEF Create
<1>2. Created(a, st) \in Rows
  <2>1. a \in Nat
    BY <1>1, AmountPositive
  <2> QED
    BY <1>1, <2>1 DEF Created, NoRow, Rows, Statuses
<1>3. TypeOK'
  BY <1>1, <1>2 DEF IInv, TypeOK, Create
<1>4. ASSUME NEW t \in Sessions, call'[t].pc = "holding"
      PROVE  HolderOk(t)'
  <2>1. HolderOk(t) /\ call' = call /\ ledger' = ledger
    BY HolderParts DEF IInv, Create
  <2>2. call[t].op.budget # b
    BY <1>4, <2>1 DEF HolderOk, Create
  <2>3. budget'[call[t].op.budget] = budget[call[t].op.budget]
    <3>1. call[t].op.budget \in Budgets
      BY <1>4, <2>1, HoldingType, MovementType DEF IInv, TypeOK
    <3> QED
      BY <1>1, <2>2, <3>1 DEF IInv, TypeOK
  <2>4. Accepted(call[t].op, call[t].row) <=> Accepted(call[t].op, call[t].row)'
    BY <2>1 DEF Accepted, ReserveOk, ReleaseOk, RecordOk, Matches, Available, Held
  <2> QED
    BY <1>4, <2>1, <2>3, <2>4 DEF HolderOk
<1>5. HolderIsCurrent'
  BY <1>4, HolderPartsPrimed DEF HolderOk
<1> QED
  BY <1>3, <1>5 DEF IInv

\* A write to a row whose lock is free disturbs no holder.
LEMMA FreeRowWrite ==
  ASSUME IInv, NEW b \in Budgets, LockFree(b), NEW new \in Rows,
         budget' = [budget EXCEPT ![b] = new], ledger' = ledger,
         \A t \in Sessions : call'[t].pc = "holding" => call'[t] = call[t]
  PROVE  HolderIsCurrent'
<1>1. ASSUME NEW t \in Sessions, call'[t].pc = "holding"
      PROVE  HolderOk(t)'
  <2>1. HolderOk(t) /\ call'[t] = call[t]
    BY <1>1, HolderParts DEF IInv
  <2>2. call[t].op.budget # b
    BY <1>1, <2>1 DEF LockFree
  <2>3. budget'[call[t].op.budget] = budget[call[t].op.budget]
    <3>1. call[t].op.budget \in Budgets
      BY <1>1, <2>1, HoldingType, MovementType DEF IInv, TypeOK
    <3> QED
      BY <2>2, <3>1 DEF IInv, TypeOK
  <2>4. Accepted(call[t].op, call[t].row) <=> Accepted(call[t].op, call[t].row)'
    BY <2>1 DEF Accepted, ReserveOk, ReleaseOk, RecordOk, Matches, Available, Held
  <2> QED
    BY <1>1, <2>1, <2>3, <2>4 DEF HolderOk
<1> QED
  BY <1>1, HolderPartsPrimed DEF HolderOk

\* Reading a row to revise it takes no lock.
LEMMA ReviseReadInv ==
  ASSUME IInv, NEW s \in Sessions, NEW op \in Revisions, ReviseRead(s, op)
  PROVE  IInv'
<1> DEFINE mine == [pc |-> "revising", op |-> op, row |-> budget[op.budget]]
<1>1. mine \in Calls
  <2>1. budget[op.budget] \in Rows
    BY DEF Revisions, IInv, TypeOK
  <2> QED
    BY <2>1 DEF Calls
<1>2. call' = [call EXCEPT ![s] = mine]
  BY DEF ReviseRead
<1>3. TypeOK'
  BY <1>1, <1>2 DEF IInv, TypeOK, ReviseRead
<1>4. \A t \in Sessions : call'[t].pc = "holding" => call'[t] = call[t]
  BY <1>2 DEF IInv, TypeOK
<1> QED
  BY <1>3, <1>4, SameHolders DEF IInv, TypeOK, ReviseRead

\* A revision writes only while the row's lock is free.
LEMMA ReviseWriteInv ==
  ASSUME IInv, NEW s \in Sessions, ReviseWrite(s)
  PROVE  IInv'
<1> DEFINE op == call[s].op
           new == Revised(budget[op.budget], call[s].row, op)
<1>1. call[s] \in Calls /\ call[s].pc = "revising"
  BY DEF IInv, TypeOK, ReviseWrite
<1>2. op \in Revisions /\ call[s].row \in Rows
  BY <1>1, RevisingType
<1>3. op.budget \in Budgets /\ budget[op.budget] \in Rows
  BY <1>2 DEF Revisions, IInv, TypeOK
<1>4. call' = [call EXCEPT ![s] = Idle]
  BY DEF ReviseWrite
<1>5. call' \in [Sessions -> Calls]
  BY <1>4 DEF IInv, TypeOK, Calls
<1>6. \A t \in Sessions : call'[t].pc = "holding" => call'[t] = call[t]
  BY <1>4 DEF IInv, TypeOK, Idle
<1>7. CASE SameVersion(budget[op.budget], call[s].row)
  <2>1. new \in Rows
    <3>1. op.amount \in Nat /\ op.status \in Statuses
      BY <1>2, BoundsAssumption DEF Revisions
    <3>2. call[s].row.version + 1 \in Nat
      BY <1>2 DEF Rows
    <3> QED
      BY <1>3, <3>1, <3>2 DEF Revised, Rows
  <2>2. budget' = [budget EXCEPT ![op.budget] = new] /\ LockFree(op.budget)
    BY <1>7 DEF ReviseWrite
  <2>3. TypeOK'
    BY <1>3, <1>5, <2>1, <2>2 DEF IInv, TypeOK, ReviseWrite
  <2>4. ledger' = ledger
    BY DEF ReviseWrite
  <2> HIDE DEF op, new
  <2>5. PICK b, r : b = op.budget /\ r = new
    OBVIOUS
  <2>6. HolderIsCurrent'
    BY <1>3, <1>6, <2>1, <2>2, <2>4, <2>5, FreeRowWrite
  <2> QED
    BY <2>3, <2>6 DEF IInv
<1>8. CASE ~SameVersion(budget[op.budget], call[s].row)
  <2>1. UNCHANGED <<budget, ledger, label>>
    BY <1>8 DEF ReviseWrite
  <2>2. TypeOK'
    BY <1>5, <2>1 DEF IInv, TypeOK
  <2> QED
    BY <1>5, <1>6, <2>1, <2>2, SameHolders DEF IInv
<1> QED
  BY <1>7, <1>8

\* Closing a budget writes only while its lock is free.
LEMMA SoftDeleteInv ==
  ASSUME IInv, NEW b \in Budgets, SoftDelete(b)
  PROVE  IInv'
<1> DEFINE new == [budget[b] EXCEPT !.status = "inactive"]
<1>1. new \in Rows
  <2>1. budget[b] \in Rows
    BY DEF IInv, TypeOK
  <2> QED
    BY <2>1 DEF Rows, Statuses
<1>2. budget' = [budget EXCEPT ![b] = new]
  BY DEF SoftDelete
<1>3. TypeOK'
  BY <1>1, <1>2 DEF IInv, TypeOK, SoftDelete
<1> HIDE DEF new
<1>4. PICK r : r = new
  OBVIOUS
<1>5. HolderIsCurrent'
  BY <1>1, <1>2, <1>4, FreeRowWrite DEF SoftDelete
<1> QED
  BY <1>3, <1>5 DEF IInv

\* A step that changes nothing.
LEMMA StutterInv ==
  ASSUME IInv, UNCHANGED vars
  PROVE  IInv'
<1>1. TypeOK'
  BY DEF IInv, TypeOK, vars
<1> QED
  BY <1>1, SameHolders DEF IInv, TypeOK, vars

\* Every step keeps the invariant.
LEMMA NextInv == IInv /\ [Next]_vars => IInv'
<1> SUFFICES ASSUME IInv, [Next]_vars PROVE IInv'
  OBVIOUS
<1>1. ASSUME NEW s \in Sessions, Reserve(s) \/ Release(s) \/ Record(s)
      PROVE  IInv'
  BY <1>1, BeginInv DEF Reserve, Release, Record
<1>2. ASSUME NEW s \in Sessions, Commit(s) PROVE IInv'
  BY <1>2, CommitInv
<1>3. ASSUME NEW s \in Sessions, Rollback(s) PROVE IInv'
  BY <1>3, RollbackInv
<1>4. ASSUME NEW s \in Sessions, Revise(s) PROVE IInv'
  BY <1>4, ReviseReadInv DEF Revise
<1>5. ASSUME NEW s \in Sessions, ReviseWrite(s) PROVE IInv'
  BY <1>5, ReviseWriteInv
<1>6. ASSUME NEW r \in Requests, PersistResult(r) PROVE IInv'
  BY <1>6, PersistResultInv
<1>7. ASSUME NEW b \in Budgets, Create(b) PROVE IInv'
  BY <1>7, CreateInv
<1>8. ASSUME NEW b \in Budgets, SoftDelete(b) PROVE IInv'
  BY <1>8, SoftDeleteInv
<1> QED
  BY <1>1, <1>2, <1>3, <1>4, <1>5, <1>6, <1>7, <1>8, StutterInv DEF Next

\* The invariant holds in every reachable state.
THEOREM Invariant == Spec => []IInv
<1>1. Init => IInv
  BY InitInv
<1>2. IInv /\ [Next]_vars => IInv'
  BY NextInv
<1> QED
  BY <1>1, <1>2, PTL DEF Spec

\* Totals, versions and amounts never leave their types: no movement, accepted
\* on the locked row, takes a total below zero.
THEOREM TypeCorrect == Spec => []TypeOK
<1>1. IInv => TypeOK
  BY DEF IInv
<1> QED
  BY <1>1, Invariant, PTL

\* The row lock makes the check and the write one step: what a tool call read
\* and decided is still the committed row's when it commits.
THEOREM CheckedIsCommitted == Spec => []HolderIsCurrent
<1>1. IInv => HolderIsCurrent
  BY DEF IInv
<1> QED
  BY <1>1, Invariant, PTL

-----------------------------------------------------------------------------
(* What a step may never do.                                               *)

\* A revision moves the version it read by one and leaves the totals.
LEMMA RevisedFields ==
  ASSUME NEW row \in Rows, NEW read, NEW op, NEW new, new = Revised(row, read, op)
  PROVE  /\ new.version = read.version + 1
         /\ new.status = op.status
         /\ new.reserved = row.reserved
         /\ new.committed = row.committed
         /\ new.spent = row.spent
<1>1. new.version = read.version + 1
  BY DEF Revised, Rows
<1>2. new.reserved = row.reserved
  BY DEF Revised, Rows
<1>3. new.committed = row.committed
  BY DEF Revised, Rows
<1>4. new.spent = row.spent
  BY DEF Revised, Rows
<1>5. new.status = op.status
  BY DEF Revised, Rows
<1> QED
  BY <1>1, <1>2, <1>3, <1>4, <1>5

\* A new row holds nothing.
LEMMA CreatedFields ==
  ASSUME NEW a, NEW st, NEW new, new = Created(a, st)
  PROVE  new.reserved = 0 /\ new.committed = 0 /\ new.spent = 0
<1>1. new.reserved = 0
  BY DEF Created, NoRow
<1>2. new.committed = 0
  BY DEF Created, NoRow
<1>3. new.spent = 0
  BY DEF Created, NoRow
<1> QED
  BY <1>1, <1>2, <1>3

\* The only ways a row changes: a committed movement, a creation, a revision
\* of the version that was read, a closure.
LEMMA RowSteps ==
  ASSUME IInv, [Next]_vars, NEW b \in Budgets
  PROVE  \/ budget'[b] = budget[b]
         \/ \E op \in Movements :
              /\ Accepted(op, budget[b])
              /\ budget'[b] = After(op, budget[b])
              /\ ledger' = Posted(op)
              /\ Unique(op)
         \/ /\ budget[b].status = "absent"
            /\ budget'[b].reserved = 0 /\ budget'[b].committed = 0 /\ budget'[b].spent = 0
         \/ /\ budget'[b] \in Rows
            /\ budget'[b].version = budget[b].version + 1
            /\ budget'[b].status # "absent"
            /\ budget'[b].reserved = budget[b].reserved
            /\ budget'[b].committed = budget[b].committed
            /\ budget'[b].spent = budget[b].spent
         \/ budget'[b] = [budget[b] EXCEPT !.status = "inactive"]
<1> DEFINE Goal ==
         \/ budget'[b] = budget[b]
         \/ \E op \in Movements :
              /\ Accepted(op, budget[b])
              /\ budget'[b] = After(op, budget[b])
              /\ ledger' = Posted(op)
              /\ Unique(op)
         \/ /\ budget[b].status = "absent"
            /\ budget'[b].reserved = 0 /\ budget'[b].committed = 0 /\ budget'[b].spent = 0
         \/ /\ budget'[b] \in Rows
            /\ budget'[b].version = budget[b].version + 1
            /\ budget'[b].status # "absent"
            /\ budget'[b].reserved = budget[b].reserved
            /\ budget'[b].committed = budget[b].committed
            /\ budget'[b].spent = budget[b].spent
         \/ budget'[b] = [budget[b] EXCEPT !.status = "inactive"]
<1>1. budget' = budget => Goal
  OBVIOUS
<1>2. ASSUME NEW s \in Sessions, Commit(s) PROVE Goal
  <2>1. PICK op : op = call[s].op
    OBVIOUS
  <2>2. /\ op \in Movements /\ op.budget \in Budgets
        /\ Accepted(op, budget[op.budget])
        /\ Unique(op)
        /\ ledger' = Posted(op)
        /\ budget' = [budget EXCEPT ![op.budget] = After(op, budget[op.budget])]
    BY <1>2, <2>1, CommitEffect
  <2>3. CASE b = op.budget
    <3>1. budget'[b] = After(op, budget[b])
      BY <2>2, <2>3 DEF IInv, TypeOK
    <3> QED
      BY <2>2, <2>3, <3>1
  <2>4. CASE b # op.budget
    BY <2>2, <2>4 DEF IInv, TypeOK
  <2> QED
    BY <2>3, <2>4
<1>3. ASSUME NEW c \in Budgets, Create(c) PROVE Goal
  <2>1. PICK a \in Amounts, st \in {"active", "inactive"} :
          budget' = [budget EXCEPT ![c] = Created(a, st)]
    BY <1>3 DEF Create
  <2>2. CASE b = c
    <3>1. budget'[b] = Created(a, st)
      BY <2>1, <2>2 DEF IInv, TypeOK
    <3>2. PICK new : new = budget'[b]
      OBVIOUS
    <3>3. new.reserved = 0 /\ new.committed = 0 /\ new.spent = 0
      BY <3>1, <3>2, CreatedFields
    <3>4. budget[b].status = "absent"
      BY <1>3, <2>2 DEF Create
    <3> QED
      BY <3>2, <3>3, <3>4
  <2>3. CASE b # c
    BY <2>1, <2>3 DEF IInv, TypeOK
  <2> QED
    BY <2>2, <2>3
<1>4. ASSUME NEW s \in Sessions, ReviseWrite(s) PROVE Goal
  <2> DEFINE op == call[s].op
  <2>1. call[s] \in Calls /\ call[s].pc = "revising"
    BY <1>4 DEF IInv, TypeOK, ReviseWrite
  <2>2. op \in Revisions
    BY <2>1, RevisingType
  <2>3. CASE SameVersion(budget[op.budget], call[s].row) /\ b = op.budget
    <3>1. budget[b] \in Rows
      BY DEF IInv, TypeOK
    <3>2. budget'[b] = Revised(budget[b], call[s].row, op)
      BY <1>4, <2>3 DEF ReviseWrite, IInv, TypeOK
    <3>3. budget'[b] \in Rows
      BY <1>4, ReviseWriteInv DEF IInv, TypeOK
    <3>4. PICK row, read, arg, new :
            row = budget[b] /\ read = call[s].row /\ arg = op /\ new = budget'[b]
      OBVIOUS
    <3>5. new = Revised(row, read, arg) /\ row \in Rows /\ read.version = row.version
      BY <2>3, <3>1, <3>2, <3>4 DEF SameVersion
    <3>6. arg.status # "absent"
      BY <2>2, <3>4 DEF Revisions
    <3> QED
      BY <3>3, <3>4, <3>5, <3>6, RevisedFields
  <2>4. CASE ~(SameVersion(budget[op.budget], call[s].row) /\ b = op.budget)
    BY <1>4, <2>4 DEF ReviseWrite, IInv, TypeOK
  <2> QED
    BY <2>3, <2>4
<1>5. ASSUME NEW c \in Budgets, SoftDelete(c) PROVE Goal
  BY <1>5 DEF SoftDelete, IInv, TypeOK
<1>6. ASSUME NEW s \in Sessions,
             Reserve(s) \/ Release(s) \/ Record(s) \/ Rollback(s) \/ Revise(s)
      PROVE  budget' = budget
  BY <1>6 DEF Reserve, Release, Record, Begin, Rollback, Revise, ReviseRead
<1>7. ASSUME NEW r \in Requests, PersistResult(r) PROVE budget' = budget
  BY <1>7 DEF PersistResult
<1>8. UNCHANGED vars => budget' = budget
  BY DEF vars
<1>9. Goal
  <2> HIDE DEF Goal
  <2> QED
    BY <1>1, <1>2, <1>3, <1>4, <1>5, <1>6, <1>7, <1>8 DEF Next
<1> QED
  BY <1>9

\* Only a reservation raises what a row has reserved.
LEMMA OnlyReservationsReserve ==
  ASSUME NEW op \in Movements, NEW row \in Rows, Accepted(op, row),
         After(op, row).reserved > row.reserved
  PROVE  op.type = "reservation"
<1>0. op.amount \in Nat /\ op.amount > 0
  BY MovementAmount
<1>1. op.type # "release"
  BY <1>0 DEF After, Rows
<1>2. op.type # "commitment"
  <2> DEFINE taken == Take(row, "reserved", op.amount)
  <2>1. taken \in Rows /\ taken.reserved <= row.reserved
    BY <1>0, TakeType
  <2>2. op.type = "commitment" => After(op, row) = [taken EXCEPT !.committed = @ + op.amount]
    BY DEF After
  <2> HIDE DEF taken
  <2> QED
    BY <1>0, <2>1, <2>2 DEF Rows
<1>3. op.type # "expense"
  <2> DEFINE taken == Take(row, "committed", op.amount)
  <2>1. taken \in Rows /\ taken.reserved <= row.reserved
    BY <1>0, TakeType
  <2>2. op.type = "expense" => After(op, row) = [taken EXCEPT !.spent = @ + op.amount]
    BY DEF After
  <2> HIDE DEF taken
  <2> QED
    BY <1>0, <2>1, <2>2 DEF Rows
<1>4. op.type # "adjustment"
  BY <1>0 DEF After, Rows
<1>5. op.type # "reversal"
  <2> SUFFICES ASSUME op.type = "reversal" PROVE FALSE
    OBVIOUS
  <2> DEFINE f == Field[ledger[op.target].type]
  <2>1. f \in {"reserved", "committed", "spent", "allocated"}
    BY DEF Accepted, RecordOk, Field
  <2>2. After(op, row) = [row EXCEPT ![f] = @ - op.amount]
    BY DEF After
  <2> HIDE DEF f
  <2> QED
    BY <1>0, <2>1, <2>2 DEF Rows
<1> QED
  BY <1>1, <1>2, <1>3, <1>4, <1>5 DEF Movements, Types, Recorded

\* Only a commit changes the ledger.
LEMMA OnlyCommitsPost ==
  ASSUME [Next]_vars, ledger' # ledger
  PROVE  \E s \in Sessions : Commit(s)
<1>1. ASSUME NEW s \in Sessions, ~Commit(s),
             \/ Reserve(s) \/ Release(s) \/ Record(s) \/ Commit(s) \/ Rollback(s)
             \/ Revise(s) \/ ReviseWrite(s)
      PROVE  FALSE
  BY <1>1 DEF Reserve, Release, Record, Begin, Rollback, Revise, ReviseRead, ReviseWrite
<1>2. ASSUME NEW b \in Budgets, Create(b) \/ SoftDelete(b) PROVE FALSE
  BY <1>2 DEF Create, SoftDelete
<1>3. ASSUME NEW r \in Requests, PersistResult(r) PROVE FALSE
  BY <1>3 DEF PersistResult
<1> QED
  BY <1>1, <1>2, <1>3 DEF Next, vars

\* The entry of an accepted movement is all that changes.
LEMMA LedgerSteps ==
  ASSUME IInv, [Next]_vars, ledger' # ledger
  PROVE  \E op \in Movements, row \in Rows :
           Accepted(op, row) /\ Unique(op) /\ ledger' = Posted(op)
<1>1. PICK s \in Sessions : Commit(s)
  BY OnlyCommitsPost
<1>2. PICK op : op = call[s].op
  OBVIOUS
<1>3. /\ op \in Movements /\ budget[op.budget] \in Rows
      /\ Accepted(op, budget[op.budget]) /\ Unique(op) /\ ledger' = Posted(op)
  BY <1>1, <1>2, CommitEffect
<1> QED
  BY <1>3

\* Every pair of a reachable state and its successor satisfies what RowSteps
\* says: of all the ways a row changes only an accepted movement raises what it
\* holds, and an accepted movement stays within the allocation.
THEOREM Solvent == Spec => NeverOverspends
<1> DEFINE Step == \A b \in Budgets : Held(budget'[b]) > Held(budget[b]) =>
                     Held(budget'[b]) <= budget'[b].allocated
<1>1. ASSUME IInv, [Next]_vars PROVE Step
  <2> SUFFICES ASSUME NEW b \in Budgets, Held(budget'[b]) > Held(budget[b])
               PROVE  Held(budget'[b]) <= budget'[b].allocated
    OBVIOUS
  <2>1. budget[b] \in Rows /\ Held(budget[b]) \in Nat
    BY <1>1 DEF IInv, TypeOK, Rows, Held
  <2>2. CASE \E op \in Movements : /\ Accepted(op, budget[b])
                                   /\ budget'[b] = After(op, budget[b])
    BY <2>1, <2>2, WithinAllocation
  <2>3. CASE budget'[b].reserved = 0 /\ budget'[b].committed = 0 /\ budget'[b].spent = 0
    BY <2>1, <2>3 DEF Held
  <2>4. CASE /\ budget'[b].reserved = budget[b].reserved
             /\ budget'[b].committed = budget[b].committed
             /\ budget'[b].spent = budget[b].spent
    BY <2>1, <2>4 DEF Held
  <2>5. CASE budget'[b] = [budget[b] EXCEPT !.status = "inactive"]
    BY <2>1, <2>5 DEF Held, Rows
  <2>6. CASE budget'[b] = budget[b]
    BY <2>1, <2>6
  <2> QED
    BY <1>1, <2>2, <2>3, <2>4, <2>5, <2>6, RowSteps
<1>2. IInv /\ [Next]_vars => [Step]_vars
  BY <1>1
<1> QED
  BY <1>2, Invariant, PTL DEF Spec, NeverOverspends

\* Only an accepted reservation raises what a row has reserved, and it requires
\* the row to be active when it is written.
THEOREM ClosedMeansClosed == Spec => NoHoldOnInactive
<1> DEFINE Step == \A b \in Budgets : budget'[b].reserved > budget[b].reserved =>
                     budget[b].status = "active" /\ budget'[b].status = "active"
<1>1. ASSUME IInv, [Next]_vars PROVE Step
  <2> SUFFICES ASSUME NEW b \in Budgets, budget'[b].reserved > budget[b].reserved
               PROVE  budget[b].status = "active" /\ budget'[b].status = "active"
    OBVIOUS
  <2>1. budget[b] \in Rows /\ budget[b].reserved \in Nat
    BY <1>1 DEF IInv, TypeOK, Rows
  <2>2. ASSUME NEW op \in Movements, Accepted(op, budget[b]),
               budget'[b] = After(op, budget[b])
        PROVE  budget[b].status = "active" /\ budget'[b].status = "active"
    <3>1. op.type = "reservation"
      BY <2>1, <2>2, OnlyReservationsReserve
    <3>2. budget[b].status = "active"
      BY <2>2, <3>1 DEF Accepted, ReserveOk
    <3> QED
      BY <2>1, <2>2, <3>2, AfterType
  <2>3. budget'[b].reserved # 0
    BY <2>1
  <2>4. budget'[b].reserved # budget[b].reserved
    BY <2>1
  <2>5. budget'[b] # [budget[b] EXCEPT !.status = "inactive"]
    BY <2>1, <2>4 DEF Rows
  <2> QED
    BY <1>1, <2>2, <2>3, <2>4, <2>5, RowSteps
<1>2. IInv /\ [Next]_vars => [Step]_vars
  BY <1>1
<1> QED
  BY <1>2, Invariant, PTL DEF Spec, NoHoldOnInactive

\* Only the commit of a movement touches the ledger, at its own reference, which
\* was free, and for a reversal at the confirmed entry it gives back.
THEOREM LedgerIsFinal == Spec => EntriesAreFinal
<1> DEFINE Step == \A k \in References : ledger[k] # None /\ ledger'[k] # ledger[k] =>
                     /\ ledger[k].status = "confirmed"
                     /\ ledger'[k] = [ledger[k] EXCEPT !.status = "reversed"]
                     /\ \E n \in References : /\ ledger[n] = None
                                              /\ ledger'[n] # None
                                              /\ ledger'[n].type = "reversal"
                                              /\ ledger'[n].target = k
                                              /\ ledger'[n].amount = ledger[k].amount
<1>1. ASSUME IInv, [Next]_vars PROVE Step
  <2> SUFFICES ASSUME NEW k \in References, ledger[k] # None, ledger'[k] # ledger[k]
               PROVE  /\ ledger[k].status = "confirmed"
                      /\ ledger'[k] = [ledger[k] EXCEPT !.status = "reversed"]
                      /\ \E n \in References : /\ ledger[n] = None
                                               /\ ledger'[n] # None
                                               /\ ledger'[n].type = "reversal"
                                               /\ ledger'[n].target = k
                                               /\ ledger'[n].amount = ledger[k].amount
    OBVIOUS
  <2>1. PICK op \in Movements, row \in Rows :
          Accepted(op, row) /\ Unique(op) /\ ledger' = Posted(op)
    BY <1>1, LedgerSteps
  <2>2. op.reference \in References /\ k # op.reference
    BY <2>1, MovementType DEF Unique
  <2>3. op.type = "reversal" /\ k = op.target
    BY <2>1, <2>2 DEF Posted
  <2>4. ledger'[k] = [ledger[k] EXCEPT !.status = "reversed"]
    BY <2>1, <2>2, <2>3 DEF Posted
  <2>5. ledger[k].status = "confirmed" /\ ledger[k].amount = op.amount
    BY <2>1, <2>3 DEF Accepted, RecordOk, Matches
  <2>6. ledger'[op.reference] = Entry(op)
    BY <2>1, <2>2 DEF Posted
  <2>7. /\ Entry(op).type = "reversal" /\ Entry(op).target = k
        /\ Entry(op).amount = ledger[k].amount
    BY <2>3, <2>5 DEF Entry
  <2>8. Entry(op) # None
    <3>1. Entry(op) \in Entries
      BY DEF Entry, Entries, Movements
    <3> QED
      BY <3>1, NoEntryAssumption
  <2>9. ledger[op.reference] = None
    BY <2>1 DEF Unique
  <2> QED
    BY <2>2, <2>4, <2>5, <2>6, <2>7, <2>8, <2>9
<1>2. IInv /\ [Next]_vars => [Step]_vars
  BY <1>1
<1> QED
  BY <1>2, Invariant, PTL DEF Spec, EntriesAreFinal

\* Whatever changes an allocation without a ledger entry is a revision.
THEOREM RevisionsCount == Spec => RevisionsNotLost
<1> DEFINE Step == \A b \in Budgets :
                     /\ budget[b].status # "absent"
                     /\ budget'[b].allocated # budget[b].allocated
                     /\ ledger' = ledger
                     => budget'[b].version = budget[b].version + 1
<1>1. ASSUME IInv, [Next]_vars PROVE Step
  <2> SUFFICES ASSUME NEW b \in Budgets, budget[b].status # "absent",
                      budget'[b].allocated # budget[b].allocated, ledger' = ledger
               PROVE  budget'[b].version = budget[b].version + 1
    OBVIOUS
  <2>1. budget[b] \in Rows
    BY <1>1 DEF IInv, TypeOK
  <2>2. ASSUME NEW op \in Movements, Unique(op), ledger' = Posted(op) PROVE FALSE
    <3>1. op.reference \in References
      BY MovementType
    <3>2. ledger'[op.reference] = Entry(op) /\ ledger[op.reference] = None
      BY <2>2, <3>1 DEF Posted, Unique
    <3>3. Entry(op) \in Entries
      BY DEF Entry, Entries, Movements
    <3> QED
      BY <3>2, <3>3, NoEntryAssumption
  <2>3. budget'[b] # budget[b]
    OBVIOUS
  <2>4. budget'[b] # [budget[b] EXCEPT !.status = "inactive"]
    BY <2>1 DEF Rows
  <2> QED
    BY <1>1, <2>2, <2>3, <2>4, RowSteps
<1>2. IInv /\ [Next]_vars => [Step]_vars
  BY <1>1
<1> QED
  BY <1>2, Invariant, PTL DEF Spec, RevisionsNotLost

-----------------------------------------------------------------------------
(* The ledger explains the totals.                                         *)

Cells(f, S) == UNION {{x} \X (1..f[x]) : x \in S}

LEMMA CellsFinite ==
  ASSUME NEW S, IsFiniteSet(S), NEW f, \A x \in S : f[x] \in Nat
  PROVE  IsFiniteSet(Cells(f, S))
<1>1. \A x \in S : IsFiniteSet({x} \X (1..f[x]))
  <2>1. SUFFICES ASSUME NEW x \in S PROVE IsFiniteSet({x} \X (1..f[x]))
    OBVIOUS
  <2>2. IsFiniteSet({x})
    BY FS_Singleton
  <2>3. IsFiniteSet(1..f[x])
    BY FS_Interval
  <2> QED  BY <2>2, <2>3, FS_Product
<1>2. IsFiniteSet({{x} \X (1..f[x]) : x \in S})
  <2>1. PICK g : g = [x \in S |-> {x} \X (1..f[x])]
    OBVIOUS
  <2>2. g \in Surjection(S, {{x} \X (1..f[x]) : x \in S})
    BY <2>1 DEF Surjection
  <2> QED  BY <2>2, FS_Surjection
<1> QED  BY <1>1, <1>2, FS_UNION DEF Cells

\* What one element counts is added to the rest.
LEMMA CellsOfOne ==
  ASSUME NEW S, IsFiniteSet(S), NEW f, \A x \in S : f[x] \in Nat, NEW y \in S
  PROVE  /\ Cardinality(Cells(f, S)) = Cardinality(Cells(f, S \ {y})) + f[y]
         /\ Cardinality(Cells(f, S \ {y})) \in Nat
<1>1. IsFiniteSet(S \ {y})
  BY FS_Subset
<1>2. IsFiniteSet(Cells(f, S \ {y}))
  BY <1>1, CellsFinite
<1>3. IsFiniteSet({y}) /\ Cardinality({y}) = 1
  BY FS_Singleton
<1>4. IsFiniteSet(1..f[y]) /\ Cardinality(1..f[y]) = f[y]
  BY FS_Interval
<1>5. IsFiniteSet({y} \X (1..f[y])) /\ Cardinality({y} \X (1..f[y])) = f[y]
  BY <1>3, <1>4, FS_Product
<1>6. Cells(f, S) = Cells(f, S \ {y}) \cup ({y} \X (1..f[y]))
  BY DEF Cells
<1>7. Cells(f, S \ {y}) \cap ({y} \X (1..f[y])) = {}
  BY DEF Cells
<1>8. Cardinality(Cells(f, S \ {y}) \cap ({y} \X (1..f[y]))) = 0
  BY <1>7, FS_EmptySet
<1>9. Cardinality(Cells(f, S \ {y})) \in Nat
  BY <1>2, FS_CardinalityType
<1>10. Cardinality(Cells(f, S \ {y}) \cup ({y} \X (1..f[y])))
          = Cardinality(Cells(f, S \ {y})) + Cardinality({y} \X (1..f[y]))
            - Cardinality(Cells(f, S \ {y}) \cap ({y} \X (1..f[y])))
  BY <1>2, <1>5, FS_Union
<1> QED  BY <1>5, <1>6, <1>8, <1>9, <1>10

LEMMA CellsChange ==
  ASSUME NEW S, IsFiniteSet(S), NEW f, \A x \in S : f[x] \in Nat,
         NEW g, \A x \in S : g[x] \in Nat, NEW y \in S, \A x \in S \ {y} : g[x] = f[x]
  PROVE  Cardinality(Cells(g, S)) = Cardinality(Cells(f, S)) - f[y] + g[y]
<1>1. Cells(g, S \ {y}) = Cells(f, S \ {y})
  BY DEF Cells
<1>2. /\ Cardinality(Cells(f, S)) = Cardinality(Cells(f, S \ {y})) + f[y]
      /\ Cardinality(Cells(f, S \ {y})) \in Nat
  BY CellsOfOne
<1>3. Cardinality(Cells(g, S)) = Cardinality(Cells(g, S \ {y})) + g[y]
  BY CellsOfOne
<1> QED  BY <1>1, <1>2, <1>3


Worth(b, type) == [k \in References |-> Counted(k, b, type)]

\* A total is what the worths of the entries add up to.
LEMMA TotalIsWorth ==
  ASSUME NEW b, NEW type
  PROVE  Total(b, type) = Cardinality(Cells(Worth(b, type), References))
<1>1. \A k \in References : Worth(b, type)[k] = Counted(k, b, type)
  BY DEF Worth
<1>2. {{k} \X (1..Worth(b, type)[k]) : k \in References}
        = {{k} \X (1..Counted(k, b, type)) : k \in References}
  BY <1>1
<1> QED
  BY <1>2 DEF Total, Cells

\* The same of the next state.
LEMMA TotalIsWorthPrimed ==
  ASSUME NEW b, NEW type
  PROVE  Total(b, type)' = Cardinality(Cells(Worth(b, type)', References))
<1>1. \A k \in References : Worth(b, type)'[k] = Counted(k, b, type)'
  BY DEF Worth
<1>2. {{k} \X (1..Worth(b, type)'[k]) : k \in References}
        = {{k} \X (1..Counted(k, b, type)') : k \in References}
  BY <1>1
<1> QED
  BY <1>2 DEF Total, Cells

\* Entries are worth natural numbers.
LEMMA CountedType ==
  ASSUME TypeOK, NEW b, NEW type, NEW k \in References
  PROVE  Counted(k, b, type) \in Nat
<1>1. ledger[k] # None => ledger[k].amount \in Amounts
  BY DEF TypeOK, Entries
<1> QED
  BY <1>1, AmountPositive DEF Counted

LEMMA CountedTypePrimed ==
  ASSUME TypeOK', NEW b, NEW type, NEW k \in References
  PROVE  Counted(k, b, type)' \in Nat
<1>1. ledger'[k] # None => ledger'[k].amount \in Amounts
  BY DEF TypeOK, Entries
<1> QED
  BY <1>1, AmountPositive DEF Counted

\* When the worth of one entry changes, the total changes by as much.
LEMMA TotalChange ==
  ASSUME TypeOK, TypeOK', NEW b, NEW type, NEW y \in References,
         \A k \in References \ {y} : Counted(k, b, type)' = Counted(k, b, type)
  PROVE  /\ Total(b, type)' = Total(b, type) - Counted(y, b, type) + Counted(y, b, type)'
         /\ Total(b, type) \in Nat
<1>1. PICK f : f = Worth(b, type)
  OBVIOUS
<1>2. PICK g : g = Worth(b, type)'
  OBVIOUS
<1>3. \A k \in References : f[k] = Counted(k, b, type) /\ f[k] \in Nat
  BY <1>1, CountedType DEF Worth
<1>4. \A k \in References : g[k] = Counted(k, b, type)' /\ g[k] \in Nat
  BY <1>2, CountedTypePrimed DEF Worth
<1>5. \A k \in References \ {y} : g[k] = f[k]
  BY <1>3, <1>4
<1>6. Cardinality(Cells(g, References)) = Cardinality(Cells(f, References)) - f[y] + g[y]
  BY <1>3, <1>4, <1>5, CellsChange, ReferencesAssumption
<1>7. Cardinality(Cells(f, References)) \in Nat
  <2>1. IsFiniteSet(Cells(f, References))
    BY <1>3, CellsFinite, ReferencesAssumption
  <2> QED
    BY <2>1, FS_CardinalityType
<1>8. /\ Total(b, type) = Cardinality(Cells(f, References))
      /\ Total(b, type)' = Cardinality(Cells(g, References))
  BY <1>1, <1>2, TotalIsWorth, TotalIsWorthPrimed
<1> QED
  BY <1>3, <1>4, <1>6, <1>7, <1>8

\* The entries no movement touches are worth what they were.
LEMMA CountedStays ==
  ASSUME NEW op \in Movements, ledger' = Posted(op), NEW k \in References,
         k # op.reference, ~(op.type = "reversal" /\ k = op.target), NEW b, NEW type
  PROVE  Counted(k, b, type)' = Counted(k, b, type)
<1>1. ledger'[k] = ledger[k]
  BY DEF Posted
<1> QED
  BY <1>1 DEF Counted

\* A free reference is worth nothing; once posted it is worth its amount, for
\* its own budget and type.
LEMMA PostedCounts ==
  ASSUME NEW op \in Movements, Unique(op), ledger' = Posted(op), NEW b, NEW type
  PROVE  /\ Counted(op.reference, b, type) = 0
         /\ Counted(op.reference, b, type)' =
              IF op.budget = b /\ op.type = type THEN op.amount ELSE 0
<1>1. ledger[op.reference] = None /\ op.reference \in References
  BY MovementType DEF Unique
<1>2. ledger'[op.reference] = Entry(op)
  BY <1>1 DEF Posted
<1>3. Entry(op) # None
  <2>1. Entry(op) \in Entries
    BY DEF Entry, Entries, Movements
  <2> QED
    BY <2>1, NoEntryAssumption
<1>4. PICK e : e = Entry(op)
  OBVIOUS
<1>5. /\ e.budget = op.budget /\ e.type = op.type
      /\ e.status = "confirmed" /\ e.amount = op.amount
  BY <1>4 DEF Entry
<1> QED
  BY <1>1, <1>2, <1>3, <1>4, <1>5 DEF Counted

\* What a movement that reverses nothing adds to the totals.
LEMMA PostedTotals ==
  ASSUME TypeOK, TypeOK', NEW op \in Movements, Unique(op), ledger' = Posted(op),
         op.type # "reversal", NEW b, NEW type
  PROVE  Total(b, type)' = Total(b, type)
                            + (IF op.budget = b /\ op.type = type THEN op.amount ELSE 0)
<1>1. PICK y : y = op.reference
  OBVIOUS
<1>2. y \in References
  BY <1>1, MovementType
<1>3. \A k \in References \ {y} : Counted(k, b, type)' = Counted(k, b, type)
  BY <1>1, CountedStays
<1>4. /\ Total(b, type)' = Total(b, type) - Counted(y, b, type) + Counted(y, b, type)'
      /\ Total(b, type) \in Nat
  BY <1>2, <1>3, TotalChange
<1>5. /\ Counted(y, b, type) = 0
      /\ Counted(y, b, type)' = IF op.budget = b /\ op.type = type THEN op.amount ELSE 0
  BY <1>1, PostedCounts
<1>6. op.amount \in Nat
  BY MovementAmount
<1> QED
  BY <1>4, <1>5, <1>6

\* A reversal takes its amount from the total of the entry it reverses, and from
\* no other.
LEMMA ReversedTotals ==
  ASSUME TypeOK, TypeOK', NEW op \in Movements, NEW row, Accepted(op, row), Unique(op),
         ledger' = Posted(op), op.type = "reversal", NEW b, NEW type, type # "reversal"
  PROVE  Total(b, type)' = Total(b, type) -
           (IF op.budget = b /\ ledger[op.target].type = type THEN op.amount ELSE 0)
<1>1. Matches(op)
  BY DEF Accepted, RecordOk
<1>2. op.target \in References /\ op.reference \in References /\ op.target # op.reference
  BY <1>1, MovementType DEF Matches, Unique
<1>3. PICK y : y = op.target
  OBVIOUS
<1>4. \A k \in References \ {y} : Counted(k, b, type)' = Counted(k, b, type)
  <2>1. Counted(op.reference, b, type)' = Counted(op.reference, b, type)
    BY PostedCounts
  <2>2. ASSUME NEW k \in References, k # op.reference, k # y
        PROVE  Counted(k, b, type)' = Counted(k, b, type)
    BY <1>3, <2>2, CountedStays
  <2>3. PICK r : r = op.reference
    OBVIOUS
  <2>4. Counted(r, b, type)' = Counted(r, b, type)
    BY <2>1, <2>3
  <2> QED
    BY <2>2, <2>3, <2>4
<1>5. /\ Total(b, type)' = Total(b, type) - Counted(y, b, type) + Counted(y, b, type)'
      /\ Total(b, type) \in Nat
  BY <1>2, <1>3, <1>4, TotalChange
<1>6. Counted(y, b, type) =
        IF op.budget = b /\ ledger[op.target].type = type THEN op.amount ELSE 0
  BY <1>1, <1>3 DEF Matches, Counted
<1>7. Counted(y, b, type)' = 0
  <2>1. ledger'[y] = [ledger[y] EXCEPT !.status = "reversed"]
    BY <1>2, <1>3 DEF Posted
  <2>2. ledger[y] \in Entries
    BY <1>1, <1>2, <1>3 DEF TypeOK, Matches
  <2>3. ledger'[y].status = "reversed"
    BY <2>1, <2>2 DEF Entries
  <2> QED
    BY <2>3 DEF Counted
<1>8. op.amount \in Nat
  BY MovementAmount
<1> QED
  BY <1>5, <1>6, <1>7, <1>8

\* A ledger that stays keeps the totals.
LEMMA SameTotals ==
  ASSUME ledger' = ledger, NEW b, NEW type
  PROVE  Total(b, type)' = Total(b, type)
<1>1. \A k \in References : Counted(k, b, type)' = Counted(k, b, type)
  BY DEF Counted
<1> QED
  BY <1>1 DEF Total

Explained(row, r, c, s) == row.reserved <= r /\ row.committed <= c /\ row.spent = s

\* Nothing has been recorded against a budget that does not exist.
Books ==
  /\ \A b \in Budgets : Explained(budget[b], Total(b, "reservation"),
                                  Total(b, "commitment"), Total(b, "expense"))
  /\ \A b \in Budgets : budget[b].status = "absent" => budget[b].spent = 0

\* What a movement that reverses nothing makes of an explained row.
LEMMA MovedIsExplained ==
  ASSUME NEW op \in Movements, NEW row \in Rows, Accepted(op, row), op.type # "reversal",
         NEW r \in Nat, NEW c \in Nat, NEW s \in Nat, Explained(row, r, c, s)
  PROVE  Explained(After(op, row),
                   r + (IF op.type = "reservation" THEN op.amount ELSE 0),
                   c + (IF op.type = "commitment" THEN op.amount ELSE 0),
                   s + (IF op.type = "expense" THEN op.amount ELSE 0))
<1>0. op.amount \in Nat /\ op.amount > 0
  BY MovementAmount
<1>1. CASE op.type = "reservation"
  BY <1>0, <1>1 DEF After, Rows, Explained
<1>2. CASE op.type = "release"
  BY <1>0, <1>2 DEF After, Rows, Explained
<1>3. CASE op.type = "commitment"
  <2>1. PICK n : n = op.amount
    OBVIOUS
  <2>2. After(op, row) = IF row.reserved >= n
                         THEN [row EXCEPT !.reserved = @ - n, !.committed = @ + n]
                         ELSE [row EXCEPT !.committed = @ + n]
    BY <1>3, <2>1 DEF After, Take, Rows
  <2>3. PICK new : new = After(op, row)
    OBVIOUS
  <2>4. new.reserved <= row.reserved /\ new.committed = row.committed + n /\ new.spent = row.spent
    BY <1>0, <2>1, <2>2, <2>3 DEF Rows
  <2>5. /\ new.reserved \in Int /\ new.committed \in Nat
        /\ row.reserved \in Nat /\ row.committed \in Nat /\ row.spent \in Nat
    BY <1>0, <2>1, <2>2, <2>3 DEF Rows
  <2> QED
    BY <1>0, <1>3, <2>1, <2>3, <2>4, <2>5 DEF Explained
<1>4. CASE op.type = "expense"
  <2>1. PICK n : n = op.amount
    OBVIOUS
  <2>2. After(op, row) = IF row.committed >= n
                         THEN [row EXCEPT !.committed = @ - n, !.spent = @ + n]
                         ELSE [row EXCEPT !.spent = @ + n]
    BY <1>4, <2>1 DEF After, Take, Rows
  <2>3. PICK new : new = After(op, row)
    OBVIOUS
  <2>4. new.reserved = row.reserved /\ new.committed <= row.committed /\ new.spent = row.spent + n
    BY <1>0, <2>1, <2>2, <2>3 DEF Rows
  <2>5. /\ new.reserved \in Nat /\ new.committed \in Int
        /\ row.reserved \in Nat /\ row.committed \in Nat /\ row.spent \in Nat
    BY <1>0, <2>1, <2>2, <2>3 DEF Rows
  <2> QED
    BY <1>0, <1>4, <2>1, <2>3, <2>4, <2>5 DEF Explained
<1>5. CASE op.type = "adjustment"
  BY <1>0, <1>5 DEF After, Rows, Explained
<1> QED
  BY <1>1, <1>2, <1>3, <1>4, <1>5 DEF Movements, Types, Recorded

\* What a reversal makes of an explained row.
LEMMA ReversedIsExplained ==
  ASSUME NEW op \in Movements, NEW row \in Rows, Accepted(op, row), op.type = "reversal",
         NEW type, type = ledger[op.target].type,
         NEW r \in Nat, NEW c \in Nat, NEW s \in Nat, Explained(row, r, c, s)
  PROVE  Explained(After(op, row),
                   r - (IF type = "reservation" THEN op.amount ELSE 0),
                   c - (IF type = "commitment" THEN op.amount ELSE 0),
                   s - (IF type = "expense" THEN op.amount ELSE 0))
<1>0. op.amount \in Nat /\ op.amount > 0
  BY MovementAmount
<1>1. type \in {"reservation", "commitment", "expense", "adjustment"}
  BY DEF Accepted, RecordOk, Field
<1>2. After(op, row) = [row EXCEPT ![Field[type]] = @ - op.amount]
  BY DEF After
<1>3. PICK n, new : n = op.amount /\ new = After(op, row)
  OBVIOUS
<1>4. CASE type = "reservation"
  <2>1. Field[type] = "reserved"
    BY <1>4 DEF Field
  <2>2. new = [row EXCEPT ![Field[type]] = @ - n]
    BY <1>2, <1>3
  <2>3. new = [row EXCEPT !.reserved = @ - n]
    BY <2>1, <2>2
  <2> QED
    BY <1>0, <1>3, <1>4, <2>3 DEF Rows, Explained
<1>5. CASE type = "commitment"
  <2>1. Field[type] = "committed"
    BY <1>5 DEF Field
  <2>2. new = [row EXCEPT ![Field[type]] = @ - n]
    BY <1>2, <1>3
  <2>3. new = [row EXCEPT !.committed = @ - n]
    BY <2>1, <2>2
  <2> QED
    BY <1>0, <1>3, <1>5, <2>3 DEF Rows, Explained
<1>6. CASE type = "expense"
  <2>1. Field[type] = "spent"
    BY <1>6 DEF Field
  <2>2. new = [row EXCEPT ![Field[type]] = @ - n]
    BY <1>2, <1>3
  <2>3. new = [row EXCEPT !.spent = @ - n]
    BY <2>1, <2>2
  <2> QED
    BY <1>0, <1>3, <1>6, <2>3 DEF Rows, Explained
<1>7. CASE type = "adjustment"
  <2>1. Field[type] = "allocated"
    BY <1>7 DEF Field
  <2>2. new = [row EXCEPT ![Field[type]] = @ - n]
    BY <1>2, <1>3
  <2>3. new = [row EXCEPT !.allocated = @ - n]
    BY <2>1, <2>2
  <2> QED
    BY <1>0, <1>3, <1>7, <2>3 DEF Rows, Explained
<1> QED
  BY <1>1, <1>4, <1>5, <1>6, <1>7

\* Totals are natural numbers.
LEMMA TotalType ==
  ASSUME TypeOK, NEW b, NEW type
  PROVE  Total(b, type) \in Nat
<1>1. PICK f : f = Worth(b, type)
  OBVIOUS
<1>2. \A k \in References : f[k] \in Nat
  BY <1>1, CountedType DEF Worth
<1>3. IsFiniteSet(Cells(f, References))
  BY <1>2, CellsFinite, ReferencesAssumption
<1> QED
  BY <1>1, <1>3, TotalIsWorth, FS_CardinalityType

\* A commit moves the totals of its own budget as it moves the row.
LEMMA CommitBooks ==
  ASSUME IInv, TypeOK', Books, NEW s \in Sessions, Commit(s)
  PROVE  Books'
<1>1. PICK op : op = call[s].op
  OBVIOUS
<1>2. /\ op \in Movements /\ op.budget \in Budgets
      /\ budget[op.budget] \in Rows
      /\ budget[op.budget].status # "absent"
      /\ Accepted(op, budget[op.budget])
      /\ Unique(op)
      /\ ledger' = Posted(op)
      /\ budget' = [budget EXCEPT ![op.budget] = After(op, budget[op.budget])]
  BY <1>1, CommitEffect
<1>3. TypeOK
  BY DEF IInv
<1>4. ASSUME NEW b \in Budgets, b # op.budget
      PROVE  /\ budget'[b] = budget[b]
             /\ \A type \in {"reservation", "commitment", "expense"} :
                  Total(b, type)' = Total(b, type)
  <2>1. budget'[b] = budget[b]
    BY <1>2, <1>4
  <2>2. ASSUME NEW type \in {"reservation", "commitment", "expense"}
        PROVE  Total(b, type)' = Total(b, type)
    <3>1. Total(b, type) \in Nat
      BY <1>3, TotalType
    <3>2. CASE op.type = "reversal"
      <4>1. PICK row : row = budget[op.budget]
        OBVIOUS
      <4> QED
        BY <1>2, <1>3, <1>4, <3>1, <3>2, <4>1, ReversedTotals
    <3>3. CASE op.type # "reversal"
      BY <1>2, <1>3, <1>4, <3>1, <3>3, PostedTotals
    <3> QED
      BY <3>2, <3>3
  <2> QED
    BY <2>1, <2>2
<1>5. PICK b : b = op.budget
  OBVIOUS
<1>6. PICK row, new : row = budget[b] /\ new = budget'[b]
  OBVIOUS
<1>7. /\ row \in Rows /\ Accepted(op, row) /\ b \in Budgets
      /\ new = After(op, row) /\ row.status # "absent"
  BY <1>2, <1>3, <1>5, <1>6 DEF TypeOK
<1>8. PICK r, c, e : /\ r = Total(b, "reservation") /\ c = Total(b, "commitment")
                     /\ e = Total(b, "expense")
  OBVIOUS
<1>9. r \in Nat /\ c \in Nat /\ e \in Nat /\ Explained(row, r, c, e)
  BY <1>3, <1>6, <1>7, <1>8, TotalType DEF Books
<1>10. Explained(new, Total(b, "reservation")', Total(b, "commitment")', Total(b, "expense")')
  <2>1. CASE op.type = "reversal"
    <3>1. PICK type : type = ledger[op.target].type
      OBVIOUS
    <3>2. /\ Total(b, "reservation")' = r - (IF type = "reservation" THEN op.amount ELSE 0)
          /\ Total(b, "commitment")' = c - (IF type = "commitment" THEN op.amount ELSE 0)
          /\ Total(b, "expense")' = e - (IF type = "expense" THEN op.amount ELSE 0)
      BY <1>2, <1>3, <1>5, <1>7, <1>8, <2>1, <3>1, ReversedTotals
    <3> QED
      BY <1>2, <1>7, <1>9, <2>1, <3>1, <3>2, ReversedIsExplained
  <2>2. CASE op.type # "reversal"
    <3>1. /\ Total(b, "reservation")' = r + (IF op.type = "reservation" THEN op.amount ELSE 0)
          /\ Total(b, "commitment")' = c + (IF op.type = "commitment" THEN op.amount ELSE 0)
          /\ Total(b, "expense")' = e + (IF op.type = "expense" THEN op.amount ELSE 0)
      BY <1>2, <1>3, <1>5, <1>8, <2>2, PostedTotals
    <3> QED
      BY <1>2, <1>7, <1>9, <2>2, <3>1, MovedIsExplained
  <2> QED
    BY <2>1, <2>2
<1>11. new.status # "absent"
  BY <1>2, <1>7, AfterType
<1>12. \A d \in Budgets : Explained(budget'[d], Total(d, "reservation")',
                                    Total(d, "commitment")', Total(d, "expense")')
  BY <1>4, <1>5, <1>6, <1>10 DEF Books
<1>13. \A d \in Budgets : budget'[d].status = "absent" => budget'[d].spent = 0
  BY <1>4, <1>5, <1>6, <1>11 DEF Books
<1> QED
  BY <1>12, <1>13 DEF Books

\* Every other step leaves the ledger, and the totals of the rows there are.
LEMMA QuietBooks ==
  ASSUME IInv, TypeOK', Books, [Next]_vars, ledger' = ledger
  PROVE  Books'
<1>1. ASSUME NEW op \in Movements, Unique(op), ledger' = Posted(op) PROVE FALSE
  <2>1. op.reference \in References
    BY MovementType
  <2>2. ledger'[op.reference] = Entry(op) /\ ledger[op.reference] = None
    BY <1>1, <2>1 DEF Posted, Unique
  <2>3. Entry(op) \in Entries
    BY DEF Entry, Entries, Movements
  <2> QED
    BY <2>2, <2>3, NoEntryAssumption
<1>2. ASSUME NEW b \in Budgets
      PROVE  /\ Explained(budget'[b], Total(b, "reservation")',
                          Total(b, "commitment")', Total(b, "expense")')
             /\ budget'[b].status = "absent" => budget'[b].spent = 0
  <2>1. PICK row, new : row = budget[b] /\ new = budget'[b]
    OBVIOUS
  <2>2. PICK r, c, e : /\ r = Total(b, "reservation") /\ c = Total(b, "commitment")
                       /\ e = Total(b, "expense")
    OBVIOUS
  <2>3. /\ r = Total(b, "reservation")' /\ c = Total(b, "commitment")'
        /\ e = Total(b, "expense")'
    BY <2>2, SameTotals
  <2>4. r \in Nat /\ c \in Nat /\ e \in Nat
    BY <2>2, TotalType DEF IInv
  <2>5. row \in Rows /\ new \in Rows
    BY <2>1 DEF IInv, TypeOK
  <2>6. Explained(row, r, c, e) /\ (row.status = "absent" => row.spent = 0)
    BY <2>1, <2>2 DEF Books
  <2>7. \/ new = row
        \/ row.status = "absent" /\ new.reserved = 0 /\ new.committed = 0 /\ new.spent = 0
        \/ /\ new.status # "absent"
           /\ new.reserved = row.reserved /\ new.committed = row.committed
           /\ new.spent = row.spent
        \/ new = [row EXCEPT !.status = "inactive"]
    BY <1>1, <2>1, RowSteps
  <2>8. Explained(new, r, c, e) /\ (new.status = "absent" => new.spent = 0)
    BY <2>4, <2>5, <2>6, <2>7 DEF Rows, Explained
  <2> QED
    BY <2>1, <2>3, <2>8
<1> QED
  BY <1>2 DEF Books

\* The initial books are empty.
LEMMA InitBooks == Init => Books
<1> SUFFICES ASSUME Init PROVE Books
  OBVIOUS
<1>1. TypeOK
  BY InitInv DEF IInv
<1>2. ASSUME NEW b, NEW type PROVE Total(b, type) = 0
  <2>1. \A k \in References : Counted(k, b, type) = 0
    BY DEF Init, Counted
  <2>2. UNION {{k} \X (1..Counted(k, b, type)) : k \in References} = {}
    BY <2>1
  <2> QED
    BY <2>2, FS_EmptySet DEF Total
<1>3. \A b \in Budgets : budget[b] = NoRow
  BY DEF Init
<1> QED
  BY <1>2, <1>3 DEF Books, Explained, NoRow

\* The ledger explains the totals in every reachable state: each accepted
\* movement changes a total by no more than the entry it posts or reverses.
THEOREM LedgerExplains == Spec => []LedgerExplainsTotals
<1>1. ASSUME IInv, IInv', Books, [Next]_vars PROVE Books'
  <2>1. TypeOK'
    BY <1>1 DEF IInv
  <2>2. ASSUME NEW s \in Sessions, Commit(s) PROVE Books'
    BY <1>1, <2>1, <2>2, CommitBooks
  <2>3. CASE ledger' = ledger
    BY <1>1, <2>1, <2>3, QuietBooks
  <2>4. CASE ledger' # ledger
    BY <1>1, <2>2, <2>4, OnlyCommitsPost
  <2> QED
    BY <2>3, <2>4
<1>2. IInv /\ IInv' /\ Books /\ [Next]_vars => Books'
  BY <1>1
<1>3. Books => LedgerExplainsTotals
  BY DEF Books, Explained, LedgerExplainsTotals
<1> QED
  BY <1>2, <1>3, InitBooks, Invariant, PTL DEF Spec

=============================================================================
