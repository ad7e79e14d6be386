------------------------ MODULE RequestLifecycle_proofs ------------------------
(***************************************************************************)
(* Proofs about RequestLifecycle, for every set of sessions, every set of  *)
(* departments, every clarification limit and every number of calls.       *)
(***************************************************************************)
EXTENDS RequestLifecycle, TLAPS

-----------------------------------------------------------------------------
(* Lemmas about the timeline.                                              *)

\* The greatest number up to n is n.
LEMMA MaxOfInterval ==
  ASSUME NEW n \in Nat
  PROVE  Max(0..n) = n
<1>1. n \in 0..n /\ \A y \in 0..n : n >= y
  OBVIOUS
<1>2. \A x \in 0..n : (\A y \in 0..n : x >= y) => x = n
  OBVIOUS
<1> QED  BY <1>1, <1>2 DEF Max

\* On a gap-free timeline the next sequence number, max() + 1, is the length
\* plus one (WorkflowEventRepository.append).
LEMMA MaxSeqIsLen ==
  ASSUME log \in Seq(Events), TimelineGapFree
  PROVE  MaxSeq(log) = Len(log)
<1>1. DOMAIN log = 1..Len(log) /\ Len(log) \in Nat
  OBVIOUS
<1>2. \A i \in DOMAIN log : log[i].seq = i
  BY DEF TimelineGapFree
<1>3. {0} \cup {log[i].seq : i \in DOMAIN log} = 0..Len(log)
  BY <1>1, <1>2
<1> QED  BY <1>1, <1>3, MaxOfInterval DEF MaxSeq

\* The rows an open transaction inserts are events, one per type, numbered
\* from the reserved number.
LEMMA NumberedType ==
  ASSUME NEW types \in Seq(EventTypes), NEW first \in Nat \ {0}
  PROVE  /\ Numbered(types, first) \in Seq(Events)
         /\ Len(Numbered(types, first)) = Len(types)
         /\ \A i \in 1..Len(types) :
              /\ Numbered(types, first)[i].seq = first + i - 1
              /\ Numbered(types, first)[i].type = types[i]
<1>1. Len(types) \in Nat /\ \A i \in 1..Len(types) : types[i] \in EventTypes
  OBVIOUS
<1>2. \A i \in 1..Len(types) : [seq |-> first + i - 1, type |-> types[i]] \in Events
  BY <1>1 DEF Events
<1> QED  BY <1>1, <1>2 DEF Numbered

\* Appending them to a gap-free timeline keeps it gap-free when they are
\* numbered from its length plus one.
LEMMA AppendGapFree ==
  ASSUME NEW l \in Seq(Events), \A i \in DOMAIN l : l[i].seq = i,
         NEW types \in Seq(EventTypes), NEW m, m = Appended(l, types, Len(l) + 1)
  PROVE  /\ m \in Seq(Events)
         /\ \A i \in DOMAIN m : m[i].seq = i
         /\ \A i \in DOMAIN l : i \in DOMAIN m /\ m[i] = l[i]
         /\ \A i \in DOMAIN m \ DOMAIN l :
              i - Len(l) \in DOMAIN types /\ m[i].type = types[i - Len(l)]
         /\ \A i \in DOMAIN types :
              i + Len(l) \in DOMAIN m \ DOMAIN l /\ m[i + Len(l)].type = types[i]
<1> DEFINE n == Numbered(types, Len(l) + 1)
<1>1. Len(l) \in Nat /\ Len(l) + 1 \in Nat \ {0} /\ Len(types) \in Nat
  OBVIOUS
<1>2. n \in Seq(Events) /\ Len(n) = Len(types)
  BY <1>1, NumberedType
<1>3. \A i \in 1..Len(types) : n[i].seq = (Len(l) + 1) + i - 1 /\ n[i].type = types[i]
  BY <1>1, NumberedType
<1>4. m = l \o n
  BY DEF Appended
<1> HIDE DEF n
<1>5. l \o n \in Seq(Events) /\ Len(l \o n) = Len(l) + Len(n)
  BY <1>2
<1>6. m \in Seq(Events) /\ Len(m) = Len(l) + Len(types)
  BY <1>2, <1>4, <1>5
<1>7. /\ DOMAIN m = 1..(Len(l) + Len(types)) /\ DOMAIN l = 1..Len(l)
      /\ DOMAIN types = 1..Len(types)
  BY <1>6
<1>8. \A i \in DOMAIN l : i \in DOMAIN m /\ m[i] = l[i]
  BY <1>1, <1>2, <1>4, <1>6, <1>7
<1>9. \A i \in DOMAIN m \ DOMAIN l : m[i] = n[i - Len(l)] /\ i - Len(l) \in 1..Len(types)
  BY <1>1, <1>2, <1>4, <1>6, <1>7
<1>10. \A i \in DOMAIN m \ DOMAIN l : m[i].seq = i /\ m[i].type = types[i - Len(l)]
  BY <1>1, <1>3, <1>7, <1>9
<1>11. \A i \in DOMAIN types :
        i + Len(l) \in DOMAIN m \ DOMAIN l /\ (i + Len(l)) - Len(l) = i
  BY <1>1, <1>7
<1> QED  BY <1>6, <1>7, <1>8, <1>9, <1>10, <1>11

-----------------------------------------------------------------------------
(* Lemmas about rows, documents and transactions.                          *)

\* A checkpoint writes a row that agrees with its document.
LEMMA CheckpointType ==
  ASSUME NEW r \in Rows, NEW st \in WorkflowStates, NEW q, q = Checkpoint(r, st)
  PROVE  q \in Rows /\ q.status = st.status /\ q.json = st /\ IdentityOk(q)
<1>1. q \in Rows
  BY DEF Checkpoint, Rows, WorkflowStates
<1>2. q.status = st.status /\ q.json = st /\ q.owner = st.owner
  BY DEF Checkpoint, Rows
<1> QED  BY <1>1, <1>2 DEF IdentityOk

\* So does one that fails the request, and it time-stamps the failure.
LEMMA FailedCheckpointType ==
  ASSUME NEW r \in Rows, NEW st \in WorkflowStates, NEW q, q = FailedCheckpoint(r, st)
  PROVE  /\ q \in Rows /\ q.status = "failed" /\ q.json.status = "failed"
         /\ IdentityOk(q) /\ q.failedAt
<1>1. PICK f : f = [st EXCEPT !.status = "failed"]
  OBVIOUS
<1>2. f \in WorkflowStates /\ f.status = "failed"
  BY <1>1 DEF WorkflowStates, Statuses
<1>3. PICK c : c = Checkpoint(r, f)
  OBVIOUS
<1>4. c \in Rows /\ c.status = f.status /\ c.json = f /\ c.owner = f.owner
  BY <1>2, <1>3, CheckpointType DEF IdentityOk
<1>5. q = [c EXCEPT !.failedAt = TRUE]
  BY <1>1, <1>3 DEF FailedCheckpoint
<1>6. /\ q \in Rows /\ q.failedAt
      /\ q.status = c.status /\ q.json = c.json /\ q.owner = c.owner
  BY <1>4, <1>5 DEF Rows
<1> QED  BY <1>2, <1>4, <1>6 DEF IdentityOk

\* router_node keeps the document well formed; the clarification count stays
\* within its limit because the limit is checked first.
LEMMA RouterUpdateType ==
  ASSUME NEW from \in WorkflowStates, NEW to \in WorkflowStates, NEW out \in Outputs,
         ~RouterRejects(from, out)
  PROVE  /\ RouterUpdate(from, to, out) \in WorkflowStates
         /\ RouterUpdate(from, to, out).status = to.status
         /\ RouterUpdate(from, to, out).needs => out.category = "unclear"
<1> USE BoundsAssumption
<1>1. CASE out.category = "unclear"
  <2>1. from.count + 1 \in 0..MaxClarifications
    BY <1>1 DEF RouterRejects, WorkflowStates
  <2> QED  BY <1>1, <2>1 DEF RouterUpdate, WorkflowStates, Categories, Steps
<1>2. CASE out.category = "business"
  <2>1. out.dept \in Departments
    BY <1>2 DEF Outputs, Categories
  <2> QED  BY <1>2, <2>1 DEF RouterUpdate, WorkflowStates, Categories, Steps
<1>3. CASE out.category \notin {"unclear", "business"}
  <2>1. out.category \in Categories
    BY DEF Outputs, Categories
  <2> QED  BY <1>3, <2>1 DEF RouterUpdate, WorkflowStates, Steps
<1> QED  BY <1>1, <1>2, <1>3

\* A new request and its first state document are well typed (create).
LEMMA InitialTypes ==
  InitialState \in WorkflowStates /\ NoRow \in Rows /\ NoTx \in Transactions
<1>1. InitialState \in WorkflowStates
  BY BoundsAssumption DEF InitialState, WorkflowStates, Statuses, Categories
<1>2. NoRow \in Rows
  BY <1>1 DEF NoRow, Rows
<1>3. NoTx \in Transactions
  BY <1>2 DEF NoTx, Transactions, PCs
<1> QED  BY <1>1, <1>2, <1>3

\* One event is a list of events.
LEMMA OneEvent ==
  ASSUME NEW type \in EventTypes
  PROVE  /\ <<type>> \in Seq(EventTypes)
         /\ Len(<<type>>) = 1 /\ DOMAIN <<type>> = {1} /\ <<type>>[1] = type
OBVIOUS

\* The fields of a pending transaction; the number it reserves is the next one.
LEMMA PendingFields ==
  ASSUME IInv, NEW r \in Rows, NEW types \in Seq(EventTypes), NEW next \in PCs,
         NEW abort \in PCs, NEW asks \in Nat, NEW answers \in Nat,
         NEW p, p = Pending(r, types, next, abort, asks, answers)
  PROVE  /\ p \in Transactions
         /\ p.first = Len(log) + 1
         /\ p.row = r /\ p.types = types /\ p.next = next /\ p.abort = abort
         /\ p.asks = asks /\ p.answers = answers
<1>1. log \in Seq(Events) /\ TimelineGapFree
  BY DEF IInv, TypeOK
<1>2. MaxSeq(log) + 1 = Len(log) + 1 /\ Len(log) + 1 \in Nat
  BY <1>1, MaxSeqIsLen
<1> QED  BY <1>2 DEF Pending, Transactions

\* A handler that takes the row lock with pending effects that may be published
\* keeps the invariant: it changes neither the row nor the timeline yet.
LEMMA OpenStep ==
  ASSUME IInv, NEW s \in Sessions, NEW p \in Transactions, Open(s, p),
         PendingOk(p), row.status # "absent",
         UNCHANGED <<row, log, asked, answered>>, calls' \in Nat,
         base' \in [Sessions -> WorkflowStates],
         NEW c \in WorkflowStates, cur' = [cur EXCEPT ![s] = c],
         p.next \in RunPCs => RunOk(c),
         seen' \in [Sessions -> Views]
  PROVE  IInv'
<1> USE SessionsAssumption
<1>1. lock' = s /\ lock = None
  BY DEF Open, LockFree
<1>2. pc' = [pc EXCEPT ![s] = "commit"] /\ tx' = [tx EXCEPT ![s] = p]
  BY DEF Open
<1>3. TypeOK'
  BY <1>1, <1>2 DEF IInv, TypeOK, PCs
<1>4. LockInv'
  BY <1>1, <1>2 DEF IInv, TypeOK, LockInv
<1>5. FreshInv'
  BY DEF IInv, FreshInv, Occurrences
<1>6. WritersInv'
  <2> SUFFICES ASSUME NEW t \in Sessions PROVE WriterOk(t)'
    BY DEF WritersInv
  <2>1. CASE t = s
    <3>1. pc'[t] = "commit" /\ tx'[t] = p /\ cur'[t] = c
      BY <1>2, <2>1 DEF IInv, TypeOK
    <3>2. PendingOk(p)'
      BY DEF PendingOk
    <3> QED  BY <3>1, <3>2 DEF WriterOk, Statuses, RunPCs
  <2>2. CASE t # s
    <3>1. pc'[t] = pc[t] /\ tx'[t] = tx[t] /\ cur'[t] = cur[t]
      BY <1>2, <2>2 DEF IInv, TypeOK
    <3>2. pc[t] # "commit"
      BY <1>1 DEF IInv, LockInv
    <3> QED  BY <3>1, <3>2 DEF IInv, WritersInv, WriterOk
  <2> QED  BY <2>1, <2>2
<1>7. TimelineGapFree' /\ StartedOnce' /\ DocumentFollowsRow'
  BY DEF IInv, TimelineGapFree, StartedOnce, DocumentFollowsRow, Occurrences
<1>8. AnsweredAtMostOnce' /\ EndIsExplained'
  BY DEF IInv, AnsweredAtMostOnce, EndIsExplained, Occurrences
<1> QED  BY <1>3, <1>4, <1>5, <1>6, <1>7, <1>8 DEF IInv

\* A handler that goes somewhere it writes nothing from, giving up its lock and
\* its transaction if it had one, keeps the invariant.
LEMMA IdleStep ==
  ASSUME IInv, NEW s \in Sessions, NEW q \in PCs \ (RunPCs \cup {"commit"}),
         pc' = [pc EXCEPT ![s] = q],
         q \in Statuses => q \in TransitionTargets \ {"created", "cancelled", "failed"},
         row.status = "absent" => q = "idle",
         UNCHANGED <<row, log, base, cur, asked, answered>>, calls' \in Nat,
         seen' \in [Sessions -> Views], tx' \in [Sessions -> Transactions],
         \A t \in Sessions : t # s => tx'[t] = tx[t],
         lock' = IF lock = s THEN None ELSE lock
  PROVE  IInv'
<1> USE SessionsAssumption
<1>1. TypeOK'
  BY DEF IInv, TypeOK
<1>2. \A t \in Sessions : pc'[t] = IF t = s THEN q ELSE pc[t]
  BY DEF IInv, TypeOK
<1>3. LockInv'
  BY <1>2 DEF IInv, LockInv, TypeOK
<1>4. FreshInv'
  BY <1>2 DEF IInv, FreshInv, Occurrences
<1>5. WritersInv'
  <2> SUFFICES ASSUME NEW t \in Sessions PROVE WriterOk(t)'
    BY DEF WritersInv
  <2>1. CASE t = s
    BY <1>2, <2>1 DEF WriterOk
  <2>2. CASE t # s
    <3>1. pc'[t] = pc[t] /\ tx'[t] = tx[t] /\ cur'[t] = cur[t] /\ WriterOk(t)
      BY <1>2, <2>2 DEF IInv, WritersInv
    <3>2. PendingOk(tx[t]) => PendingOk(tx[t])'
      BY <3>1 DEF PendingOk
    <3> QED  BY <3>1, <3>2 DEF WriterOk
  <2> QED  BY <2>1, <2>2
<1>6. TimelineGapFree' /\ StartedOnce' /\ DocumentFollowsRow'
  BY DEF IInv, TimelineGapFree, StartedOnce, DocumentFollowsRow, Occurrences
<1>7. AnsweredAtMostOnce' /\ EndIsExplained'
  BY DEF IInv, AnsweredAtMostOnce, EndIsExplained, Occurrences
<1> QED  BY <1>1, <1>3, <1>4, <1>5, <1>6, <1>7 DEF IInv

\* Before the request exists nothing is open and nothing is written.
LEMMA InitInv == Init => IInv
<1> SUFFICES ASSUME Init PROVE IInv
  OBVIOUS
<1> USE InitialTypes, SessionsAssumption DEF Init
<1>1. log \in Seq(Events) /\ DOMAIN log = {} /\ Expired \in Views
  BY DEF Expired, Views
<1>2. TypeOK
  BY <1>1 DEF TypeOK, PCs
<1>3. TimelineGapFree /\ StartedOnce /\ LockInv
  BY <1>1 DEF TimelineGapFree, StartedOnce, LockInv, Occurrences
<1>4. row.status = "absent" /\ row.json = InitialState /\ ~row.json.needs
  BY DEF NoRow, InitialState
<1>5. FreshInv /\ DocumentFollowsRow /\ AnsweredAtMostOnce /\ EndIsExplained
  BY <1>4 DEF FreshInv, DocumentFollowsRow, AnsweredAtMostOnce, EndIsExplained
<1>6. WritersInv
  BY DEF WritersInv, WriterOk, Statuses, RunPCs
<1> QED  BY <1>2, <1>3, <1>5, <1>6 DEF IInv

-----------------------------------------------------------------------------
(* The steps, one by one.                                                  *)

\* create opens a transaction that inserts the row and its first event.
LEMMA CreateInv ==
  ASSUME IInv, NEW s \in Sessions, Create(s)  PROVE IInv'
<1>1. log = <<>> /\ \A t \in Sessions : pc[t] = "idle"
  BY DEF IInv, FreshInv, Create
<1>2. MaxSeq(log) = Len(log) /\ Len(log) = 0
  BY <1>1, MaxSeqIsLen DEF IInv, TypeOK
<1> DEFINE types == <<"request_created">>
<1>3. /\ types \in Seq(EventTypes)
      /\ log' = Appended(log, types, Len(log) + 1)
      /\ \A i \in DOMAIN types : types[i] = "request_created"
  BY <1>1, <1>2 DEF Create, EventTypes
<1> HIDE DEF types
<1>4. /\ log' \in Seq(Events)
      /\ \A i \in DOMAIN log' : log'[i].seq = i /\ log'[i].type = "request_created"
  <2>1. log \in Seq(Events) /\ \A i \in DOMAIN log : log[i].seq = i
    BY DEF IInv, TypeOK, TimelineGapFree
  <2>2. /\ log' \in Seq(Events)
        /\ \A i \in DOMAIN log' : log'[i].seq = i
        /\ \A i \in DOMAIN log' \ DOMAIN log :
             i - Len(log) \in DOMAIN types /\ log'[i].type = types[i - Len(log)]
    BY <1>3, <2>1, AppendGapFree
  <2>3. DOMAIN log = {}
    BY <1>1
  <2> QED  BY <1>3, <2>2, <2>3
<1>5. /\ row' \in Rows /\ row'.status = "created" /\ row'.json = InitialState
      /\ row'.owner = None
  BY InitialTypes DEF IInv, Create, Rows, Statuses, NoRow
<1>6. TypeOK'
  BY <1>4, <1>5 DEF IInv, Create, NewCall, TypeOK
<1>7. LockInv' /\ WritersInv'
  BY <1>1 DEF IInv, LockInv, WritersInv, WriterOk, Create, Statuses, RunPCs
<1>8. FreshInv' /\ StartedOnce'
  BY <1>4, <1>5 DEF IInv, FreshInv, StartedOnce, Occurrences
<1>9. DocumentFollowsRow' /\ EndIsExplained'
  BY <1>5 DEF IInv, DocumentFollowsRow, EndIsExplained, IdentityOk, InitialState
<1>10. AnsweredAtMostOnce'
  BY <1>5 DEF IInv, AnsweredAtMostOnce, Create, InitialState
<1> QED  BY <1>4, <1>6, <1>7, <1>8, <1>9, <1>10 DEF IInv, TimelineGapFree

\* cancel's two steps: the read without a lock, and the write that waits for
\* the row lock and numbers its event.
LEMMA CancelInv ==
  ASSUME IInv, NEW s \in Sessions, CancelRead(s) \/ CancelWrite(s)  PROVE IInv'
<1>1. CASE CancelRead(s)
  <2>1. seen' \in [Sessions -> Views]
    BY <1>1 DEF CancelRead, IInv, TypeOK, View, Views, Rows
  <2>2. "cancel" \in PCs \ (RunPCs \cup Statuses \cup {"commit"})
    BY DEF PCs, RunPCs, Statuses
  <2>3. lock # s /\ calls' \in Nat
    BY <1>1 DEF CancelRead, NewCall, IInv, LockInv, TypeOK
  <2> QED
    BY <1>1, <2>1, <2>2, <2>3, IdleStep DEF CancelRead, MayCancel, NewCall, IInv, TypeOK
<1>2. CASE CancelWrite(s)
  <2> DEFINE r == [row EXCEPT !.status = "cancelled", !.cancelledAt = TRUE]
             types == <<"request_cancelled">>
             p == Pending(r, types, "idle", "idle", 0, 0)
  <2>1. row \in Rows /\ row.status # "absent"
    BY <1>2 DEF CancelWrite, IInv, TypeOK, FreshInv
  <2>2. r \in Rows /\ r.status = "cancelled" /\ r.cancelledAt /\ r.json = row.json
    BY <2>1 DEF Rows, Statuses
  <2>3. types \in Seq(EventTypes) /\ DOMAIN types = {1} /\ types[1] = "request_cancelled"
    BY OneEvent DEF EventTypes
  <2>4. Open(s, p)
    BY <1>2 DEF CancelWrite
  <2>9. p = Pending(r, types, "idle", "idle", 0, 0) /\ "idle" \in PCs
    BY DEF PCs
  <2> HIDE DEF r, types, p
  <2>5. /\ p \in Transactions /\ p.first = Len(log) + 1 /\ p.row = r /\ p.types = types
        /\ p.next = "idle" /\ p.abort = "idle" /\ p.asks = 0 /\ p.answers = 0
    BY <2>2, <2>3, <2>9, PendingFields
  <2>6. PendingOk(p)
    BY <2>2, <2>3, <2>5 DEF PendingOk, GraphNodes, Statuses, IInv, AnsweredAtMostOnce, TypeOK
  <2>7. cur' = [cur EXCEPT ![s] = cur[s]] /\ cur[s] \in WorkflowStates
    BY <1>2 DEF CancelWrite, IInv, TypeOK
  <2>8. p.next \notin RunPCs
    BY <2>5 DEF RunPCs
  <2> QED
    BY <1>2, <2>1, <2>4, <2>5, <2>6, <2>7, <2>8, OpenStep DEF CancelWrite, IInv, TypeOK
<1> QED  BY <1>1, <1>2

\* transition_status: an unlocked read, a check, and a write under the lock.
LEMMA TransitionInv ==
  ASSUME IInv, NEW s \in Sessions,
         \/ \E target \in TransitionTargets : TransitionRead(s, target)
         \/ TransitionWrite(s)
         \/ TransitionRefused(s)
  PROVE  IInv'
<1>1. ASSUME NEW target \in TransitionTargets, TransitionRead(s, target)  PROVE IInv'
  <2>1. seen' \in [Sessions -> Views]
    BY <1>1 DEF TransitionRead, IInv, TypeOK, View, Views, Rows
  <2>2. target \in Statuses \ {"created", "cancelled", "failed"}
    BY <1>1 DEF TransitionRead, Allowed, Statuses, Waiting
  <2>3. target \in PCs \ (RunPCs \cup {"commit"})
    BY <2>2 DEF PCs, RunPCs, Statuses
  <2>4. lock # s /\ calls' \in Nat
    BY <1>1 DEF TransitionRead, NewCall, IInv, LockInv, TypeOK
  <2> QED
    BY <1>1, <2>1, <2>2, <2>3, <2>4, IdleStep DEF TransitionRead, NewCall, IInv, TypeOK
<1>2. CASE TransitionWrite(s)
  <2> DEFINE target == pc[s]
             r == [row EXCEPT !.status = target]
             types == <<StatusEvent(r.status, target)>>
             p == Pending(r, types, "idle", "idle", 0, 0)
  <2>1. row \in Rows /\ row.status # "absent"
    BY <1>2 DEF TransitionWrite, IInv, TypeOK, FreshInv, Statuses
  <2>2. target \in TransitionTargets \ {"created", "cancelled", "failed"} /\ target \in Statuses
    BY <1>2 DEF TransitionWrite, IInv, WritersInv, WriterOk
  <2>3. r \in Rows /\ r.status = target /\ r.json = row.json
    BY <2>1, <2>2 DEF Rows
  <2>4. /\ StatusEvent(r.status, target) \in EventTypes
        /\ target # "routing" => StatusEvent(r.status, target) # "routing_started"
    BY <2>2 DEF StatusEvent, EventTypes, Statuses, Waiting
  <2>5. /\ types \in Seq(EventTypes) /\ DOMAIN types = {1}
        /\ target # "routing" => types[1] # "routing_started"
    BY <2>4, OneEvent
  <2>6. Open(s, p)
    BY <1>2 DEF TransitionWrite
  <2>7. p = Pending(r, types, "idle", "idle", 0, 0) /\ "idle" \in PCs
    BY DEF PCs
  <2>8. r \in Rows /\ types \in Seq(EventTypes)
    BY <2>3, <2>5
  <2> HIDE DEF target, r, types, p
  <2>9. /\ p \in Transactions /\ p.first = Len(log) + 1 /\ p.row = r /\ p.types = types
        /\ p.next = "idle" /\ p.abort = "idle" /\ p.asks = 0 /\ p.answers = 0
    BY <2>7, <2>8, PendingFields
  <2>10. PendingOk(p)
    BY <2>2, <2>3, <2>5, <2>9 DEF PendingOk, GraphNodes, Statuses, IInv, AnsweredAtMostOnce, TypeOK
  <2>11. cur' = [cur EXCEPT ![s] = cur[s]] /\ cur[s] \in WorkflowStates
    BY <1>2 DEF TransitionWrite, IInv, TypeOK
  <2>12. p.next \notin RunPCs
    BY <2>9 DEF RunPCs
  <2> QED
    BY <1>2, <2>1, <2>6, <2>9, <2>10, <2>11, <2>12, OpenStep DEF TransitionWrite, IInv, TypeOK
<1>3. CASE TransitionRefused(s)
  <2>1. row.status # "absent" /\ lock # s
    BY <1>3, SessionsAssumption DEF TransitionRefused, LockFree, IInv, FreshInv, Statuses
  <2>2. "idle" \in PCs \ (RunPCs \cup {"commit"}) /\ "idle" \notin Statuses
    BY DEF PCs, RunPCs, Statuses
  <2> QED
    BY <1>3, <2>1, <2>2, IdleStep DEF TransitionRefused, IInv, TypeOK
<1> QED  BY <1>1, <1>2, <1>3

\* start locks the row before it reads the status, so the request is fresh.
LEMMA StartInv ==
  ASSUME IInv, NEW s \in Sessions, Start(s)  PROVE IInv'
<1> DEFINE st == [row.json EXCEPT !.status = "routing", !.steps = row.json.steps \cup {"started"}]
           r == Checkpoint(row, st)
           types == <<"routing_started">>
           p == Pending(r, types, "initialize", "idle", 0, 0)
<1>1. row \in Rows /\ row.status = "created" /\ row.json = InitialState
  BY DEF Start, MayStart, IInv, TypeOK, FreshInv
<1>2. st \in WorkflowStates /\ st.status = "routing" /\ ~st.needs
  BY <1>1, InitialTypes DEF WorkflowStates, InitialState, Steps, Statuses
<1>3. st.status \notin Terminal
  BY <1>2 DEF Terminal
<1>4. r \in Rows /\ r.status = "routing" /\ r.json = st /\ IdentityOk(r)
  <2> HIDE DEF st
  <2> QED  BY <1>1, <1>2, CheckpointType
<1>5. types \in Seq(EventTypes) /\ DOMAIN types = {1} /\ Len(types) = 1
  BY OneEvent DEF EventTypes
<1>6. Open(s, p) /\ base' = [base EXCEPT ![s] = st] /\ cur' = [cur EXCEPT ![s] = st]
  BY DEF Start
<1>7. p = Pending(r, types, "initialize", "idle", 0, 0) /\ {"idle", "initialize"} \subseteq PCs
  BY DEF PCs
<1> HIDE DEF st, r, types, p
<1>8. /\ p \in Transactions /\ p.first = Len(log) + 1 /\ p.row = r /\ p.types = types
      /\ p.next = "initialize" /\ p.abort = "idle" /\ p.asks = 0 /\ p.answers = 0
  BY <1>4, <1>5, <1>7, PendingFields
<1>9. PendingOk(p)
  BY <1>1, <1>2, <1>4, <1>5, <1>8 DEF PendingOk, GraphNodes, Statuses, IInv, AnsweredAtMostOnce, TypeOK
<1>10. RunOk(st) /\ base' \in [Sessions -> WorkflowStates]
  BY <1>2, <1>3, <1>6 DEF RunOk, IInv, TypeOK
<1>11. /\ row.status # "absent" /\ UNCHANGED <<row, log, asked, answered>>
       /\ calls' \in Nat /\ seen' \in [Sessions -> Views]
  BY <1>1 DEF Start, NewCall, IInv, TypeOK
<1> QED  BY <1>2, <1>6, <1>8, <1>9, <1>10, <1>11, OpenStep

\* resume locks the row too, and consumes the pending question.
LEMMA ResumeInv ==
  ASSUME IInv, NEW s \in Sessions, Resume(s)  PROVE IInv'
<1> DEFINE waiting == row.json.needs
           st == Answered(row.json)
           r == IF waiting THEN Checkpoint(row, st) ELSE row
           n == IF waiting THEN 1 ELSE 0
           types == <<"request_resumed">>
           p == Pending(r, types, "initialize", "idle", 0, n)
<1>1. row \in Rows /\ row.status \notin Terminal \cup {"created", "absent"} /\ IdentityOk(row)
  BY DEF Resume, MayResume, IInv, TypeOK
<1>2. /\ st \in WorkflowStates /\ st.status = row.status /\ ~st.needs
      /\ st.owner = row.owner /\ waiting \in BOOLEAN /\ row.json.status = row.status
  BY <1>1 DEF Answered, WorkflowStates, Rows, IdentityOk
<1>3. r \in Rows /\ r.status = row.status /\ IdentityOk(r)
  <2>1. CASE waiting
    BY <1>1, <1>2, <2>1, CheckpointType
  <2>2. CASE ~waiting
    BY <1>1, <2>2
  <2> QED  BY <2>1, <2>2
<1>4. ~r.json.needs
  <2>1. CASE waiting
    BY <1>1, <1>2, <2>1, CheckpointType
  <2>2. CASE ~waiting
    BY <1>1, <2>2
  <2> QED  BY <2>1, <2>2
<1>5. n \in Nat /\ answered + n <= asked
  BY <1>1, <1>2 DEF IInv, AnsweredAtMostOnce, TypeOK, Terminal
<1>6. types \in Seq(EventTypes) /\ DOMAIN types = {1} /\ types[1] # "routing_started"
  BY OneEvent DEF EventTypes
<1>7. Open(s, p) /\ base' = [base EXCEPT ![s] = st] /\ cur' = [cur EXCEPT ![s] = st]
  BY DEF Resume
<1>8. p = Pending(r, types, "initialize", "idle", 0, n) /\ {"idle", "initialize"} \subseteq PCs
  BY DEF PCs
<1> HIDE DEF waiting, st, r, n, types, p
<1>9. /\ p \in Transactions /\ p.first = Len(log) + 1 /\ p.row = r /\ p.types = types
      /\ p.next = "initialize" /\ p.abort = "idle" /\ p.asks = 0 /\ p.answers = n
  BY <1>3, <1>5, <1>6, <1>8, PendingFields
<1>10. PendingOk(p)
  BY <1>1, <1>3, <1>4, <1>5, <1>6, <1>9 DEF PendingOk, GraphNodes, Statuses, Terminal, IInv, TypeOK
<1>11. RunOk(st) /\ base' \in [Sessions -> WorkflowStates]
  BY <1>1, <1>2, <1>7 DEF RunOk, IInv, TypeOK
<1>12. /\ row.status # "absent" /\ UNCHANGED <<row, log, asked, answered>>
       /\ calls' \in Nat /\ seen' \in [Sessions -> Views]
  BY <1>1 DEF Resume, NewCall, IInv, TypeOK
<1> QED  BY <1>2, <1>7, <1>9, <1>10, <1>11, <1>12, OpenStep

\* The initialize node's checkpoint rewrites the document only.
LEMMA InitializeNodeInv ==
  ASSUME IInv, NEW s \in Sessions, InitializeNode(s)  PROVE IInv'
<1> DEFINE st == IF "initialized" \in base[s].steps THEN cur[s]
                 ELSE [cur[s] EXCEPT !.steps = base[s].steps \cup {"initialized"}]
           r == Checkpoint(row, st)
           next == AfterNode(RouteInitialize(base[s]))
           types == <<>>
           p == Pending(r, types, next, "failing", 0, 0)
<1>1. /\ row \in Rows /\ row.status # "absent" /\ RunOk(cur[s])
      /\ base[s] \in WorkflowStates /\ cur[s] \in WorkflowStates
  BY DEF InitializeNode, IInv, TypeOK, FreshInv, WritersInv, WriterOk, RunPCs
<1>2. st \in WorkflowStates /\ RunOk(st)
  BY <1>1 DEF WorkflowStates, Steps, RunOk
<1>3. next \in PCs /\ next \in GraphNodes \cup {"idle"}
  BY DEF AfterNode, GraphNodes, PCs
<1>4. /\ types \in Seq(EventTypes) /\ \A i \in DOMAIN types : types[i] # "routing_started"
      /\ "failing" \in PCs
  BY DEF PCs
<1>5. Open(s, p) /\ cur' = [cur EXCEPT ![s] = st]
  BY DEF InitializeNode
<1>6. p = Pending(r, types, next, "failing", 0, 0) /\ r = Checkpoint(row, st)
  OBVIOUS
<1> HIDE DEF st, r, next, types, p
<1>7. r \in Rows /\ r.status = st.status /\ r.json = st /\ IdentityOk(r)
  BY <1>1, <1>2, <1>6, CheckpointType
<1>8. /\ p \in Transactions /\ p.first = Len(log) + 1 /\ p.row = r /\ p.types = types
      /\ p.next = next /\ p.abort = "failing" /\ p.asks = 0 /\ p.answers = 0
  BY <1>3, <1>4, <1>6, <1>7, PendingFields
<1>9. st.status \in Statuses \ {"created", "failed", "cancelled"} /\ ~st.needs
  BY <1>2 DEF RunOk, Terminal, WorkflowStates
<1>10. PendingOk(p)
  BY <1>3, <1>4, <1>7, <1>8, <1>9 DEF PendingOk, GraphNodes, Statuses, IInv, AnsweredAtMostOnce, TypeOK
<1>11. /\ UNCHANGED <<row, log, asked, answered>> /\ calls' \in Nat
       /\ base' \in [Sessions -> WorkflowStates] /\ seen' \in [Sessions -> Views]
  BY DEF InitializeNode, IInv, TypeOK
<1> QED  BY <1>1, <1>2, <1>5, <1>8, <1>10, <1>11, OpenStep

\* The Router node's checkpoint: owner, status and document together.
LEMMA RouterNodeInv ==
  ASSUME IInv, NEW s \in Sessions, NEW out \in Outputs, RouterNode(s, out)  PROVE IInv'
<1> DEFINE st == RouterUpdate(base[s], cur[s], out)
           r == Checkpoint(row, st)
           types == IF out.category = "business" THEN <<"request_routed">> ELSE <<>>
           next == AfterNode(RouteAfterRouter(base[s]))
           asks == IF out.category = "unclear" THEN 1 ELSE 0
           p == Pending(r, types, next, "failing", asks, 0)
<1>1. /\ row \in Rows /\ row.status # "absent" /\ RunOk(cur[s])
      /\ base[s] \in WorkflowStates /\ cur[s] \in WorkflowStates
  BY DEF RouterNode, IInv, TypeOK, FreshInv, WritersInv, WriterOk, RunPCs
<1>2. st \in WorkflowStates /\ st.status = cur[s].status /\ (st.needs => asks = 1)
  BY <1>1, RouterUpdateType DEF RouterNode
<1>3. /\ next \in PCs \ RunPCs /\ next \in GraphNodes \cup {"idle"}
      /\ "failing" \in PCs /\ asks \in Nat
  BY DEF AfterNode, RouteAfterRouter, GraphNodes, PCs, RunPCs
<1>4. types \in Seq(EventTypes) /\ \A i \in DOMAIN types : types[i] # "routing_started"
  <2>1. CASE out.category = "business"
    <3>1. types = <<"request_routed">>
      BY <2>1
    <3> QED  BY <3>1, OneEvent DEF EventTypes
  <2>2. CASE out.category # "business"
    <3>1. types = <<>>
      BY <2>2
    <3> QED  BY <3>1
  <2> QED  BY <2>1, <2>2
<1>5. Open(s, p) /\ cur' = [cur EXCEPT ![s] = st]
  BY DEF RouterNode
<1>6. p = Pending(r, types, next, "failing", asks, 0) /\ r = Checkpoint(row, st)
  OBVIOUS
<1> HIDE DEF st, r, types, next, asks, p
<1>7. r \in Rows /\ r.status = st.status /\ r.json = st /\ IdentityOk(r)
  BY <1>1, <1>2, <1>6, CheckpointType
<1>8. /\ p \in Transactions /\ p.first = Len(log) + 1 /\ p.row = r /\ p.types = types
      /\ p.next = next /\ p.abort = "failing" /\ p.asks = asks /\ p.answers = 0
  BY <1>3, <1>4, <1>6, <1>7, PendingFields
<1>9. st.status \in Statuses \ {"created", "failed", "cancelled"}
  BY <1>1, <1>2 DEF RunOk, Terminal, WorkflowStates
<1>10. PendingOk(p)
  BY <1>2, <1>3, <1>4, <1>7, <1>8, <1>9
  DEF PendingOk, GraphNodes, Statuses, IInv, AnsweredAtMostOnce, TypeOK
<1>11. /\ UNCHANGED <<row, log, asked, answered>> /\ calls' \in Nat
       /\ base' \in [Sessions -> WorkflowStates] /\ seen' \in [Sessions -> Views]
  BY DEF RouterNode, IInv, TypeOK
<1> QED  BY <1>1, <1>2, <1>3, <1>5, <1>8, <1>10, <1>11, OpenStep

\* A Router that raises leaves the graph for the failure path.
LEMMA RouterRaisesInv ==
  ASSUME IInv, NEW s \in Sessions, RouterRaises(s)  PROVE IInv'
<1>1. row.status # "absent" /\ lock # s
  BY DEF RouterRaises, IInv, FreshInv, LockInv
<1>2. "failing" \in PCs \ (RunPCs \cup Statuses \cup {"commit"})
  BY DEF PCs, RunPCs, Statuses
<1> QED  BY <1>1, <1>2, IdleStep DEF RouterRaises, IInv, TypeOK

\* A capability gap is recorded after the Router's checkpoint.
LEMMA RouterGapInv ==
  ASSUME IInv, NEW s \in Sessions, RouterGap(s)  PROVE IInv'
<1> DEFINE out == [category |-> "gap", dept |-> None]
           st == RouterUpdate(base[s], cur[s], out)
           r == FailedCheckpoint(row, st)
           types == <<"capability_gap_detected", "request_failed">>
           next == AfterNode(RouteAfterRouter(base[s]))
           p == Pending(r, types, next, "failing", 0, 0)
<1>1. /\ row \in Rows /\ row.status # "absent"
      /\ base[s] \in WorkflowStates /\ cur[s] \in WorkflowStates
  BY DEF RouterGap, IInv, TypeOK, FreshInv
<1>2. out \in Outputs /\ ~RouterRejects(base[s], out)
  BY DEF Outputs, Categories, RouterRejects
<1>3. st \in WorkflowStates
  BY <1>1, <1>2, RouterUpdateType
<1>5. /\ next \in PCs \ RunPCs /\ next \in GraphNodes \cup {"idle"} /\ "failing" \in PCs
  BY DEF AfterNode, RouteAfterRouter, GraphNodes, PCs, RunPCs
<1>6. /\ types \in Seq(EventTypes) /\ \A i \in DOMAIN types : types[i] # "routing_started"
      /\ \E i \in DOMAIN types : types[i] = "request_failed"
  <2>1. types \in Seq(EventTypes) /\ DOMAIN types = 1..2
    BY DEF EventTypes
  <2>2. types[1] = "capability_gap_detected" /\ types[2] = "request_failed"
    OBVIOUS
  <2> QED  BY <2>1, <2>2
<1>7. Open(s, p) /\ cur' = [cur EXCEPT ![s] = st]
  BY DEF RouterGap
<1>8. /\ p = Pending(r, types, next, "failing", 0, 0)
      /\ r = FailedCheckpoint(row, st)
  OBVIOUS
<1> HIDE DEF out, st, r, types, next, p
<1>9. r \in Rows /\ r.status = "failed" /\ r.json.status = "failed" /\ IdentityOk(r) /\ r.failedAt
  BY <1>1, <1>3, <1>8, FailedCheckpointType
<1>10. /\ p \in Transactions /\ p.first = Len(log) + 1 /\ p.row = r /\ p.types = types
       /\ p.next = next /\ p.abort = "failing" /\ p.asks = 0 /\ p.answers = 0
  BY <1>5, <1>6, <1>8, <1>9, PendingFields
<1>11. PendingOk(p)
  BY <1>5, <1>6, <1>9, <1>10 DEF PendingOk, IInv, AnsweredAtMostOnce, TypeOK
<1>12. /\ UNCHANGED <<row, log, asked, answered>> /\ calls' \in Nat
       /\ base' \in [Sessions -> WorkflowStates] /\ seen' \in [Sessions -> Views]
  BY DEF RouterGap, IInv, TypeOK
<1> QED  BY <1>1, <1>3, <1>5, <1>7, <1>10, <1>11, <1>12, OpenStep

\* Recording a failure: refused, or the row fails with its explanation.
LEMMA FailureInv ==
  ASSUME IInv, NEW s \in Sessions, FailureRead(s) \/ FailureWrite(s)  PROVE IInv'
<1>1. CASE FailureRead(s)
  <2> DEFINE q == IF FailureAccepted(s) THEN "record_failure" ELSE "idle"
  <2>1. row.status # "absent" /\ lock # s
    BY <1>1 DEF FailureRead, IInv, FreshInv, LockInv
  <2>2. q \in PCs \ (RunPCs \cup Statuses \cup {"commit"})
    BY DEF PCs, RunPCs, Statuses
  <2>3. seen' \in [Sessions -> Views]
    BY <1>1 DEF FailureRead, FailureView, View, Views, Rows, IInv, TypeOK
  <2>4. pc' = [pc EXCEPT ![s] = q]
    BY <1>1 DEF FailureRead
  <2> HIDE DEF q
  <2> QED  BY <1>1, <2>1, <2>2, <2>3, <2>4, IdleStep DEF FailureRead, IInv, TypeOK
<1>2. CASE FailureWrite(s)
  <2> DEFINE r == FailedCheckpoint(row, cur[s])
             types == <<"request_failed">>
             p == Pending(r, types, "idle", "idle", 0, 0)
  <2>1. row \in Rows /\ row.status # "absent" /\ cur[s] \in WorkflowStates
    BY <1>2 DEF FailureWrite, IInv, TypeOK, FreshInv
  <2>3. types \in Seq(EventTypes) /\ DOMAIN types = {1} /\ types[1] = "request_failed"
    BY OneEvent DEF EventTypes
  <2>4. Open(s, p)
    BY <1>2 DEF FailureWrite
  <2>5. /\ p = Pending(r, types, "idle", "idle", 0, 0) /\ "idle" \in PCs
        /\ r = FailedCheckpoint(row, cur[s])
    BY DEF PCs
  <2> HIDE DEF r, types, p
  <2>6. r \in Rows /\ r.status = "failed" /\ r.json.status = "failed" /\ IdentityOk(r) /\ r.failedAt
    BY <2>1, <2>5, FailedCheckpointType
  <2>7. /\ p \in Transactions /\ p.first = Len(log) + 1 /\ p.row = r /\ p.types = types
        /\ p.next = "idle" /\ p.abort = "idle" /\ p.asks = 0 /\ p.answers = 0
    BY <2>3, <2>5, <2>6, PendingFields
  <2>8. PendingOk(p)
    BY <2>3, <2>6, <2>7 DEF PendingOk, IInv, AnsweredAtMostOnce, TypeOK
  <2>9. cur' = [cur EXCEPT ![s] = cur[s]] /\ p.next \notin RunPCs
    BY <1>2, <2>7 DEF FailureWrite, IInv, TypeOK, RunPCs
  <2>10. /\ UNCHANGED <<row, log, asked, answered>> /\ calls' \in Nat
         /\ base' \in [Sessions -> WorkflowStates] /\ seen' \in [Sessions -> Views]
    BY <1>2 DEF FailureWrite, IInv, TypeOK
  <2> QED  BY <2>1, <2>4, <2>7, <2>8, <2>9, <2>10, OpenStep
<1> QED  BY <1>1, <1>2

\* A rollback throws the open transaction away and expires what was read.
LEMMA RollbackInv ==
  ASSUME IInv, NEW s \in Sessions, Rollback(s) \/ Crash(s)  PROVE IInv'
<1> USE InitialTypes
<1>1. CASE Rollback(s)
  <2>1. lock = s /\ row.status # "absent" /\ tx[s].abort \in {"idle", "failing"}
    BY <1>1 DEF Rollback, IInv, LockInv, FreshInv, WritersInv, WriterOk, PendingOk
  <2>2. tx[s].abort \in PCs \ (RunPCs \cup Statuses \cup {"commit"})
    BY <2>1 DEF PCs, RunPCs, Statuses
  <2>3. seen' \in [Sessions -> Views] /\ tx' \in [Sessions -> Transactions]
    BY <1>1 DEF Rollback, Expired, Views, IInv, TypeOK
  <2> QED  BY <1>1, <2>1, <2>2, <2>3, IdleStep DEF Rollback, IInv, TypeOK
<1>2. CASE Crash(s)
  <2>1. "idle" \in PCs \ (RunPCs \cup Statuses \cup {"commit"})
    BY DEF PCs, RunPCs, Statuses
  <2>2. tx' \in [Sessions -> Transactions]
    BY <1>2 DEF Crash, IInv, TypeOK
  <2> QED  BY <1>2, <2>1, <2>2, IdleStep DEF Crash, IInv, TypeOK
<1> QED  BY <1>1, <1>2

\* The commit publishes what PendingOk describes, and no other transaction is
\* open on the row.
LEMMA CommitInv ==
  ASSUME IInv, NEW s \in Sessions, Commit(s)  PROVE IInv'
<1> USE InitialTypes
<1>1. /\ tx[s] \in Transactions /\ PendingOk(tx[s]) /\ log \in Seq(Events)
      /\ lock = s /\ \A i \in DOMAIN log : log[i].seq = i
      /\ \A t \in Sessions : t # s => pc[t] # "commit"
  BY DEF Commit, IInv, TypeOK, LockInv, WritersInv, WriterOk, TimelineGapFree
<1> DEFINE p == tx[s]
<1>2. /\ row' = p.row /\ asked' = asked + p.asks /\ answered' = answered + p.answers
      /\ log' = Appended(log, p.types, Len(log) + 1)
  BY <1>1 DEF Commit, PendingOk
<1>3. p.types \in Seq(EventTypes) /\ p.row \in Rows /\ p.next \in PCs /\ p.asks \in Nat /\ p.answers \in Nat
  BY <1>1 DEF Transactions
<1>4. /\ log' \in Seq(Events)
      /\ \A i \in DOMAIN log' : log'[i].seq = i
      /\ \A i \in DOMAIN log : i \in DOMAIN log' /\ log'[i] = log[i]
      /\ \A i \in DOMAIN log' \ DOMAIN log :
           i - Len(log) \in DOMAIN p.types /\ log'[i].type = p.types[i - Len(log)]
      /\ \A i \in DOMAIN p.types :
           i + Len(log) \in DOMAIN log' /\ log'[i + Len(log)].type = p.types[i]
  <2>1. PICK q : q = p.types
    OBVIOUS
  <2>2. PICK l : l = log
    OBVIOUS
  <2>3. PICK m : m = log'
    OBVIOUS
  <2>4. /\ l \in Seq(Events) /\ q \in Seq(EventTypes)
        /\ \A i \in DOMAIN l : l[i].seq = i
    BY <1>1, <1>3, <2>1, <2>2
  <2>5. m = Appended(l, q, Len(l) + 1)
    BY <1>2, <2>1, <2>2, <2>3
  <2>6. /\ m \in Seq(Events)
        /\ \A i \in DOMAIN m : m[i].seq = i
        /\ \A i \in DOMAIN l : i \in DOMAIN m /\ m[i] = l[i]
        /\ \A i \in DOMAIN m \ DOMAIN l :
             i - Len(l) \in DOMAIN q /\ m[i].type = q[i - Len(l)]
        /\ \A i \in DOMAIN q :
             i + Len(l) \in DOMAIN m \ DOMAIN l /\ m[i + Len(l)].type = q[i]
    BY ONLY <2>4, <2>5, AppendGapFree
  <2>7. \A i \in DOMAIN q :
          i + Len(l) \in DOMAIN m /\ m[i + Len(l)].type = q[i]
    BY ONLY <2>6
  <2> HIDE DEF p
  <2> QED  BY ONLY <2>1, <2>2, <2>3, <2>6, <2>7
<1>5. seen' \in [Sessions -> Views]
  BY <1>3 DEF Commit, View, Views, Rows, IInv, TypeOK
<1>6. TypeOK'
  <2>1. row' \in Rows /\ asked' \in Nat /\ answered' \in Nat
    BY <1>2, <1>3 DEF IInv, TypeOK
  <2>2. pc' \in [Sessions -> PCs] /\ tx' \in [Sessions -> Transactions]
    BY <1>3 DEF Commit, IInv, TypeOK
  <2>3. /\ lock' \in Sessions \cup {None} /\ base' \in [Sessions -> WorkflowStates]
        /\ cur' \in [Sessions -> WorkflowStates] /\ calls' \in Nat
    BY DEF Commit, IInv, TypeOK
  <2> QED  BY <1>4, <1>5, <2>1, <2>2, <2>3 DEF TypeOK
<1>7. \A t \in Sessions : pc'[t] = (IF t = s THEN p.next ELSE pc[t]) /\ cur'[t] = cur[t]
  BY DEF Commit, IInv, TypeOK
<1>8. p.next \in GraphNodes \cup {"idle"} /\ (p.next \in RunPCs => RunOk(cur[s]))
  BY <1>1 DEF PendingOk, Commit, IInv, WritersInv, WriterOk
<1>9. LockInv'
  BY <1>1, <1>7, <1>8, SessionsAssumption DEF LockInv, Commit, GraphNodes
<1>10. WritersInv'
  <2> SUFFICES ASSUME NEW t \in Sessions PROVE WriterOk(t)'
    BY DEF WritersInv
  <2>1. CASE t = s
    BY <1>7, <1>8, <2>1 DEF WriterOk, GraphNodes, Statuses, RunPCs
  <2>2. CASE t # s
    <3>1. pc'[t] = pc[t] /\ cur'[t] = cur[t] /\ pc[t] # "commit" /\ WriterOk(t)
      BY <1>1, <1>7, <2>2 DEF IInv, WritersInv
    <3> QED  BY <3>1 DEF WriterOk
  <2> QED  BY <2>1, <2>2
<1>11. FreshInv'
  BY <1>1, <1>2 DEF PendingOk, FreshInv
<1>12. StartedOnce'
  <2> SUFFICES ASSUME "routing" \notin TransitionTargets,
                      NEW i \in Occurrences("routing_started")', NEW j \in Occurrences("routing_started")'
               PROVE  i = j
    BY DEF StartedOnce
  <2>1. /\ i \in DOMAIN log' /\ log'[i].type = "routing_started"
        /\ j \in DOMAIN log' /\ log'[j].type = "routing_started"
    BY DEF Occurrences
  <2>2. \A k \in DOMAIN p.types : p.types[k] = "routing_started" =>
          /\ Len(p.types) = 1
          /\ \A m \in DOMAIN log : log[m].type # "routing_started"
    BY <1>1 DEF PendingOk, IInv, FreshInv, Occurrences
  <2>3. CASE i \in DOMAIN log /\ j \in DOMAIN log
    BY <1>4, <2>1, <2>3 DEF IInv, StartedOnce, Occurrences
  <2>4. CASE i \notin DOMAIN log \/ j \notin DOMAIN log
    <3>1. i \notin DOMAIN log /\ j \notin DOMAIN log /\ Len(p.types) = 1
      BY <1>4, <2>1, <2>2, <2>4
    <3>2. i - Len(log) \in 1..1 /\ j - Len(log) \in 1..1
      BY <1>3, <1>4, <2>1, <3>1
    <3>3. i \in Int /\ j \in Int /\ Len(log) \in Int
      BY <1>1, <1>4, <2>1
    <3> QED  BY <3>2, <3>3
  <2> QED  BY <2>3, <2>4
<1>13. DocumentFollowsRow' /\ AnsweredAtMostOnce'
  <2>1. DocumentFollowsRow'
    BY <1>1, <1>2 DEF PendingOk, DocumentFollowsRow, IdentityOk
  <2>2. AnsweredAtMostOnce'
    BY <1>1, <1>2 DEF PendingOk, AnsweredAtMostOnce
  <2> QED  BY <2>1, <2>2
<1>14. EndIsExplained'
  <2>1. ASSUME NEW type, NEW k \in DOMAIN p.types, p.types[k] = type
        PROVE  Occurrences(type)' # {}
    BY <1>4, <2>1 DEF Occurrences
  <2>2. row'.status = "failed" => row'.failedAt /\ Occurrences("request_failed")' # {}
    BY <1>1, <1>2, <2>1 DEF PendingOk
  <2>3. row'.status = "cancelled" => row'.cancelledAt /\ Occurrences("request_cancelled")' # {}
    BY <1>1, <1>2, <2>1 DEF PendingOk
  <2> QED  BY <2>2, <2>3 DEF EndIsExplained
<1> QED
  BY <1>4, <1>6, <1>9, <1>10, <1>11, <1>12, <1>13, <1>14 DEF IInv, TimelineGapFree

\* A step that changes nothing.
LEMMA StutterInv == IInv /\ UNCHANGED vars => IInv'
<1> SUFFICES ASSUME IInv, UNCHANGED vars PROVE IInv'
  OBVIOUS
<1> USE DEF vars, IInv
<1>1. TypeOK' /\ LockInv' /\ FreshInv'
  BY DEF TypeOK, LockInv, FreshInv, Occurrences
<1>2. WritersInv'
  BY DEF WritersInv, WriterOk, PendingOk
<1>3. TimelineGapFree' /\ StartedOnce' /\ DocumentFollowsRow'
  BY DEF TimelineGapFree, StartedOnce, DocumentFollowsRow, Occurrences
<1>4. AnsweredAtMostOnce' /\ EndIsExplained'
  BY DEF AnsweredAtMostOnce, EndIsExplained, Occurrences
<1> QED  BY <1>1, <1>2, <1>3, <1>4

-----------------------------------------------------------------------------
(* The theorems.                                                           *)

\* The invariant is inductive.
THEOREM Inductive == Spec => []IInv
<1>1. IInv /\ [Next]_vars => IInv'
  <2> SUFFICES ASSUME IInv, Next PROVE IInv'
    BY StutterInv
  <2>1. PICK s \in Sessions : Call(s) \/ Handler(s) \/ Rollback(s) \/ Crash(s)
    BY DEF Next
  <2>2. CASE Call(s)
    BY <2>2, CreateInv, StartInv, ResumeInv, CancelInv, TransitionInv DEF Call
  <2>3. CASE Handler(s)
    BY <2>3, CancelInv, TransitionInv, InitializeNodeInv, RouterNodeInv, RouterGapInv,
       RouterRaisesInv, FailureInv, CommitInv DEF Handler
  <2>4. CASE Rollback(s) \/ Crash(s)
    BY <2>4, RollbackInv
  <2> QED  BY <2>1, <2>2, <2>3, <2>4
<1> QED  BY InitInv, <1>1, PTL DEF Spec

\* Every variable keeps its type; the clarification count stays within its limit.
THEOREM TypeCorrect == Spec => []TypeOK
BY Inductive, PTL DEF IInv

\* However many sessions append to it, the timeline is numbered without gaps
\* or duplicates.
THEOREM TimelineIsGapFree == Spec => []TimelineGapFree
BY Inductive, PTL DEF IInv

\* However many starts race, one wins.
THEOREM RequestStartedOnce == Spec => []StartedOnce
BY Inductive, PTL DEF IInv

\* The document follows the row until the request is cancelled.
THEOREM DocumentAgrees == Spec => []DocumentFollowsRow
BY Inductive, PTL DEF IInv

\* No clarification question is answered twice.
THEOREM QuestionsAnsweredOnce == Spec => []AnsweredAtMostOnce
BY Inductive, PTL DEF IInv

\* A failed or cancelled request is explained by its timeline.
THEOREM EndsAreExplained == Spec => []EndIsExplained
BY Inductive, PTL DEF IInv

\* With no handler in flight, a terminal request does not change any more.
THEOREM TerminalWhenQuiet == Spec => QuietTerminalStays
<1>1. [Next]_vars => (Quiet /\ row.status \in Terminal => row' = row /\ Quiet')
  <2> SUFFICES ASSUME [Next]_vars, Quiet, row.status \in Terminal
               PROVE  row' = row /\ pc' = pc
    BY DEF Quiet
  <2>1. CASE UNCHANGED vars
    BY <2>1 DEF vars
  <2>2. CASE Next
    <3>1. PICK s \in Sessions : Call(s) \/ Handler(s) \/ Rollback(s) \/ Crash(s)
      BY <2>2 DEF Next
    <3>2. pc[s] = "idle" /\ row.status \notin {"absent", "created"}
      BY DEF Quiet, Terminal
    <3>3. ~Call(s)
      <4>1. \A target \in TransitionTargets : ~TransitionRead(s, target)
        BY DEF TransitionRead, Allowed, Terminal, Waiting
      <4> QED
        BY <3>2, <4>1 DEF Call, Create, Start, MayStart, Resume, MayResume, CancelRead, MayCancel
    <3>4. ~Handler(s)
      BY <3>2 DEF Handler, CancelWrite, TransitionWrite, TransitionRefused,
                  InitializeNode, RouterNode, RouterGap, RouterRaises,
                  FailureRead, FailureWrite, Commit, Statuses
    <3>5. ~Rollback(s) /\ ~Crash(s)
      BY <3>2 DEF Rollback, Crash
    <3> QED  BY <3>1, <3>3, <3>4, <3>5
  <2> QED  BY <2>1, <2>2
<1> QED  BY <1>1, PTL DEF Spec, QuietTerminalStays

-----------------------------------------------------------------------------
(* One handler at a time implements the request's promise.                 *)

\* What may become of a row that is watched: nothing, a transition, a failure, or
\* the routing to its department.
Promised(r, q) ==
  \/ q.status = r.status /\ q.owner = r.owner
  \/ q.status \in Allowed(r.status) /\ q.owner = r.owner
  \/ r.status \notin Terminal \cup {"absent"} /\ q.status = "failed" /\ q.owner = r.owner
  \/ /\ r.status = "routing" /\ r.owner = None
     /\ q.status = r.status /\ q.owner \in Departments

\* A run carries the row it started from.
Carries(s, r) ==
  /\ cur[s].status = r.status /\ cur[s].owner = r.owner
  /\ base[s].owner = r.owner

\* A state that names no department is that of a row without an owner.
Owned(s) == cur[s].owner = None => row.owner = None

\* What a handler relies on when no other writes between its steps.
AloneOk(s) ==
  /\ pc[s] \in Statuses => pc[s] \in Allowed(row.status)
  /\ pc[s] = "cancel" => MayCancel(row)
  /\ pc[s] \in RunPCs => Carries(s, row) /\ seen[s] = View(row)
  /\ pc[s] = "failing" => seen[s] \in {Expired, View(row)} /\ Owned(s)
  /\ pc[s] = "record_failure" =>
       row.status \notin Terminal \cup {"absent"} /\ cur[s].owner = row.owner
  /\ pc[s] = "commit" =>
       /\ Promised(row, tx[s].row) /\ ConstraintOk(tx[s].row)
       /\ tx[s].next \in RunPCs => Carries(s, tx[s].row)
       /\ tx[s].abort = "failing" => Owned(s)

AloneInv ==
  /\ \A s \in Sessions : AloneOk(s)
  /\ IF row.status = "absent" THEN row.owner = None ELSE ConstraintOk(row)

\* Who moves between places keeps what he relies on there; the row, the states of
\* the run and the open transaction stay.
LEMMA MovesKeep ==
  ASSUME IInv, AloneInv, NEW s \in Sessions, \A t \in Sessions : t = s, row' = row,
         AloneOk(s)'
  PROVE  AloneInv'
<1>1. \A t \in Sessions : AloneOk(t)'
  <2> SUFFICES ASSUME NEW t \in Sessions PROVE AloneOk(t)'
    OBVIOUS
  <2>1. t = s
    OBVIOUS
  <2> QED  BY <2>1 DEF AloneOk, Carries, Owned, MayCancel
<1> QED  BY <1>1 DEF AloneInv, ConstraintOk

\* Opening a transaction keeps it, when what it would publish is promised.
LEMMA OpensPromised ==
  ASSUME IInv, AloneInv, NEW s \in Sessions, \A t \in Sessions : t = s, row' = row,
         NEW p \in Transactions, Open(s, p), Promised(row, p.row), ConstraintOk(p.row),
         p.next \in RunPCs => Carries(s, p.row)',
         p.abort = "failing" => Owned(s)'
  PROVE  AloneInv'
<1>1. pc'[s] = "commit" /\ tx'[s] = p
  BY DEF Open, IInv, TypeOK
<1>2. AloneOk(s)'
  <2>1. p.next \in RunPCs => /\ cur'[s].status = p.row.status /\ cur'[s].owner = p.row.owner
                             /\ base'[s].owner = p.row.owner
    BY DEF Carries
  <2>2. p.abort = "failing" => (cur'[s].owner = None => row'.owner = None)
    BY DEF Owned
  <2>3. Promised(row', p.row)
    OBVIOUS
  <2> QED
    BY <1>1, <2>1, <2>2, <2>3 DEF AloneOk, Carries, Owned, RunPCs, Statuses, Promised, ConstraintOk
<1> QED  BY <1>2, MovesKeep

\* The handler is nowhere, or nowhere that matters.
LEMMA IdlesPromised ==
  ASSUME IInv, AloneInv, NEW s \in Sessions, \A t \in Sessions : t = s, row' = row,
         pc'[s] = "idle"
  PROVE  AloneInv'
<1>1. AloneOk(s)'
  BY DEF AloneOk, RunPCs, Statuses
<1> QED  BY <1>1, MovesKeep

\* What the invariants say of the row somebody works on.
LEMMA WorkedOn ==
  ASSUME IInv, AloneInv, NEW s \in Sessions, pc[s] # "idle"
  PROVE  /\ row.status # "absent" /\ row.status \in Statuses
         /\ ConstraintOk(row) /\ AloneOk(s) /\ WriterOk(s) /\ row \in Rows
<1>1. row.status # "absent" /\ row \in Rows
  BY DEF IInv, FreshInv, TypeOK
<1>2. row.status \in Statuses
  BY <1>1 DEF Rows
<1> QED  BY <1>1, <1>2 DEF IInv, AloneInv, WritersInv

\* What a transaction would do, as far as a watcher is concerned.
LEMMA PendingShape ==
  ASSUME IInv, NEW r \in Rows, NEW types \in Seq(EventTypes),
         NEW next \in {"idle", "initialize", "router", "completion"},
         NEW abort \in {"idle", "failing"}, NEW asks \in Nat, NEW answers \in Nat,
         NEW p, p = Pending(r, types, next, abort, asks, answers)
  PROVE  p \in Transactions /\ p.row = r /\ p.next = next /\ p.abort = abort
<1>1. next \in PCs /\ abort \in PCs
  BY DEF PCs
<1> QED  BY <1>1, PendingFields

LEMMA CreateAlone ==
  ASSUME IInv, AloneInv, NEW s \in Sessions, \A t \in Sessions : t = s, Create(s)
  PROVE  AloneInv'
<1>1. row' = [NoRow EXCEPT !.status = "created"] /\ pc[s] = "idle" /\ pc' = pc
  BY DEF Create, NewCall
<1>2. row'.status = "created"
  BY <1>1 DEF NoRow
<1>3. ConstraintOk(row')
  BY <1>2 DEF ConstraintOk, NeedsOwner
<1>4. \A t \in Sessions : pc'[t] = "idle"
  BY <1>1
<1>5. \A t \in Sessions : AloneOk(t)'
  BY <1>4 DEF AloneOk, RunPCs, Statuses
<1>6. IF row'.status = "absent" THEN row'.owner = None ELSE ConstraintOk(row')
  BY <1>2, <1>3
<1> QED
  BY <1>5, <1>6 DEF AloneInv, ConstraintOk

LEMMA CancelAlone ==
  ASSUME IInv, AloneInv, NEW s \in Sessions, \A t \in Sessions : t = s,
         CancelRead(s) \/ CancelWrite(s)
  PROVE  AloneInv'
<1>1. CASE CancelRead(s)
  <2>1. pc'[s] = "cancel" /\ row' = row /\ MayCancel(row)
    BY <1>1 DEF CancelRead, IInv, TypeOK
  <2>2. AloneOk(s)'
    BY <2>1 DEF AloneOk, RunPCs, Statuses, MayCancel
  <2> QED  BY <2>1, <2>2, MovesKeep
<1>2. CASE CancelWrite(s)
  <2>1. PICK r, types, p :
          /\ r = [row EXCEPT !.status = "cancelled", !.cancelledAt = TRUE]
          /\ types = <<"request_cancelled">>
          /\ p = Pending(r, types, "idle", "idle", 0, 0)
    OBVIOUS
  <2>2. Open(s, p) /\ pc[s] = "cancel" /\ row' = row
    BY <1>2, <2>1 DEF CancelWrite
  <2>3. row \in Rows /\ row.status \in Statuses /\ MayCancel(row)
    BY <2>2, WorkedOn DEF AloneOk
  <2>4. r \in Rows /\ r.status = "cancelled" /\ r.owner = row.owner
    BY <2>1, <2>3 DEF Rows, Statuses
  <2>5. p \in Transactions /\ p.row = r /\ p.next = "idle" /\ p.abort = "idle"
    <3>1. types \in Seq(EventTypes)
      BY <2>1, OneEvent DEF EventTypes
    <3>2. p = Pending(r, types, "idle", "idle", 0, 0)
      BY <2>1
    <3> QED  BY <2>4, <3>1, <3>2, PendingShape
  <2>6. "cancelled" \in Allowed(row.status)
    BY <2>3 DEF MayCancel, Statuses, Terminal, Allowed, Waiting
  <2>7. Promised(row, r) /\ ConstraintOk(r)
    BY <2>4, <2>6 DEF Promised, ConstraintOk, NeedsOwner
  <2> QED  BY <2>2, <2>5, <2>7, OpensPromised DEF RunPCs
<1> QED  BY <1>1, <1>2

LEMMA TransitionAlone ==
  ASSUME IInv, AloneInv, NEW s \in Sessions, \A t \in Sessions : t = s,
         \/ \E target \in TransitionTargets : TransitionRead(s, target)
         \/ TransitionWrite(s) \/ TransitionRefused(s)
  PROVE  AloneInv'
<1>1. ASSUME NEW target \in TransitionTargets, TransitionRead(s, target) PROVE AloneInv'
  <2>1. pc'[s] = target /\ row' = row /\ target \in Allowed(row.status) \ {"cancelled"}
    BY <1>1 DEF TransitionRead, IInv, TypeOK
  <2>2. target \in Statuses
    BY <2>1 DEF Allowed, Statuses, Waiting
  <2>3. AloneOk(s)'
    BY <2>1, <2>2 DEF AloneOk, RunPCs, Statuses
  <2> QED  BY <2>1, <2>3, MovesKeep
<1>2. CASE TransitionWrite(s)
  <2>1. PICK target, r, types, p :
          /\ target = pc[s]
          /\ r = [row EXCEPT !.status = target]
          /\ types = <<StatusEvent(r.status, target)>>
          /\ p = Pending(r, types, "idle", "idle", 0, 0)
    OBVIOUS
  <2>2. Open(s, p) /\ target \in Statuses /\ ConstraintOk(r) /\ row' = row
    BY <1>2, <2>1 DEF TransitionWrite
  <2>3. row \in Rows /\ target \in Allowed(row.status)
    BY <2>1, <2>2, WorkedOn DEF AloneOk, Statuses
  <2>4. r \in Rows /\ r.status = target /\ r.owner = row.owner
    BY <2>1, <2>2, <2>3 DEF Rows
  <2>5. types \in Seq(EventTypes)
    <3>1. StatusEvent(r.status, target) \in EventTypes
      BY DEF StatusEvent, EventTypes
    <3> QED  BY <2>1, <3>1
  <2>6. p \in Transactions /\ p.row = r /\ p.next = "idle" /\ p.abort = "idle"
    <3>1. p = Pending(r, types, "idle", "idle", 0, 0)
      BY <2>1
    <3> QED  BY <2>4, <2>5, <3>1, PendingShape
  <2>7. Promised(row, r)
    BY <2>3, <2>4 DEF Promised
  <2> QED  BY <2>2, <2>6, <2>7, OpensPromised DEF RunPCs
<1>3. CASE TransitionRefused(s)
  <2>1. pc'[s] = "idle" /\ row' = row
    BY <1>3 DEF TransitionRefused, IInv, TypeOK
  <2> QED  BY <2>1, IdlesPromised
<1> QED  BY <1>1, <1>2, <1>3

LEMMA StartAlone ==
  ASSUME IInv, AloneInv, NEW s \in Sessions, \A t \in Sessions : t = s, Start(s)
  PROVE  AloneInv'
<1>1. PICK st, r, types, p :
        /\ st = [row.json EXCEPT !.status = "routing",
                                 !.steps = row.json.steps \cup {"started"}]
        /\ r = Checkpoint(row, st)
        /\ types = <<"routing_started">>
        /\ p = Pending(r, types, "initialize", "idle", 0, 0)
  OBVIOUS
<1>2. /\ MayStart(row) /\ Open(s, p) /\ row' = row
      /\ base' = [base EXCEPT ![s] = st] /\ cur' = [cur EXCEPT ![s] = st]
  BY <1>1 DEF Start
<1>3. row \in Rows /\ row.json \in WorkflowStates
  BY DEF IInv, TypeOK, Rows
<1>4. st \in WorkflowStates /\ st.status = "routing" /\ st.owner = row.json.owner
  BY <1>1, <1>3 DEF WorkflowStates, Statuses, Steps
<1>5. r \in Rows /\ r.status = "routing" /\ r.owner = row.owner /\ row.status = "created"
  <2>1. r = Checkpoint(row, st)
    BY <1>1
  <2>2. r \in Rows /\ r.status = st.status /\ r.json = st /\ IdentityOk(r)
    BY <1>3, <1>4, <2>1, CheckpointType
  <2> QED  BY <1>2, <1>4, <2>2 DEF IdentityOk, MayStart
<1>6. p \in Transactions /\ p.row = r /\ p.next = "initialize" /\ p.abort = "idle"
  <2>1. types \in Seq(EventTypes)
    BY <1>1, OneEvent DEF EventTypes
  <2>2. p = Pending(r, types, "initialize", "idle", 0, 0)
    BY <1>1
  <2> QED  BY <1>5, <2>1, <2>2, PendingShape
<1>7. Promised(row, r) /\ ConstraintOk(r)
  <2>1. "routing" \in Allowed(row.status)
    BY <1>5 DEF Allowed, Waiting
  <2> QED  BY <1>5, <2>1 DEF Promised, ConstraintOk, NeedsOwner
<1>8. Carries(s, r)'
  <2>1. cur'[s] = st /\ base'[s] = st
    BY <1>2 DEF IInv, TypeOK
  <2>2. st.status = r.status /\ st.owner = r.owner
    BY <1>2, <1>4, <1>5 DEF MayStart, IdentityOk
  <2> QED  BY <2>1, <2>2 DEF Carries
<1> QED  BY <1>2, <1>6, <1>7, <1>8, OpensPromised

LEMMA ResumeAlone ==
  ASSUME IInv, AloneInv, NEW s \in Sessions, \A t \in Sessions : t = s, Resume(s)
  PROVE  AloneInv'
<1>1. PICK waiting, st, r, types, answers, p :
        /\ waiting = row.json.needs
        /\ st = Answered(row.json)
        /\ r = IF waiting THEN Checkpoint(row, st) ELSE row
        /\ answers = IF waiting THEN 1 ELSE 0
        /\ types = <<"request_resumed">>
        /\ p = Pending(r, types, "initialize", "idle", 0, answers)
  OBVIOUS
<1>2. /\ MayResume(row) /\ Open(s, p) /\ row' = row
      /\ base' = [base EXCEPT ![s] = st] /\ cur' = [cur EXCEPT ![s] = st]
  BY <1>1 DEF Resume
<1>3. row \in Rows /\ row.json \in WorkflowStates
  BY DEF IInv, TypeOK, Rows
<1>4. st \in WorkflowStates /\ st.status = row.json.status /\ st.owner = row.json.owner
  BY <1>1, <1>3 DEF WorkflowStates, Answered
<1>5. r \in Rows /\ r.status = row.status /\ r.owner = row.owner
  <2>1. CASE waiting
    <3>1. r = Checkpoint(row, st)
      BY <1>1, <2>1
    <3>2. r \in Rows /\ r.status = st.status /\ r.json = st /\ IdentityOk(r)
      BY <1>3, <1>4, <3>1, CheckpointType
    <3> QED  BY <1>2, <1>4, <3>2 DEF IdentityOk, MayResume
  <2>2. CASE ~waiting
    BY <1>1, <1>3, <2>2
  <2> QED  BY <2>1, <2>2
<1>6. answers \in Nat
  BY <1>1
<1>7. p \in Transactions /\ p.row = r /\ p.next = "initialize" /\ p.abort = "idle"
  <2>1. types \in Seq(EventTypes)
    BY <1>1, OneEvent DEF EventTypes
  <2>2. p = Pending(r, types, "initialize", "idle", 0, answers)
    BY <1>1
  <2> QED  BY <1>5, <1>6, <2>1, <2>2, PendingShape
<1>8. Promised(row, r) /\ ConstraintOk(r)
  <2>1. ConstraintOk(row)
    BY <1>2 DEF AloneInv, MayResume
  <2> QED  BY <1>5, <2>1 DEF Promised, ConstraintOk
<1>9. Carries(s, r)'
  <2>1. cur'[s] = st /\ base'[s] = st
    BY <1>2 DEF IInv, TypeOK
  <2>2. st.status = r.status /\ st.owner = r.owner
    BY <1>2, <1>4, <1>5 DEF MayResume, IdentityOk
  <2> QED  BY <2>1, <2>2 DEF Carries
<1> QED  BY <1>2, <1>7, <1>8, <1>9, OpensPromised

\* A checkpoint of the state a run carries.
LEMMA InitializeAlone ==
  ASSUME IInv, AloneInv, NEW s \in Sessions, \A t \in Sessions : t = s, InitializeNode(s)
  PROVE  AloneInv'
<1>1. PICK st, r, next, p :
        /\ st = IF "initialized" \in base[s].steps THEN cur[s]
                ELSE [cur[s] EXCEPT !.steps = base[s].steps \cup {"initialized"}]
        /\ r = Checkpoint(row, st)
        /\ next = AfterNode(RouteInitialize(base[s]))
        /\ p = Pending(r, <<>>, next, "failing", 0, 0)
  OBVIOUS
<1>2. pc[s] = "initialize" /\ Open(s, p) /\ row' = row /\ base' = base
      /\ cur' = [cur EXCEPT ![s] = st]
  BY <1>1 DEF InitializeNode
<1>3. /\ row \in Rows /\ cur[s] \in WorkflowStates /\ base[s] \in WorkflowStates
      /\ Carries(s, row) /\ ConstraintOk(row)
  BY <1>2, WorkedOn DEF IInv, TypeOK, AloneOk, RunPCs
<1>4. st \in WorkflowStates /\ st.status = row.status /\ st.owner = row.owner
  BY <1>1, <1>3 DEF WorkflowStates, Steps, Carries
<1>5. r \in Rows /\ r.status = row.status /\ r.owner = row.owner
  <2>1. r = Checkpoint(row, st)
    BY <1>1
  <2>2. r \in Rows /\ r.status = st.status /\ r.json = st /\ IdentityOk(r)
    BY <1>3, <1>4, <2>1, CheckpointType
  <2> QED  BY <1>4, <2>2 DEF IdentityOk
<1>6. next \in {"idle", "initialize", "router", "completion"}
  BY <1>1 DEF AfterNode, GraphNodes
<1>7. p \in Transactions /\ p.row = r
  <2>1. PICK types : types = <<>>
    OBVIOUS
  <2>2. types \in Seq(EventTypes)
    BY <2>1
  <2>3. p = Pending(r, types, next, "failing", 0, 0)
    BY <1>1, <2>1
  <2> QED  BY <1>5, <1>6, <2>2, <2>3, PendingShape
<1>8. Promised(row, r) /\ ConstraintOk(r)
  BY <1>3, <1>5 DEF Promised, ConstraintOk
<1>9. Carries(s, r)' /\ Owned(s)'
  <2>1. cur'[s] = st
    BY <1>2 DEF IInv, TypeOK
  <2> QED  BY <1>2, <1>3, <1>4, <1>5, <2>1 DEF Carries, Owned
<1> QED  BY <1>2, <1>7, <1>8, <1>9, OpensPromised

\* What the Router makes of the owner: it names the department of a request that has
\* none, or confirms it.
LEMMA RouterOwner ==
  ASSUME NEW from \in WorkflowStates, NEW to \in WorkflowStates, NEW out \in Outputs,
         ~RouterRejects(from, out), from.owner = to.owner
  PROVE  \/ RouterUpdate(from, to, out).owner = to.owner
         \/ to.owner = None /\ RouterUpdate(from, to, out).owner \in Departments
<1>1. CASE out.category = "business"
  <2>1. out.dept \in Departments
    BY <1>1 DEF Outputs, Categories
  <2>2. RouterUpdate(from, to, out).owner = out.dept
    BY <1>1 DEF RouterUpdate, WorkflowStates
  <2> QED  BY <1>1, <2>1, <2>2 DEF RouterRejects
<1>2. CASE out.category # "business"
  BY <1>2 DEF RouterUpdate, WorkflowStates
<1> QED  BY <1>1, <1>2

\* After the Router's node a run goes nowhere in the graph that writes.
LEMMA RouterIsLast ==
  ASSUME NEW st, NEW next, next = AfterNode(RouteAfterRouter(st))
  PROVE  next \in {"idle", "completion"}
BY DEF AfterNode, RouteAfterRouter, GraphNodes

\* A request whose run has no owner yet is being routed.
LEMMA OwnerlessIsRouting ==
  ASSUME NEW r, ConstraintOk(r), r.owner = None, NEW st, RunOk(st), st.status = r.status
  PROVE  r.status = "routing"
BY DEF ConstraintOk, NeedsOwner, RunOk, Terminal

LEMMA RouterAlone ==
  ASSUME IInv, AloneInv, NEW s \in Sessions, \A t \in Sessions : t = s,
         NEW out \in Outputs, RouterNode(s, out)
  PROVE  AloneInv'
<1>1. PICK st, r, types, next, asks, p :
        /\ st = RouterUpdate(base[s], cur[s], out)
        /\ r = Checkpoint(row, st)
        /\ types = IF out.category = "business" THEN <<"request_routed">> ELSE <<>>
        /\ next = AfterNode(RouteAfterRouter(base[s]))
        /\ asks = IF out.category = "unclear" THEN 1 ELSE 0
        /\ p = Pending(r, types, next, "failing", asks, 0)
  OBVIOUS
<1>2. /\ pc[s] = "router" /\ Open(s, p) /\ row' = row /\ base' = base
      /\ ~RouterRejects(base[s], out)
      /\ cur' = [cur EXCEPT ![s] = st]
  BY <1>1 DEF RouterNode
<1>3. /\ row \in Rows /\ cur[s] \in WorkflowStates /\ base[s] \in WorkflowStates
      /\ Carries(s, row) /\ ConstraintOk(row) /\ RunOk(cur[s])
  BY <1>2, WorkedOn DEF IInv, TypeOK, AloneOk, WriterOk, RunPCs
<1>4. st \in WorkflowStates /\ st.status = row.status
  BY <1>1, <1>2, <1>3, RouterUpdateType DEF Carries
<1>5. \/ st.owner = row.owner
      \/ row.owner = None /\ st.owner \in Departments
  BY <1>1, <1>2, <1>3, RouterOwner DEF Carries
<1>6. r \in Rows /\ r.status = row.status /\ r.owner = st.owner
  <2>1. r = Checkpoint(row, st)
    BY <1>1
  <2>2. r \in Rows /\ r.status = st.status /\ r.json = st /\ IdentityOk(r)
    BY <1>3, <1>4, <2>1, CheckpointType
  <2> QED  BY <1>4, <2>2 DEF IdentityOk
<1>7. row.owner = None => row.status = "routing"
  BY <1>3, OwnerlessIsRouting DEF Carries
<1>8. types \in Seq(EventTypes) /\ asks \in Nat
  <2>1. <<"request_routed">> \in Seq(EventTypes) /\ <<>> \in Seq(EventTypes)
    BY OneEvent DEF EventTypes
  <2>2. types = <<"request_routed">> \/ types = <<>>
    BY <1>1
  <2>3. asks = 0 \/ asks = 1
    BY <1>1
  <2>4. types \in Seq(EventTypes)
    BY <2>1, <2>2, Zenon
  <2>5. asks \in Nat
    BY <2>3
  <2> QED  BY <2>4, <2>5
<1>9. next \in {"idle", "completion"}
  BY <1>1, RouterIsLast
<1>10. p \in Transactions /\ p.row = r /\ p.next = next
  <2>1. p = Pending(r, types, next, "failing", asks, 0)
    BY <1>1
  <2> QED  BY <1>6, <1>8, <1>9, <2>1, PendingShape
<1>11. Promised(row, r)
  BY <1>5, <1>6, <1>7 DEF Promised
<1>12. ConstraintOk(r)
  BY <1>3, <1>5, <1>6, DepartmentsAssumption DEF ConstraintOk
<1>13. Owned(s)'
  <2>1. cur'[s] = st
    BY <1>2 DEF IInv, TypeOK
  <2> QED  BY <1>2, <1>5, <2>1, DepartmentsAssumption DEF Owned
<1>14. p.next \notin RunPCs
  BY <1>9, <1>10 DEF RunPCs
<1> QED  BY <1>2, <1>10, <1>11, <1>12, <1>13, <1>14, OpensPromised

LEMMA RouterGapAlone ==
  ASSUME IInv, AloneInv, NEW s \in Sessions, \A t \in Sessions : t = s, RouterGap(s)
  PROVE  AloneInv'
<1>1. PICK out, st, r, types, next, p :
        /\ out = [category |-> "gap", dept |-> None]
        /\ st = RouterUpdate(base[s], cur[s], out)
        /\ r = FailedCheckpoint(row, st)
        /\ types = <<"capability_gap_detected", "request_failed">>
        /\ next = AfterNode(RouteAfterRouter(base[s]))
        /\ p = Pending(r, types, next, "failing", 0, 0)
  OBVIOUS
<1>2. /\ pc[s] = "router" /\ Open(s, p) /\ row' = row /\ base' = base
      /\ cur' = [cur EXCEPT ![s] = st]
  BY <1>1 DEF RouterGap
<1>3. /\ row \in Rows /\ cur[s] \in WorkflowStates /\ base[s] \in WorkflowStates
      /\ Carries(s, row) /\ RunOk(cur[s]) /\ row.status # "absent"
  BY <1>2, WorkedOn DEF IInv, TypeOK, AloneOk, WriterOk, RunPCs
<1>4. out \in Outputs /\ ~RouterRejects(base[s], out)
  BY <1>1 DEF Outputs, Categories, RouterRejects
<1>5. st \in WorkflowStates
  BY <1>1, <1>3, <1>4, RouterUpdateType
<1>6. st.owner = row.owner
  BY <1>1, <1>3 DEF RouterUpdate, WorkflowStates, Carries
<1>7. r \in Rows /\ r.status = "failed" /\ r.owner = row.owner
  <2>1. r \in Rows /\ r.status = "failed"
    BY <1>1, <1>3, <1>5, FailedCheckpointType
  <2>2. r.owner = st.owner
    BY <1>1, <1>3, <1>5 DEF FailedCheckpoint, Checkpoint, Rows, WorkflowStates
  <2> QED  BY <1>6, <2>1, <2>2
<1>8. types \in Seq(EventTypes)
  BY <1>1 DEF EventTypes
<1>9. next \in {"idle", "completion"}
  BY <1>1, RouterIsLast
<1>10. p \in Transactions /\ p.row = r /\ p.next = next
  <2>1. p = Pending(r, types, next, "failing", 0, 0)
    BY <1>1
  <2> QED  BY <1>7, <1>8, <1>9, <2>1, PendingShape
<1>11. Promised(row, r) /\ ConstraintOk(r)
  BY <1>3, <1>7 DEF Promised, ConstraintOk, NeedsOwner, RunOk, Carries
<1>12. Owned(s)'
  <2>1. cur'[s] = st
    BY <1>2 DEF IInv, TypeOK
  <2> QED  BY <1>2, <1>6, <2>1 DEF Owned
<1>13. p.next \notin RunPCs
  BY <1>9, <1>10 DEF RunPCs
<1> QED  BY <1>2, <1>10, <1>11, <1>12, <1>13, OpensPromised

LEMMA RouterRaisesAlone ==
  ASSUME IInv, AloneInv, NEW s \in Sessions, \A t \in Sessions : t = s, RouterRaises(s)
  PROVE  AloneInv'
<1>1. /\ pc[s] = "router" /\ pc'[s] = "failing"
      /\ UNCHANGED <<row, base, cur, seen>>
  BY DEF RouterRaises, IInv, TypeOK
<1>2. Carries(s, row) /\ seen[s] = View(row)
  BY <1>1, WorkedOn DEF AloneOk, RunPCs
<1>3. AloneOk(s)'
  BY <1>1, <1>2 DEF AloneOk, RunPCs, Statuses, Carries, Owned, View
<1> QED  BY <1>1, <1>3, MovesKeep

LEMMA FailureAlone ==
  ASSUME IInv, AloneInv, NEW s \in Sessions, \A t \in Sessions : t = s,
         FailureRead(s) \/ FailureWrite(s)
  PROVE  AloneInv'
<1>1. CASE FailureRead(s)
  <2>1. /\ pc[s] = "failing" /\ UNCHANGED <<row, base, cur>>
        /\ pc'[s] = IF FailureAccepted(s) THEN "record_failure" ELSE "idle"
    BY <1>1 DEF FailureRead, IInv, TypeOK
  <2>2. /\ row.status # "absent" /\ Owned(s)
        /\ seen[s] = Expired \/ seen[s] = View(row)
    BY <2>1, WorkedOn DEF AloneOk
  <2>3. CASE FailureAccepted(s)
    <3>1. FailureView(s).status = row.status /\ FailureView(s).owner = row.owner
      BY <2>2 DEF FailureView, View
    <3>2. row.status \notin Terminal \cup {"absent"} /\ cur[s].owner = row.owner
      BY <2>2, <2>3, <3>1 DEF FailureAccepted, Owned
    <3>3. AloneOk(s)'
      BY <2>1, <2>3, <3>2 DEF AloneOk, RunPCs, Statuses
    <3> QED  BY <2>1, <3>3, MovesKeep
  <2>4. CASE ~FailureAccepted(s)
    BY <2>1, <2>4, IdlesPromised
  <2> QED  BY <2>3, <2>4
<1>2. CASE FailureWrite(s)
  <2>1. PICK st, r, types, p : /\ st = cur[s]
                               /\ r = FailedCheckpoint(row, st)
                               /\ types = <<"request_failed">>
                               /\ p = Pending(r, types, "idle", "idle", 0, 0)
    OBVIOUS
  <2>2. Open(s, p) /\ pc[s] = "record_failure" /\ row' = row
    BY <1>2, <2>1 DEF FailureWrite
  <2>3. /\ row \in Rows /\ st \in WorkflowStates /\ st.owner = row.owner
        /\ row.status \notin Terminal \cup {"absent"}
    BY <2>1, <2>2, WorkedOn DEF AloneOk, IInv, TypeOK
  <2>4. r \in Rows /\ r.status = "failed"
    BY <2>1, <2>3, FailedCheckpointType
  <2>5. r.owner = row.owner
    BY <2>1, <2>3 DEF FailedCheckpoint, Checkpoint, Rows, WorkflowStates
  <2>6. p \in Transactions /\ p.row = r /\ p.next = "idle" /\ p.abort = "idle"
    <3>1. types \in Seq(EventTypes)
      BY <2>1, OneEvent DEF EventTypes
    <3>2. p = Pending(r, types, "idle", "idle", 0, 0)
      BY <2>1
    <3> QED  BY <2>4, <3>1, <3>2, PendingShape
  <2>7. Promised(row, r) /\ ConstraintOk(r)
    BY <2>3, <2>4, <2>5 DEF Promised, ConstraintOk, NeedsOwner
  <2> QED  BY <2>2, <2>6, <2>7, OpensPromised DEF RunPCs
<1> QED  BY <1>1, <1>2

\* A rollback leaves the row, and the run to its failure.
LEMMA RollbackAlone ==
  ASSUME IInv, AloneInv, NEW s \in Sessions, \A t \in Sessions : t = s,
         Rollback(s) \/ Crash(s)
  PROVE  AloneInv'
<1>1. CASE Rollback(s)
  <2>1. /\ pc[s] = "commit" /\ pc'[s] = tx[s].abort /\ seen'[s] = Expired
        /\ UNCHANGED <<row, base, cur>>
    BY <1>1 DEF Rollback, IInv, TypeOK
  <2>2. PendingOk(tx[s]) /\ (tx[s].abort = "failing" => Owned(s))
    BY <2>1, WorkedOn DEF WriterOk, AloneOk
  <2>3. CASE tx[s].abort = "idle"
    BY <2>1, <2>3, IdlesPromised
  <2>4. CASE tx[s].abort = "failing"
    <3>1. AloneOk(s)'
      BY <2>1, <2>2, <2>4 DEF AloneOk, RunPCs, Statuses, Owned
    <3> QED  BY <2>1, <3>1, MovesKeep
  <2> QED  BY <2>2, <2>3, <2>4 DEF PendingOk
<1>2. CASE Crash(s)
  <2>1. pc'[s] = "idle" /\ row' = row
    BY <1>2 DEF Crash, IInv, TypeOK
  <2> QED  BY <2>1, IdlesPromised
<1> QED  BY <1>1, <1>2

\* A commit publishes the row the run carries on with.
LEMMA CommitAlone ==
  ASSUME IInv, AloneInv, NEW s \in Sessions, \A t \in Sessions : t = s, Commit(s)
  PROVE  AloneInv'
<1>1. /\ pc[s] = "commit" /\ row' = tx[s].row /\ pc'[s] = tx[s].next
      /\ seen'[s] = View(tx[s].row) /\ UNCHANGED <<base, cur>>
  BY DEF Commit, IInv, TypeOK
<1>2. PICK p : p = tx[s]
  OBVIOUS
<1>3. /\ ConstraintOk(p.row) /\ (p.next \in RunPCs => Carries(s, p.row))
      /\ p.next \in GraphNodes \cup {"idle"}
  BY <1>1, <1>2, WorkedOn DEF AloneOk, WriterOk, PendingOk
<1>4. AloneOk(s)'
  <2>1. pc'[s] \in {"initialize", "router", "completion", "idle"}
    BY <1>1, <1>2, <1>3 DEF GraphNodes
  <2>2. pc'[s] \in RunPCs => /\ cur'[s].status = row'.status /\ cur'[s].owner = row'.owner
                             /\ base'[s].owner = row'.owner /\ seen'[s] = View(row')
    BY <1>1, <1>2, <1>3 DEF Carries
  <2>3. View(row)' = View(row')
    BY DEF View
  <2> QED  BY <2>1, <2>2, <2>3 DEF AloneOk, RunPCs, Statuses, Carries
<1>5. \A t \in Sessions : AloneOk(t)'
  <2> SUFFICES ASSUME NEW t \in Sessions PROVE AloneOk(t)'
    OBVIOUS
  <2>1. t = s
    OBVIOUS
  <2> QED  BY <1>4, <2>1 DEF AloneOk, Carries, Owned, MayCancel
<1>6. IF row'.status = "absent" THEN row'.owner = None ELSE ConstraintOk(row')
  <2>1. row'.status # "absent"
    BY <1>1, <1>2, WorkedOn DEF WriterOk, PendingOk
  <2> QED  BY <1>1, <1>2, <1>3, <2>1
<1> QED  BY <1>5, <1>6 DEF AloneInv, ConstraintOk

\* Only create and a commit change the row, and what they publish is promised.
LEMMA StepsArePromised ==
  ASSUME IInv, AloneInv, NEW s \in Sessions, Call(s) \/ Handler(s) \/ Rollback(s) \/ Crash(s)
  PROVE  \/ row.status = "absent" /\ row'.status = "created" /\ row'.owner = row.owner
         \/ Promised(row, row')
<1>1. CASE Create(s)
  <2>1. row' = [NoRow EXCEPT !.status = "created"] /\ row.status = "absent"
    BY <1>1 DEF Create
  <2>2. row'.status = "created" /\ row'.owner = None
    BY <2>1 DEF NoRow
  <2>3. row.owner = None
    BY <2>1 DEF AloneInv
  <2> QED  BY <2>1, <2>2, <2>3
<1>2. CASE Commit(s)
  <2>1. pc[s] = "commit" /\ row' = tx[s].row
    BY <1>2 DEF Commit
  <2> QED  BY <2>1, WorkedOn DEF AloneOk
<1>3. ASSUME ~Create(s), ~Commit(s) PROVE row' = row
  BY <1>3 DEF Call, Handler, Start, Resume, CancelRead, TransitionRead, CancelWrite,
     TransitionWrite, TransitionRefused, InitializeNode, RouterNode, RouterGap,
     RouterRaises, FailureRead, FailureWrite, Rollback, Crash
<1> QED  BY <1>1, <1>2, <1>3 DEF Promised

\* When one handler works at a time, every step of the program is a step of the
\* request's promise, or changes nothing that is watched.
THEOREM OneAtATime ==
  ASSUME \A s, t \in Sessions : s = t
  PROVE  Spec => ImplementsPromise
<1>1. Init => AloneInv /\ Promise!Init
  <2> SUFFICES ASSUME Init PROVE AloneInv /\ Promise!Init
    OBVIOUS
  <2>1. row.status = "absent" /\ row.owner = None
    BY DEF Init, NoRow
  <2>2. \A s \in Sessions : AloneOk(s)
    BY DEF Init, AloneOk, RunPCs, Statuses
  <2> QED  BY <2>1, <2>2 DEF AloneInv, Promise!Init
<1>2. ASSUME IInv, AloneInv, [Next]_vars
      PROVE  AloneInv' /\ [Promise!Next]_<<row.status, row.owner>>
  <2>1. CASE UNCHANGED vars
    <3>1. AloneInv'
      BY <1>2, <2>1 DEF vars, AloneInv, AloneOk, Carries, Owned, MayCancel, Promised, View,
         ConstraintOk
    <3> QED  BY <2>1, <3>1 DEF vars
  <2>2. CASE Next
    <3>1. PICK s \in Sessions : Call(s) \/ Handler(s) \/ Rollback(s) \/ Crash(s)
      BY <2>2 DEF Next
    <3>2. \A t \in Sessions : t = s
      OBVIOUS
    <3>3. AloneInv'
      <4>1. CASE Call(s)
        BY <1>2, <3>2, <4>1, CreateAlone, StartAlone, ResumeAlone, CancelAlone,
           TransitionAlone DEF Call
      <4>2. CASE Handler(s)
        BY <1>2, <3>2, <4>2, CancelAlone, TransitionAlone, InitializeAlone, RouterAlone,
           RouterGapAlone, RouterRaisesAlone, FailureAlone, CommitAlone DEF Handler
      <4>3. CASE Rollback(s) \/ Crash(s)
        BY <1>2, <3>2, <4>3, RollbackAlone
      <4> QED  BY <3>1, <4>1, <4>2, <4>3
    <3>4. \/ row.status = "absent" /\ row'.status = "created" /\ row'.owner = row.owner
          \/ Promised(row, row')
      BY <1>2, <3>1, StepsArePromised
    <3>5. [Promise!Next]_<<row.status, row.owner>>
      BY <3>4 DEF Promised, Promise!Next, Promise!Create, Promise!Move, Promise!Fail,
         Promise!Route, Promise!Allowed, Promise!Terminal, Promise!Waiting,
         Allowed, Terminal, Waiting
    <3> QED  BY <3>3, <3>5
  <2> QED  BY <1>2, <2>1, <2>2
<1>3. IInv /\ AloneInv /\ [Next]_vars => AloneInv' /\ [Promise!Next]_<<row.status, row.owner>>
  BY <1>2
<1> QED
  BY <1>1, <1>3, Inductive, PTL DEF Spec, ImplementsPromise, Promise!Spec

===============================================================================
