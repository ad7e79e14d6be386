---------------------------- MODULE HRLeave_proofs ----------------------------
(***************************************************************************)
(* Proofs about HRLeave: the books of the leaves add up, approvals keep    *)
(* the minimum of each staffing rule, a cancelled request holds no days,   *)
(* only a run and a cancel of one leave wait for each other, and no longer *)
(* circle closes, for any number of sessions, requests, employees, rules.  *)
(*                                                                         *)
(* The properties speak of rows; what makes them hold is that a            *)
(* transaction keeps what it has read under its locks until it commits.    *)
(* The invariant says so of each call: what a run has read is still what   *)
(* stands there (RunAgrees), what a cancel will give back is there to be   *)
(* given (CancelAgrees), a run that is ready to approve holds a rule that  *)
(* the department still satisfies (ReadyAgrees), and an edit that was      *)
(* checked clashes with nothing (EditAgrees).                              *)
(***************************************************************************)
EXTENDS HRLeave, FiniteSetTheorems, TLAPS

Kind(s, kind) == call[s] # Idle /\ call[s].kind = kind

\* The order in which each kind of call takes its locks bounds what it holds.
LocksInOrder(s) ==
  /\ Kind(s, "run") =>
       \A l \in call[s].locks :
         \/ call[s].pc \in {"request", "leave", "balance", "ready"} /\ l = <<"request", call[s].r>>
         \/ call[s].pc \in {"leave", "balance", "ready"} /\ l = <<"leave", call[s].r>>
         \/ call[s].pc \in {"balance", "ready"} /\ l = <<"balance", Owner[call[s].r]>>
         \/ call[s].pc = "ready" /\ l \in {"rule"} \X Rules
  /\ Kind(s, "cancel") =>
       \A l \in call[s].locks :
         \/ call[s].pc \in {"releasing", "updating"} /\ l = <<"leave", call[s].r>>
         \/ call[s].pc = "updating" /\ l = <<"balance", Owner[call[s].r]>>

LocksApart == \A s, t \in Sessions : s # t => call[s].locks \cap call[t].locks = {}

\* What a run has read under its locks still stands there.
RunAgrees(s) ==
  Kind(s, "run") =>
    LET c == call[s] IN
      /\ c.pc \in {"request", "leave", "balance", "ready"} => <<"request", c.r>> \in c.locks
      /\ c.pc \in {"leave", "balance", "ready"} =>
           /\ c.leave = leave[c.r]
           /\ leave[c.r].decision # "none" => <<"leave", c.r>> \in c.locks
      /\ c.pc \in {"balance", "ready"} =>
           /\ c.balance = balance[Owner[c.r]]
           /\ <<"balance", Owner[c.r]>> \in c.locks

\* A run that is ready to approve holds a rule that the department satisfies.
ReadyAgrees(s) ==
  Is(s, "run", "ready") =>
    /\ Delta(call[s]) > 0
    /\ ~AdminOverlap =>
         \E u \in Rules : /\ <<"rule", u>> \in call[s].locks
                          /\ rule[u] # None /\ rule[u].active
                          /\ Span[call[s].r] \subseteq rule[u].days
                          /\ StaffingOk(call[s].r, u)

\* A cancel gives back what an approval reserved, from a balance it holds.
CancelAgrees(s) ==
  Kind(s, "cancel") =>
    LET c == call[s] IN
      /\ c.leave.reserved > 0 => c.leave.decision = "approved"
      /\ c.leave.decision # "none" => leave[c.r].decision # "none"
      /\ c.pc # "updating" => c.leave.decision # "none"
      /\ c.locks # {} => c.leave.decision # "none" /\ <<"leave", c.r>> \in c.locks
      /\ c.pc = "releasing" => ToRelease(c)
      /\ c.pc = "releasing" \/ (c.pc = "updating" /\ ToRelease(c)) => <<"leave", c.r>> \in c.locks
      /\ c.pc = "updating" /\ ToRelease(c) =>
           /\ <<"balance", Owner[c.r]>> \in c.locks
           /\ c.balance = balance[Owner[c.r]]
           /\ c.leave.reserved <= c.balance.reserved
      /\ ~CancelOverlap => c.leave = leave[c.r]

\* Of two handlers of one request neither is a cancel.
CancelsAlone ==
  ~CancelOverlap =>
    \A s, t \in Sessions : Kind(s, "cancel") /\ WorksOn(t, call[s].r) => s = t

\* Nobody works on a cancelled request, and it holds no days.
CancelledIsOver ==
  ~CancelOverlap =>
    \A r \in Requests : request[r] = "cancelled" =>
      ~Holds(r) /\ \A s \in Sessions : ~WorksOn(s, r)

\* One administrator edits, and what was checked clashes with no rule.
EditAgrees ==
  ~AdminOverlap =>
    \A s \in Sessions : Is(s, "edit", "editing") =>
      /\ ~Clash(call[s].u, call[s].new)
      /\ \A t \in Sessions : Is(t, "edit", "editing") => s = t

RulesKept == ~AdminOverlap => RulesDisjoint

\* What each call relies on.
Sound(s) == LocksInOrder(s) /\ RunAgrees(s) /\ ReadyAgrees(s) /\ CancelAgrees(s)

IInv ==
  /\ plan \in Cases /\ TypeOK /\ OnlyApprovalsHold /\ ReservationsAddUp
  /\ LocksApart /\ \A s \in Sessions : Sound(s)
  /\ CancelsAlone /\ CancelledIsOver /\ EditAgrees /\ RulesKept

-----------------------------------------------------------------------------
(* Shapes.                                                                 *)

LEMMA CallShapes ==
  ASSUME TypeOK, NEW s \in Sessions
  PROVE  /\ call[s] # Idle => call[s] \in Runs \cup Cancels \cup Edits
         /\ Kind(s, "run") => call[s] \in Runs
         /\ Kind(s, "cancel") => call[s] \in Cancels
         /\ Kind(s, "edit") => call[s] \in Edits
         /\ Kind(s, "edit") \/ call[s] = Idle => call[s].locks = {}
BY DEF TypeOK, Calls, Runs, Cancels, Edits, Idle, Kind

LEMMA PlanShapes ==
  ASSUME plan \in Cases
  PROVE  /\ Owner \in [Requests -> Employees]
         /\ \A r \in Requests : Span[r] # {} /\ IsFiniteSet(Span[r])
         /\ \A r \in Requests : Days(r) \in Nat \ {0}
         /\ Allotments \subseteq Nat /\ CancelOverlap \in BOOLEAN
<1>1. /\ Owner \in [Requests -> Employees]
      /\ \A r \in Requests : Span[r] # {} /\ IsFiniteSet(Span[r])
      /\ Allotments \subseteq Nat /\ CancelOverlap \in BOOLEAN
  BY CasesAssumption DEF Owner, Span, Allotments, CancelOverlap
<1>2. \A r \in Requests : Days(r) \in Nat \ {0}
  <2>1. SUFFICES ASSUME NEW r \in Requests PROVE Days(r) \in Nat \ {0}
    OBVIOUS
  <2>2. Days(r) \in Nat
    BY <1>1, FS_CardinalityType DEF Days
  <2>3. Days(r) # 0
    BY <1>1, FS_EmptySet DEF Days
  <2>. QED  BY <2>2, <2>3
<1>. QED  BY <1>1, <1>2

\* A session that works is of one of the kinds.
LEMMA KindShapes ==
  ASSUME NEW s \in Sessions
  PROVE  /\ \A r : WorksOn(s, r) <=> /\ Kind(s, "run") \/ Kind(s, "cancel")
                                     /\ call[s].r = r
         /\ \A kind, pc : Is(s, kind, pc) <=> Kind(s, kind) /\ call[s].pc = pc
         /\ \A k, l : Kind(s, k) /\ Kind(s, l) => k = l
BY DEF WorksOn, Kind, Is

-----------------------------------------------------------------------------
(* Steps that leave the rows as they are.                                  *)

\* What other calls rely on stays while the rows do.
LEMMA OthersStaySound ==
  ASSUME UNCHANGED <<plan, leave, balance, rule>>,
         NEW t \in Sessions, Sound(t), call'[t] = call[t]
  PROVE  Sound(t)'
<1>1. LocksInOrder(t)'
  BY DEF Sound, LocksInOrder, Kind, Owner
<1>2. RunAgrees(t)'
  BY DEF Sound, RunAgrees, Kind, Owner
<1>3. ReadyAgrees(t)'
  BY DEF Sound, ReadyAgrees, Is, Delta, Desired, Days, Span, Owner, StaffingOk, Overlapping, Holds
<1>4. CancelAgrees(t)'
  BY DEF Sound, CancelAgrees, Kind, Owner, ToRelease, CancelOverlap
<1>. QED  BY <1>1, <1>2, <1>3, <1>4 DEF Sound

LEMMA RowsStand ==
  ASSUME IInv, UNCHANGED <<plan, leave, balance, rule>>, request' \in [Requests -> RequestStates],
         NEW s \in Sessions, NEW c \in Calls, call' = [call EXCEPT ![s] = c],
         \A l \in c.locks : l \in call[s].locks \/ LockFree(s, l),
         Sound(s)', CancelsAlone', CancelledIsOver', EditAgrees'
  PROVE  IInv'
<1>1. \A t \in Sessions : call'[t] = IF t = s THEN c ELSE call[t]
  BY DEF IInv, TypeOK
<1>2. TypeOK'
  BY DEF IInv, TypeOK, Calls, Runs, Cancels, Edits, RuleRows, RuleForms, Periods, Standing
<1>3. (plan \in Cases)' /\ OnlyApprovalsHold' /\ RulesKept'
  BY DEF IInv, OnlyApprovalsHold, Holds, RulesKept, RulesDisjoint
<1>4. ReservationsAddUp'
  BY DEF IInv, ReservationsAddUp, HeldDays, CancelOverlap, Owner
<1>5. LocksApart'
  <2>1. SUFFICES ASSUME NEW t \in Sessions, NEW u \in Sessions, t # u, NEW l,
                        l \in call'[t].locks, l \in call'[u].locks
                 PROVE  FALSE
    BY DEF LocksApart
  <2>2. LocksApart
    BY DEF IInv
  <2>. QED  BY <1>1, <2>1, <2>2 DEF LocksApart, LockFree
<1>6. \A t \in Sessions : Sound(t)'
  <2>1. SUFFICES ASSUME NEW t \in Sessions, t # s PROVE Sound(t)'
    OBVIOUS
  <2>. QED  BY <1>1, <2>1, OthersStaySound DEF IInv
<1>. QED  BY <1>2, <1>3, <1>4, <1>5, <1>6 DEF IInv

\* A call that goes on with the same request, or ends, begins nothing.
LEMMA GoesOn ==
  ASSUME IInv, UNCHANGED <<plan, rule, leave>>,
         \A r \in Requests : request'[r] = "cancelled" => request[r] = "cancelled",
         NEW s \in Sessions, NEW c \in Calls, call' = [call EXCEPT ![s] = c],
         c # Idle => /\ Kind(s, c.kind) /\ c.kind \in {"run", "cancel"}
                     /\ c.r = call[s].r
  PROVE  CancelsAlone' /\ CancelledIsOver' /\ EditAgrees'
<1>1. \A t \in Sessions : call'[t] = IF t = s THEN c ELSE call[t]
  BY DEF IInv, TypeOK
<1>2. \A t \in Sessions : /\ \A r : WorksOn(t, r)' => WorksOn(t, r)
                          /\ Kind(t, "cancel")' => Kind(t, "cancel") /\ call'[t].r = call[t].r
                          /\ Is(t, "edit", "editing")' =>
                               Is(t, "edit", "editing") /\ call'[t] = call[t]
  BY <1>1 DEF WorksOn, Kind, Is
<1>3. CancelsAlone'
  BY <1>2 DEF IInv, CancelsAlone, CancelOverlap
<1>4. CancelledIsOver'
  BY <1>2 DEF IInv, CancelledIsOver, CancelOverlap, Holds
<1>5. EditAgrees'
  BY <1>2 DEF IInv, EditAgrees, Clash
<1>. QED  BY <1>3, <1>4, <1>5

\* A call that goes on, with the locks it got.
LEMMA Acquired ==
  ASSUME IInv, NEW s \in Sessions, NEW ls, NEW d, Acquire(s, ls, d),
         \/ Kind(s, "run") /\ d \in Runs
         \/ Kind(s, "cancel") /\ d \in Cancels,
         d.r = call[s].r, d.locks = call[s].locks, ls \subseteq Locks,
         Sound(s)'
  PROVE  IInv'
<1>1. PICK c : c = [d EXCEPT !.locks = d.locks \cup ls]
  OBVIOUS
<1>2. /\ d \in Runs => c \in Runs
      /\ d \in Cancels => c \in Cancels
  BY <1>1 DEF Runs, Cancels
<1>3. c \in Calls /\ c.locks = d.locks \cup ls /\ c.r = d.r /\ c.kind = d.kind
  BY <1>1, <1>2 DEF Calls, Runs, Cancels
<1>4. call' = [call EXCEPT ![s] = c] /\ UNCHANGED <<plan, leave, balance, rule, request>>
  BY <1>1 DEF Acquire
<1>5. \A l \in c.locks : l \in call[s].locks \/ LockFree(s, l)
  BY <1>3 DEF Acquire
<1>6. Kind(s, c.kind) /\ c.kind \in {"run", "cancel"} /\ c.r = call[s].r
  BY <1>2, <1>3 DEF Runs, Cancels, Kind
<1>7. CancelsAlone' /\ CancelledIsOver' /\ EditAgrees'
  BY <1>3, <1>4, <1>6, GoesOn
<1>. QED  BY <1>3, <1>4, <1>5, <1>7, RowsStand DEF IInv, TypeOK

LEMMA LockRequestKeeps ==
  ASSUME IInv, NEW s \in Sessions, LockRequest(s)
  PROVE  IInv'
<1>1. /\ Kind(s, "run") /\ call[s] \in Runs /\ call[s].pc = "decided" /\ call[s].locks = {}
      /\ Sound(s)
  BY CallShapes, KindShapes DEF LockRequest, IInv, Sound, LocksInOrder
<1>2. PICK d : d = [call[s] EXCEPT !.pc = "request"]
  OBVIOUS
<1>3. d \in Runs /\ d.r = call[s].r /\ d.locks = {} /\ d.kind = "run"
  BY <1>1, <1>2 DEF Runs
<1>4. Acquire(s, {<<"request", call[s].r>>}, d)
  BY <1>2 DEF LockRequest
<1>5. /\ call'[s].pc = "request" /\ call'[s].r = call[s].r /\ call'[s].kind = "run"
      /\ call'[s].locks = {<<"request", call[s].r>>} /\ call[s].r \in Requests
  BY <1>1, <1>2, <1>3, <1>4 DEF Acquire, IInv, TypeOK, Runs
<1>6. Sound(s)'
  BY <1>5 DEF Sound, LocksInOrder, RunAgrees, ReadyAgrees, CancelAgrees, Kind, Is
<1>7. {<<"request", call[s].r>>} \subseteq Locks
  BY <1>5 DEF Locks
<1>. QED  BY <1>1, <1>3, <1>4, <1>6, <1>7, Acquired

LEMMA LockLeaveKeeps ==
  ASSUME IInv, NEW s \in Sessions, LockLeave(s)
  PROVE  IInv'
<1>1. /\ Kind(s, "run") /\ call[s] \in Runs /\ call[s].pc = "request" /\ call[s].r \in Requests
      /\ Sound(s)
  BY CallShapes, KindShapes DEF LockLeave, IInv, Runs
<1>2. PICK d : d = [call[s] EXCEPT !.pc = "leave", !.leave = leave[call[s].r]]
  OBVIOUS
<1>3. d \in Runs /\ d.r = call[s].r /\ d.locks = call[s].locks /\ d.kind = "run"
  BY <1>1, <1>2 DEF Runs, IInv, TypeOK
<1>4. Acquire(s, LeaveLock(call[s].r), d)
  BY <1>2 DEF LockLeave
<1>5. /\ call'[s].pc = "leave" /\ call'[s].r = call[s].r /\ call'[s].kind = "run"
      /\ call'[s].leave = leave[call[s].r]
      /\ call'[s].locks = call[s].locks \cup LeaveLock(call[s].r)
      /\ leave' = leave
  BY <1>1, <1>2, <1>3, <1>4 DEF Acquire, IInv, TypeOK, Runs
<1>6. /\ <<"request", call[s].r>> \in call[s].locks
      /\ \A l \in call[s].locks : l = <<"request", call[s].r>>
  BY <1>1 DEF Sound, LocksInOrder, RunAgrees
<1>7. Sound(s)'
  BY <1>5, <1>6 DEF Sound, LocksInOrder, RunAgrees, ReadyAgrees, CancelAgrees, Kind, Is, LeaveLock
<1>8. LeaveLock(call[s].r) \subseteq Locks
  BY <1>1 DEF Locks, LeaveLock
<1>. QED  BY <1>1, <1>3, <1>4, <1>7, <1>8, Acquired

LEMMA LockBalanceKeeps ==
  ASSUME IInv, NEW s \in Sessions, LockBalance(s)
  PROVE  IInv'
<1>1. /\ Kind(s, "run") /\ call[s] \in Runs /\ call[s].pc = "leave" /\ call[s].r \in Requests
      /\ Sound(s) /\ Owner[call[s].r] \in Employees
  BY CallShapes, KindShapes, PlanShapes DEF LockBalance, IInv, Runs
<1>2. PICK d : d = [call[s] EXCEPT !.pc = "balance", !.balance = balance[Owner[call[s].r]]]
  OBVIOUS
<1>3. d \in Runs /\ d.r = call[s].r /\ d.locks = call[s].locks /\ d.kind = "run"
  BY <1>1, <1>2 DEF Runs, IInv, TypeOK
<1>4. Acquire(s, BalanceLock(Owner[call[s].r]), d)
  BY <1>2 DEF LockBalance
<1>5. /\ call'[s].pc = "balance" /\ call'[s].r = call[s].r /\ call'[s].kind = "run"
      /\ call'[s].leave = call[s].leave /\ call'[s].balance = balance[Owner[call[s].r]]
      /\ call'[s].locks = call[s].locks \cup {<<"balance", Owner[call[s].r]>>}
      /\ leave' = leave /\ balance' = balance /\ Owner' = Owner
  BY <1>1, <1>2, <1>3, <1>4 DEF Acquire, IInv, TypeOK, Runs, BalanceLock, Owner
<1>6. /\ <<"request", call[s].r>> \in call[s].locks
      /\ call[s].leave = leave[call[s].r]
      /\ leave[call[s].r].decision # "none" => <<"leave", call[s].r>> \in call[s].locks
  BY <1>1 DEF Sound, RunAgrees
<1>7. Sound(s)'
  <2>1. \A l \in call[s].locks : l = <<"request", call[s].r>> \/ l = <<"leave", call[s].r>>
    BY <1>1 DEF Sound, LocksInOrder
  <2>2. LocksInOrder(s)'
    BY <1>5, <2>1 DEF LocksInOrder, Kind
  <2>. QED  BY <1>5, <1>6, <2>2 DEF Sound, RunAgrees, ReadyAgrees, CancelAgrees, Kind, Is
<1>8. BalanceLock(Owner[call[s].r]) \subseteq Locks
  BY <1>1 DEF Locks, BalanceLock
<1>. QED  BY <1>1, <1>3, <1>4, <1>7, <1>8, Acquired

\* The rule that is locked is active, covers the leave, and is satisfied.
LEMMA LockRuleKeeps ==
  ASSUME IInv, NEW s \in Sessions, LockRule(s)
  PROVE  IInv'
<1>1. /\ Kind(s, "run") /\ call[s] \in Runs /\ call[s].pc = "balance" /\ call[s].r \in Requests
      /\ Sound(s) /\ Delta(call[s]) > 0
  BY CallShapes, KindShapes DEF LockRule, Revalidates, IInv, Runs
<1>2. PICK d : d = [call[s] EXCEPT !.pc = "ready"]
  OBVIOUS
<1>3. /\ d \in Runs /\ d.r = call[s].r /\ d.locks = call[s].locks /\ d.kind = "run"
      /\ d.leave = call[s].leave /\ d.balance = call[s].balance /\ d.decision = call[s].decision
      /\ d.pc = "ready"
  BY <1>1, <1>2 DEF Runs
<1>4. PICK u \in Applicable(call[s].r) : StaffingOk(call[s].r, u) /\ Acquire(s, RuleLock(u), d)
  BY <1>2 DEF LockRule
<1>5. /\ u \in Rules /\ rule[u] # None /\ rule[u].active
      /\ Span[call[s].r] \subseteq rule[u].days
  BY <1>4 DEF Applicable, Covering
<1>6. PICK c : c = [d EXCEPT !.locks = d.locks \cup {<<"rule", u>>}]
  OBVIOUS
<1>7. /\ call'[s] = c /\ UNCHANGED <<plan, leave, balance, rule>>
      /\ c.pc = "ready" /\ c.r = call[s].r /\ c.kind = "run" /\ c.leave = call[s].leave
      /\ c.balance = call[s].balance /\ c.decision = call[s].decision
      /\ c.locks = call[s].locks \cup {<<"rule", u>>}
  BY <1>3, <1>4, <1>6 DEF Acquire, RuleLock, IInv, TypeOK, Runs
<1>8. LocksInOrder(s)' /\ RunAgrees(s)' /\ CancelAgrees(s)'
  <2>1. \A l \in call[s].locks : \/ l \in {<<"request", call[s].r>>, <<"leave", call[s].r>>}
                                  \/ l = <<"balance", Owner[call[s].r]>>
    BY <1>1 DEF Sound, LocksInOrder
  <2>2. LocksInOrder(s)'
    BY <1>5, <1>7, <2>1 DEF LocksInOrder, Kind, Owner
  <2>3. RunAgrees(s)' /\ CancelAgrees(s)'
    BY <1>1, <1>7 DEF Sound, RunAgrees, CancelAgrees, Kind, Owner
  <2>. QED  BY <2>2, <2>3
<1>9. ReadyAgrees(s)'
  <2>1. Delta(call[s])' > 0
    BY <1>1, <1>7 DEF Delta, Desired, Days, Span
  <2>2. /\ <<"rule", u>> \in call'[s].locks /\ rule'[u] # None /\ rule'[u].active
        /\ Span'[call'[s].r] \subseteq rule'[u].days
    BY <1>5, <1>7 DEF Span
  <2>3. StaffingOk(call[s].r, u)'
    BY <1>4, <1>7 DEF StaffingOk, Overlapping, Holds, Owner, Span
  <2>. QED  BY <1>5, <2>1, <2>2, <2>3 DEF ReadyAgrees
<1>10. RuleLock(u) \subseteq Locks
  BY <1>5 DEF Locks, RuleLock
<1>. QED  BY <1>1, <1>3, <1>4, <1>8, <1>9, <1>10, Acquired DEF Sound

LEMMA CancelLockLeaveKeeps ==
  ASSUME IInv, NEW s \in Sessions, CancelLockLeave(s)
  PROVE  IInv'
<1>1. /\ Kind(s, "cancel") /\ call[s] \in Cancels /\ call[s].pc = "cancelling"
      /\ call[s].r \in Requests /\ call[s].locks = {} /\ Sound(s)
  BY CallShapes, KindShapes DEF CancelLockLeave, IInv, Cancels, Sound, LocksInOrder
<1>2. PICK d : d = [call[s] EXCEPT !.pc = IF ToRelease(call[s]) THEN "releasing" ELSE "updating"]
  OBVIOUS
<1>3. /\ d \in Cancels /\ d.r = call[s].r /\ d.locks = {} /\ d.kind = "cancel"
      /\ d.leave = call[s].leave
      /\ d.pc = IF ToRelease(call[s]) THEN "releasing" ELSE "updating"
  BY <1>1, <1>2 DEF Cancels
<1>4. Acquire(s, {<<"leave", call[s].r>>}, d)
  BY <1>2 DEF CancelLockLeave
<1>5. PICK c : c = [d EXCEPT !.locks = d.locks \cup {<<"leave", call[s].r>>}]
  OBVIOUS
<1>6. /\ call'[s] = c /\ UNCHANGED <<plan, leave, balance>>
      /\ c.pc = IF ToRelease(call[s]) THEN "releasing" ELSE "updating"
      /\ c.r = call[s].r /\ c.kind = "cancel" /\ c.leave = call[s].leave
      /\ c.locks = {<<"leave", call[s].r>>}
  BY <1>3, <1>4, <1>5 DEF Acquire, IInv, TypeOK, Cancels
<1>7. LocksInOrder(s)' /\ RunAgrees(s)' /\ ReadyAgrees(s)'
  BY <1>6 DEF LocksInOrder, RunAgrees, ReadyAgrees, Kind, Is
<1>8. CancelAgrees(s)'
  BY <1>1, <1>6 DEF Sound, CancelAgrees, Kind, ToRelease, Owner, CancelOverlap
<1>9. {<<"leave", call[s].r>>} \subseteq Locks
  BY <1>1 DEF Locks
<1>. QED  BY <1>1, <1>3, <1>4, <1>7, <1>8, <1>9, Acquired DEF Sound

LEMMA CancelLockBalanceKeeps ==
  ASSUME IInv, NEW s \in Sessions, CancelLockBalance(s)
  PROVE  IInv'
<1>1. /\ Kind(s, "cancel") /\ call[s] \in Cancels /\ call[s].pc = "releasing"
      /\ call[s].r \in Requests /\ Sound(s) /\ Owner[call[s].r] \in Employees
  BY CallShapes, KindShapes, PlanShapes DEF CancelLockBalance, IInv, Cancels
<1>2. PICK d : d = [call[s] EXCEPT !.pc = "updating", !.balance = balance[Owner[call[s].r]]]
  OBVIOUS
<1>3. /\ d \in Cancels /\ d.r = call[s].r /\ d.locks = call[s].locks /\ d.kind = "cancel"
      /\ d.leave = call[s].leave /\ d.pc = "updating" /\ d.balance = balance[Owner[call[s].r]]
  BY <1>1, <1>2 DEF Cancels, IInv, TypeOK
<1>4. /\ Acquire(s, BalanceLock(Owner[call[s].r]), d)
      /\ call[s].leave.reserved <= balance[Owner[call[s].r]].reserved
  BY <1>1, <1>2 DEF CancelLockBalance, Cancels, Leaves, IInv, TypeOK, Balances
<1>5. PICK c : c = [d EXCEPT !.locks = d.locks \cup {<<"balance", Owner[call[s].r]>>}]
  OBVIOUS
<1>6. /\ call'[s] = c /\ UNCHANGED <<plan, leave, balance>>
      /\ c.pc = "updating" /\ c.r = call[s].r /\ c.kind = "cancel" /\ c.leave = call[s].leave
      /\ c.balance = balance[Owner[call[s].r]]
      /\ c.locks = call[s].locks \cup {<<"balance", Owner[call[s].r]>>}
  BY <1>3, <1>4, <1>5 DEF Acquire, IInv, TypeOK, Cancels, BalanceLock
<1>7. LocksInOrder(s)' /\ RunAgrees(s)' /\ ReadyAgrees(s)'
  BY <1>1, <1>6 DEF Sound, LocksInOrder, RunAgrees, ReadyAgrees, Kind, Is, Owner
<1>8. CancelAgrees(s)'
  BY <1>1, <1>4, <1>6 DEF Sound, CancelAgrees, Kind, ToRelease, Owner, CancelOverlap
<1>9. BalanceLock(Owner[call[s].r]) \subseteq Locks
  BY <1>1 DEF Locks, BalanceLock
<1>. QED  BY <1>1, <1>3, <1>4, <1>7, <1>8, <1>9, Acquired DEF Sound

-----------------------------------------------------------------------------
(* Calls that begin, are refused or end.                                   *)

LEMMA EndKeeps ==
  ASSUME IInv, NEW s \in Sessions, Return(s), UNCHANGED <<plan, leave, balance, rule, request>>
  PROVE  IInv'
<1>1. Idle \in Calls /\ Idle.locks = {}
  BY DEF Calls, Idle
<1>2. call' = [call EXCEPT ![s] = Idle] /\ call'[s] = Idle
  BY DEF Return, IInv, TypeOK
<1>3. Sound(s)'
  BY <1>2 DEF Sound, LocksInOrder, RunAgrees, ReadyAgrees, CancelAgrees, Kind, Is
<1>4. CancelsAlone' /\ CancelledIsOver' /\ EditAgrees'
  BY <1>1, <1>2, GoesOn
<1>. QED  BY <1>1, <1>2, <1>3, <1>4, RowsStand DEF IInv, TypeOK

LEMMA RefuseKeeps ==
  ASSUME IInv, NEW s \in Sessions, Refuse(s)
  PROVE  IInv'
<1>1. /\ Kind(s, "run") /\ call[s] \in Runs
      /\ UNCHANGED <<plan, leave, balance, rule, request>>
  BY CallShapes, KindShapes DEF Refuse, IInv
<1>2. PICK c : c = Ran(call[s])
  OBVIOUS
<1>3. /\ c \in Runs /\ c.kind = "run" /\ c.pc = "ran" /\ c.r = call[s].r /\ c.locks = {}
  BY <1>1, <1>2 DEF Ran, Runs, NoLeave, NoBalance, Leaves, Balances, Decisions
<1>4. c \in Calls /\ call' = [call EXCEPT ![s] = c] /\ call'[s] = c
  BY <1>2, <1>3 DEF Calls, Refuse, IInv, TypeOK
<1>5. Sound(s)'
  BY <1>3, <1>4 DEF Sound, LocksInOrder, RunAgrees, ReadyAgrees, CancelAgrees, Kind, Is
<1>6. CancelsAlone' /\ CancelledIsOver' /\ EditAgrees'
  BY <1>1, <1>3, <1>4, GoesOn
<1>. QED  BY <1>1, <1>3, <1>4, <1>5, <1>6, RowsStand DEF IInv, TypeOK

LEMMA DecideKeeps ==
  ASSUME IInv, NEW s \in Sessions, NEW r \in Requests, Decide(s, r)
  PROVE  IInv'
<1>1. /\ call[s] = Idle /\ request[r] = "open"
      /\ CancelOverlap \/ \A t \in Sessions : ~(WorksOn(t, r) /\ call[t].kind = "cancel")
      /\ UNCHANGED <<plan, leave, balance, rule, request>>
  BY DEF Decide
<1>2. PICK d, c :
        /\ d \in Verdicts(r)
        /\ c = [kind |-> "run", pc |-> "decided", r |-> r, decision |-> d,
                staffed |-> Applicable(r) # {}, leave |-> NoLeave,
                balance |-> NoBalance, locks |-> {}]
        /\ call' = [call EXCEPT ![s] = c]
  BY DEF Decide
<1>3. c \in Runs /\ c.kind = "run" /\ c.pc = "decided" /\ c.r = r /\ c.locks = {} /\ c # Idle
  BY <1>2 DEF Verdicts, Runs, NoLeave, NoBalance, Leaves, Balances, Decisions, Idle
<1>4. c \in Calls /\ \A t \in Sessions : call'[t] = IF t = s THEN c ELSE call[t]
  BY <1>2, <1>3 DEF Calls, IInv, TypeOK
<1>5. Sound(s)'
  BY <1>3, <1>4 DEF Sound, LocksInOrder, RunAgrees, ReadyAgrees, CancelAgrees, Kind, Is
<1>6. CancelsAlone'
  BY <1>1, <1>3, <1>4 DEF IInv, CancelsAlone, Kind, WorksOn, CancelOverlap
<1>7. CancelledIsOver'
  BY <1>1, <1>3, <1>4 DEF IInv, CancelledIsOver, Kind, WorksOn, CancelOverlap, Holds
<1>8. EditAgrees'
  BY <1>1, <1>3, <1>4 DEF IInv, EditAgrees, Is, Clash
<1>. QED  BY <1>1, <1>2, <1>3, <1>4, <1>5, <1>6, <1>7, <1>8, RowsStand DEF IInv, TypeOK

LEMMA CancelReadKeeps ==
  ASSUME IInv, NEW s \in Sessions, NEW r \in Requests, CancelRead(s, r)
  PROVE  IInv'
<1>1. /\ call[s] = Idle /\ request[r] = "open"
      /\ CancelOverlap \/ \A t \in Sessions : ~WorksOn(t, r)
      /\ UNCHANGED <<plan, leave, balance, rule, request>>
      /\ leave[r] \in Leaves
  BY DEF CancelRead, IInv, TypeOK
<1>2. PICK c :
        /\ c = [kind |-> "cancel", r |-> r, leave |-> leave[r],
                pc |-> IF leave[r].decision = "none" THEN "updating" ELSE "cancelling",
                balance |-> NoBalance, locks |-> {}]
        /\ call' = [call EXCEPT ![s] = c]
  BY DEF CancelRead
<1>3. /\ c \in Cancels /\ c.kind = "cancel" /\ c.r = r /\ c.locks = {} /\ c # Idle
      /\ c.leave = leave[r]
      /\ c.pc = IF leave[r].decision = "none" THEN "updating" ELSE "cancelling"
  BY <1>1, <1>2 DEF Cancels, NoBalance, Balances, Idle
<1>4. c \in Calls /\ \A t \in Sessions : call'[t] = IF t = s THEN c ELSE call[t]
  BY <1>2, <1>3 DEF Calls, IInv, TypeOK
<1>5. leave[r].reserved > 0 => leave[r].decision = "approved"
  BY DEF IInv, OnlyApprovalsHold, Holds
<1>6. Sound(s)'
  <2>1. LocksInOrder(s)' /\ RunAgrees(s)' /\ ReadyAgrees(s)'
    BY <1>3, <1>4 DEF LocksInOrder, RunAgrees, ReadyAgrees, Kind, Is
  <2>2. CancelAgrees(s)'
    BY <1>1, <1>3, <1>4, <1>5 DEF CancelAgrees, Kind, ToRelease
  <2>. QED  BY <2>1, <2>2 DEF Sound
<1>7. CancelsAlone'
  BY <1>1, <1>3, <1>4 DEF IInv, CancelsAlone, Kind, WorksOn, CancelOverlap
<1>8. CancelledIsOver'
  BY <1>1, <1>3, <1>4 DEF IInv, CancelledIsOver, Kind, WorksOn, CancelOverlap, Holds
<1>9. EditAgrees'
  BY <1>1, <1>3, <1>4 DEF IInv, EditAgrees, Is, Clash
<1>. QED  BY <1>1, <1>2, <1>3, <1>4, <1>6, <1>7, <1>8, <1>9, RowsStand DEF IInv, TypeOK

LEMMA EditCheckKeeps ==
  ASSUME IInv, NEW s \in Sessions, NEW u \in Rules, NEW new \in RuleForms(Periods),
         EditCheck(s, u, new)
  PROVE  IInv'
<1>1. /\ call[s] = Idle /\ ~Clash(u, new)
      /\ AdminOverlap \/ \A t \in Sessions : ~Is(t, "edit", "editing")
      /\ UNCHANGED <<plan, leave, balance, rule, request>>
  BY DEF EditCheck
<1>2. PICK c :
        /\ c = [kind |-> "edit", pc |-> "editing", u |-> u, new |-> new,
                old |-> rule[u] # None, locks |-> {}]
        /\ call' = [call EXCEPT ![s] = c]
  BY DEF EditCheck
<1>3. c \in Edits /\ c.kind = "edit" /\ c.u = u /\ c.new = new /\ c.locks = {} /\ c # Idle
  BY <1>2 DEF Edits, Idle
<1>4. c \in Calls /\ \A t \in Sessions : call'[t] = IF t = s THEN c ELSE call[t]
  BY <1>2, <1>3 DEF Calls, IInv, TypeOK
<1>5. Sound(s)'
  BY <1>3, <1>4 DEF Sound, LocksInOrder, RunAgrees, ReadyAgrees, CancelAgrees, Kind, Is
<1>6. CancelsAlone'
  BY <1>1, <1>3, <1>4 DEF IInv, CancelsAlone, Kind, WorksOn, CancelOverlap
<1>7. CancelledIsOver'
  BY <1>1, <1>3, <1>4 DEF IInv, CancelledIsOver, Kind, WorksOn, CancelOverlap, Holds
<1>8. EditAgrees'
  BY <1>1, <1>3, <1>4 DEF IInv, EditAgrees, Is, Clash
<1>. QED  BY <1>1, <1>2, <1>3, <1>4, <1>5, <1>6, <1>7, <1>8, RowsStand DEF IInv, TypeOK

LEMMA CloseKeeps ==
  ASSUME IInv, NEW s \in Sessions, Close(s)
  PROVE  IInv'
<1>1. /\ UNCHANGED <<plan, leave, balance, rule>> /\ Return(s)
      /\ request' = [request EXCEPT ![call[s].r] = "closed"]
  BY DEF Close
<1>2. request' \in [Requests -> RequestStates]
  BY <1>1 DEF IInv, TypeOK, RequestStates
<1>3. \A r \in Requests : request'[r] = "cancelled" => request[r] = "cancelled"
  BY <1>1 DEF IInv, TypeOK
<1>4. Idle \in Calls /\ Idle.locks = {}
  BY DEF Calls, Idle
<1>5. call' = [call EXCEPT ![s] = Idle] /\ call'[s] = Idle
  BY <1>1 DEF Return, IInv, TypeOK
<1>6. Sound(s)'
  BY <1>5 DEF Sound, LocksInOrder, RunAgrees, ReadyAgrees, CancelAgrees, Kind, Is
<1>7. CancelsAlone' /\ CancelledIsOver' /\ EditAgrees'
  BY <1>1, <1>3, <1>4, <1>5, GoesOn
<1>. QED  BY <1>1, <1>2, <1>4, <1>5, <1>6, <1>7, RowsStand

-----------------------------------------------------------------------------
(* The days that are held, counted.                                        *)

Cells(f, S) == UNION {{x} \X (1..f[x]) : x \in S}

LEMMA CellsFinite ==
  ASSUME NEW S, IsFiniteSet(S), NEW f, \A x \in S : f[x] \in Nat
  PROVE  IsFiniteSet(Cells(f, S))
<1>1. \A x \in S : IsFiniteSet({x} \X (1..f[x]))
  <2>1. SUFFICES ASSUME NEW x \in S PROVE IsFiniteSet({x} \X (1..f[x]))
    OBVIOUS
  <2>2. IsFiniteSet({x})
    BY FS_Singleton
  <2>3. IsFiniteSet(1..f[x])
    BY FS_Interval
  <2>. QED  BY <2>2, <2>3, FS_Product
<1>2. IsFiniteSet({{x} \X (1..f[x]) : x \in S})
  <2>1. PICK g : g = [x \in S |-> {x} \X (1..f[x])]
    OBVIOUS
  <2>2. g \in Surjection(S, {{x} \X (1..f[x]) : x \in S})
    BY <2>1 DEF Surjection
  <2>. QED  BY <2>2, FS_Surjection
<1>. QED  BY <1>1, <1>2, FS_UNION DEF Cells

\* What one element counts is added to the rest.
LEMMA CellsOfOne ==
  ASSUME NEW S, IsFiniteSet(S), NEW f, \A x \in S : f[x] \in Nat, NEW y \in S
  PROVE  /\ Cardinality(Cells(f, S)) = Cardinality(Cells(f, S \ {y})) + f[y]
         /\ Cardinality(Cells(f, S \ {y})) \in Nat
<1>1. IsFiniteSet(S \ {y})
  BY FS_Subset
<1>2. IsFiniteSet(Cells(f, S \ {y}))
  BY <1>1, CellsFinite
<1>3. IsFiniteSet({y}) /\ Cardinality({y}) = 1
  BY FS_Singleton
<1>4. IsFiniteSet(1..f[y]) /\ Cardinality(1..f[y]) = f[y]
  BY FS_Interval
<1>5. IsFiniteSet({y} \X (1..f[y])) /\ Cardinality({y} \X (1..f[y])) = f[y]
  BY <1>3, <1>4, FS_Product
<1>6. Cells(f, S) = Cells(f, S \ {y}) \cup ({y} \X (1..f[y]))
  BY DEF Cells
<1>7. Cells(f, S \ {y}) \cap ({y} \X (1..f[y])) = {}
  BY DEF Cells
<1>8. Cardinality(Cells(f, S \ {y}) \cap ({y} \X (1..f[y]))) = 0
  BY <1>7, FS_EmptySet
<1>9. Cardinality(Cells(f, S \ {y})) \in Nat
  BY <1>2, FS_CardinalityType
<1>10. Cardinality(Cells(f, S \ {y}) \cup ({y} \X (1..f[y])))
          = Cardinality(Cells(f, S \ {y})) + Cardinality({y} \X (1..f[y]))
            - Cardinality(Cells(f, S \ {y}) \cap ({y} \X (1..f[y])))
  BY <1>2, <1>5, FS_Union
<1>. QED  BY <1>5, <1>6, <1>8, <1>9, <1>10

LEMMA CellsChange ==
  ASSUME NEW S, IsFiniteSet(S), NEW f, \A x \in S : f[x] \in Nat,
         NEW g, \A x \in S : g[x] \in Nat, NEW y \in S, \A x \in S \ {y} : g[x] = f[x]
  PROVE  Cardinality(Cells(g, S)) = Cardinality(Cells(f, S)) - f[y] + g[y]
<1>1. Cells(g, S \ {y}) = Cells(f, S \ {y})
  BY DEF Cells
<1>2. /\ Cardinality(Cells(f, S)) = Cardinality(Cells(f, S \ {y})) + f[y]
      /\ Cardinality(Cells(f, S \ {y})) \in Nat
  BY CellsOfOne
<1>3. Cardinality(Cells(g, S)) = Cardinality(Cells(g, S \ {y})) + g[y]
  BY CellsOfOne
<1>. QED  BY <1>1, <1>2, <1>3

\* A leave that holds more or less changes what its owner's leaves hold, and
\* nothing else.
LEMMA HeldDaysChange ==
  ASSUME plan \in Cases, UNCHANGED plan,
         leave \in [Requests -> Leaves], leave' \in [Requests -> Leaves],
         NEW r \in Requests, \A q \in Requests \ {r} : leave'[q].reserved = leave[q].reserved,
         NEW e, e = Owner[r]
  PROVE  /\ \A x \in Employees \ {e} : HeldDays(x)' = HeldDays(x)
         /\ Cardinality(HeldDays(e)') =
              Cardinality(HeldDays(e)) - leave[r].reserved + leave'[r].reserved
<1>1. Owner' = Owner /\ \A q \in Requests : leave[q].reserved \in Nat /\ leave'[q].reserved \in Nat
  BY DEF Owner, Leaves
<1>2. ASSUME NEW x \in Employees \ {e} PROVE HeldDays(x)' = HeldDays(x)
  <2>1. \A q \in {p \in Requests : Owner[p] = x} : leave'[q].reserved = leave[q].reserved
    OBVIOUS
  <2>. QED  BY <1>1, <2>1 DEF HeldDays
<1>4. PICK S : S = {q \in Requests : Owner[q] = e}
  OBVIOUS
<1>5. PICK f : f = [q \in S |-> leave[q].reserved]
  OBVIOUS
<1>6. PICK g : g = [q \in S |-> leave'[q].reserved]
  OBVIOUS
<1>7. HeldDays(e) = Cells(f, S)
  BY <1>4, <1>5 DEF HeldDays, Cells
<1>8. HeldDays(e)' = Cells(g, S)
  BY <1>1, <1>4, <1>6 DEF HeldDays, Cells
<1>9. IsFiniteSet(S)
  BY <1>4, RowsAssumption, FS_Subset
<1>10. r \in S /\ f[r] = leave[r].reserved /\ g[r] = leave'[r].reserved
  BY <1>4, <1>5, <1>6
<1>11. /\ \A x \in S : f[x] \in Nat
       /\ \A x \in S : g[x] \in Nat
       /\ \A x \in S \ {r} : g[x] = f[x]
  BY <1>1, <1>4, <1>5, <1>6
<1>12. Cardinality(Cells(g, S)) = Cardinality(Cells(f, S)) - f[r] + g[r]
  BY <1>9, <1>10, <1>11, CellsChange
<1>. QED  BY <1>2, <1>7, <1>8, <1>10, <1>12

-----------------------------------------------------------------------------
(* Steps that change rows.                                                 *)

\* What a call relies on stays, while others write only what it has not locked.
LEMMA SoundStays ==
  ASSUME IInv, UNCHANGED plan, NEW t \in Sessions, call'[t] = call[t],
         Kind(t, "run") /\ call[t].pc \in {"leave", "balance", "ready"} =>
           leave'[call[t].r] = leave[call[t].r],
         \A e : <<"balance", e>> \in call[t].locks => balance'[e] = balance[e],
         Kind(t, "cancel") =>
           /\ leave[call[t].r].decision # "none" => leave'[call[t].r].decision # "none"
           /\ ~CancelOverlap => leave'[call[t].r] = leave[call[t].r],
         Is(t, "run", "ready") /\ ~AdminOverlap =>
           \A u \in Rules :
             /\ <<"rule", u>> \in call[t].locks
             /\ rule[u] # None /\ rule[u].active /\ Span[call[t].r] \subseteq rule[u].days
             /\ StaffingOk(call[t].r, u)
             => rule'[u] = rule[u] /\ StaffingOk(call[t].r, u)'
  PROVE  Sound(t)'
<1>1. Sound(t)
  BY DEF IInv
<1>2. Owner' = Owner /\ Span' = Span /\ CancelOverlap' = CancelOverlap
  BY DEF Owner, Span, CancelOverlap
<1>3. LocksInOrder(t)'
  BY <1>1, <1>2 DEF Sound, LocksInOrder, Kind
<1>4. RunAgrees(t)'
  BY <1>1, <1>2 DEF Sound, RunAgrees, Kind
<1>5. ReadyAgrees(t)'
  <2>1. SUFFICES ASSUME Is(t, "run", "ready")' PROVE ReadyAgrees(t)'
    BY DEF ReadyAgrees
  <2>2. Is(t, "run", "ready")
    BY <2>1 DEF Is
  <2>3. (Delta(call[t]) > 0)'
    BY <1>1, <1>2, <2>2 DEF Sound, ReadyAgrees, Delta, Desired, Days
  <2>4. ASSUME ~AdminOverlap
        PROVE  \E u \in Rules : /\ <<"rule", u>> \in call'[t].locks
                                /\ rule'[u] # None /\ rule'[u].active
                                /\ Span'[call'[t].r] \subseteq rule'[u].days
                                /\ StaffingOk(call[t].r, u)'
    BY <1>1, <1>2, <2>2, <2>4 DEF Sound, ReadyAgrees
  <2>. QED  BY <2>3, <2>4 DEF ReadyAgrees
<1>6. CancelAgrees(t)'
  <2>1. SUFFICES ASSUME Kind(t, "cancel")' PROVE CancelAgrees(t)'
    BY DEF CancelAgrees
  <2>2. Kind(t, "cancel")
    BY <2>1 DEF Kind
  <2>. QED  BY <1>1, <1>2, <2>2 DEF Sound, CancelAgrees, ToRelease
<1>. QED  BY <1>3, <1>4, <1>5, <1>6 DEF Sound

\* Fewer absences keep a rule satisfied.
LEMMA StaffingStays ==
  ASSUME IInv, UNCHANGED plan, NEW r \in Requests, NEW u \in Rules,
         rule[u] # None, rule'[u] = rule[u], StaffingOk(r, u),
         \A q \in Requests \ {r} : Span[q] \cap Span[r] # {} /\ Holds(q)' => Holds(q)
  PROVE  StaffingOk(r, u)'
<1>1. Owner' = Owner /\ Span' = Span /\ Owner \in [Requests -> Employees]
  BY PlanShapes DEF Owner, Span, IInv
<1>2. Overlapping(r)' \subseteq Overlapping(r)
  BY <1>1 DEF Overlapping
<1>3. Overlapping(r) \subseteq Employees
  BY <1>1 DEF Overlapping
<1>4. IsFiniteSet(Overlapping(r))
  BY <1>3, RowsAssumption, FS_Subset
<1>5. /\ Cardinality(Overlapping(r)') <= Cardinality(Overlapping(r))
      /\ Cardinality(Overlapping(r)') \in Nat /\ Cardinality(Overlapping(r)) \in Nat
      /\ Cardinality(Employees) \in Nat
  BY <1>2, <1>4, RowsAssumption, FS_Subset, FS_CardinalityType
<1>6. rule[u].minimum \in Nat
  BY MinimaAssumption DEF IInv, TypeOK, RuleRows, RuleForms
<1>. QED  BY <1>5, <1>6 DEF StaffingOk

\* What a committing run writes, and on what.
LEMMA CommitWrites ==
  ASSUME IInv, NEW s \in Sessions, Commit(s)
  PROVE  LET c == call[s]
             e == Owner[c.r]
         IN  /\ Kind(s, "run") /\ c \in Runs /\ c.pc \in {"balance", "ready"}
             /\ c.r \in Requests /\ e \in Employees /\ Sound(s)
             /\ c.leave = leave[c.r] /\ c.balance = balance[e]
             /\ Desired(c) \in Nat /\ (Desired(c) > 0 => c.decision = "approved")
             /\ Delta(c) = Desired(c) - leave[c.r].reserved /\ leave[c.r].reserved \in Nat
             /\ balance[e] \in Balances
             /\ balance[e].reserved + Delta(c) \in 0..balance[e].allocated
             /\ leave' = [leave EXCEPT ![c.r] = [decision |-> c.decision, reserved |-> Desired(c)]]
             /\ balance' \in [Employees -> Balances]
             /\ \A x \in Employees \ {e} : balance'[x] = balance[x]
             /\ balance'[e].allocated = balance[e].allocated
             /\ balance'[e].reserved = balance[e].reserved + Delta(c)
<1>1. PICK c : c = call[s]
  OBVIOUS
<1>2. PICK e : e = Owner[c.r]
  OBVIOUS
<1>3. /\ Kind(s, "run") /\ c \in Runs /\ c.pc \in {"balance", "ready"}
      /\ c.r \in Requests /\ e \in Employees /\ Sound(s)
  BY <1>1, <1>2, CallShapes, KindShapes, PlanShapes DEF Commit, IInv, Runs
<1>4. c.leave = leave[c.r] /\ c.balance = balance[e]
  BY <1>1, <1>2, <1>3 DEF Sound, RunAgrees
<1>5. Desired(c) \in Nat /\ (Desired(c) > 0 => c.decision = "approved")
  BY <1>3, PlanShapes DEF Desired, IInv
<1>6. /\ Delta(c) = Desired(c) - leave[c.r].reserved /\ leave[c.r].reserved \in Nat
      /\ balance[e] \in Balances
  BY <1>3, <1>4 DEF Delta, IInv, TypeOK, Leaves
<1>7. PICK new : new = [c.balance EXCEPT !.reserved = c.balance.reserved + Delta(c)]
  OBVIOUS
<1>8. new = [balance[e] EXCEPT !.reserved = balance[e].reserved + Delta(c)]
  BY <1>4, <1>7
<1>9. new.reserved = balance[e].reserved + Delta(c) /\ new.allocated = balance[e].allocated
  BY <1>6, <1>8 DEF Balances
<1>10. /\ BalanceOk(new)
       /\ leave' = [leave EXCEPT ![c.r] = [decision |-> c.decision, reserved |-> Desired(c)]]
       /\ balance' = IF Delta(c) = 0 THEN balance
                     ELSE [balance EXCEPT ![e].reserved = new.reserved]
  BY <1>1, <1>2, <1>7 DEF Commit
<1>11. balance[e].reserved + Delta(c) \in 0..balance[e].allocated
  BY <1>5, <1>6, <1>9, <1>10 DEF BalanceOk, Balances
<1>12. /\ balance' \in [Employees -> Balances]
       /\ \A x \in Employees \ {e} : balance'[x] = balance[x]
       /\ balance'[e].allocated = balance[e].allocated
       /\ balance'[e].reserved = balance[e].reserved + Delta(c)
  <2>1. CASE Delta(c) = 0
    BY <1>3, <1>6, <1>10, <2>1 DEF IInv, TypeOK, Balances
  <2>2. CASE Delta(c) # 0
    BY <1>3, <1>6, <1>9, <1>10, <1>11, <2>2 DEF IInv, TypeOK, Balances
  <2>. QED  BY <2>1, <2>2
<1>. QED  BY <1>1, <1>2, <1>3, <1>4, <1>5, <1>6, <1>10, <1>11, <1>12

\* Only a run that is ready makes a leave hold days that it did not hold.
LEMMA OnlyReadyApproves ==
  ASSUME IInv, NEW s \in Sessions, Commit(s), NEW q \in Requests, Holds(q)', ~Holds(q)
  PROVE  q = call[s].r /\ Is(s, "run", "ready")
<1>1. PICK c : c = call[s]
  OBVIOUS
<1>2. /\ Kind(s, "run") /\ c \in Runs /\ c.pc \in {"balance", "ready"} /\ c.r \in Requests
      /\ c.leave = leave[c.r]
      /\ leave' = [leave EXCEPT ![c.r] = [decision |-> c.decision, reserved |-> Desired(c)]]
      /\ Delta(c) = Desired(c) - leave[c.r].reserved /\ leave[c.r].reserved \in Nat
      /\ Desired(c) \in Nat
  BY <1>1, CommitWrites
<1>3. leave'[q] = IF q = c.r THEN [decision |-> c.decision, reserved |-> Desired(c)] ELSE leave[q]
  BY <1>2 DEF IInv, TypeOK
<1>4. q = c.r /\ Desired(c) > 0
  BY <1>3 DEF Holds
<1>5. leave[q].reserved = 0
  BY <1>2, <1>4 DEF IInv, OnlyApprovalsHold
<1>6. Delta(c) > 0
  BY <1>2, <1>4, <1>5
<1>7. c.pc = "ready"
  BY <1>1, <1>2, <1>6 DEF Commit, Is, Releasable
<1>. QED  BY <1>1, <1>2, <1>4, <1>7 DEF Is, Kind

\* Two runs that are ready to approve leaves with a day in common would hold
\* the same rule.
LEMMA ReadyAlone ==
  ASSUME IInv, ~AdminOverlap, NEW s \in Sessions, NEW t \in Sessions, s # t,
         Is(s, "run", "ready"), NEW u \in Rules, <<"rule", u>> \in call[t].locks,
         rule[u] # None, rule[u].active, NEW r \in Requests, Span[r] \subseteq rule[u].days,
         Span[call[s].r] \cap Span[r] # {}
  PROVE  FALSE
<1>1. PICK v \in Rules : /\ <<"rule", v>> \in call[s].locks
                         /\ rule[v] # None /\ rule[v].active
                         /\ Span[call[s].r] \subseteq rule[v].days
  BY DEF IInv, Sound, ReadyAgrees
<1>2. rule[u].days \cap rule[v].days # {}
  BY <1>1
<1>3. u = v
  BY <1>1, <1>2 DEF IInv, RulesKept, RulesDisjoint
<1>. QED  BY <1>1, <1>3 DEF IInv, LocksApart

LEMMA CommitKeeps ==
  ASSUME IInv, NEW s \in Sessions, Commit(s)
  PROVE  IInv'
<1>1. PICK c : c = call[s]
  OBVIOUS
<1>2. PICK e : e = Owner[c.r]
  OBVIOUS
<1>3. /\ Kind(s, "run") /\ c \in Runs /\ c.pc \in {"balance", "ready"}
      /\ c.r \in Requests /\ e \in Employees /\ Sound(s)
      /\ c.leave = leave[c.r] /\ c.balance = balance[e]
      /\ Desired(c) \in Nat /\ (Desired(c) > 0 => c.decision = "approved")
      /\ Delta(c) = Desired(c) - leave[c.r].reserved /\ leave[c.r].reserved \in Nat
      /\ balance[e] \in Balances
      /\ balance[e].reserved + Delta(c) \in 0..balance[e].allocated
      /\ leave' = [leave EXCEPT ![c.r] = [decision |-> c.decision, reserved |-> Desired(c)]]
      /\ balance' \in [Employees -> Balances]
      /\ \A x \in Employees \ {e} : balance'[x] = balance[x]
      /\ balance'[e].allocated = balance[e].allocated
      /\ balance'[e].reserved = balance[e].reserved + Delta(c)
  BY <1>1, <1>2, CommitWrites
<1>4. PICK d : d = Ran(c)
  OBVIOUS
<1>5. /\ d \in Runs /\ d.kind = "run" /\ d.pc = "ran" /\ d.r = c.r /\ d.locks = {} /\ d # Idle
  BY <1>3, <1>4 DEF Ran, Runs, NoLeave, NoBalance, Leaves, Balances, Decisions, Idle
<1>6. /\ d \in Calls /\ call' = [call EXCEPT ![s] = d]
      /\ \A t \in Sessions : call'[t] = IF t = s THEN d ELSE call[t]
      /\ request' = [request EXCEPT ![c.r] = "open"]
      /\ UNCHANGED <<plan, rule>>
  BY <1>1, <1>4, <1>5 DEF Calls, Commit, IInv, TypeOK
<1>7. \A q \in Requests :
        leave'[q] = IF q = c.r THEN [decision |-> c.decision, reserved |-> Desired(c)] ELSE leave[q]
  BY <1>3 DEF IInv, TypeOK
<1>8. TypeOK'
  <2>1. leave' \in [Requests -> Leaves]
    BY <1>3 DEF IInv, TypeOK, Leaves, Decisions, Runs
  <2>2. \A x \in Employees : balance'[x].reserved <= balance'[x].allocated
    BY <1>3 DEF IInv, TypeOK, Balances
  <2>3. rule' \in [Rules -> RuleRows \cup {None}]' /\ request' \in [Requests -> RequestStates]
    BY <1>6 DEF IInv, TypeOK, RequestStates, RuleRows, RuleForms, Periods, Standing
  <2>4. call' \in [Sessions -> Calls']
    BY <1>6 DEF IInv, TypeOK, Calls, Edits, RuleForms, Periods
  <2>. QED  BY <1>3, <2>1, <2>2, <2>3, <2>4 DEF TypeOK
<1>9. OnlyApprovalsHold'
  BY <1>3, <1>7 DEF IInv, OnlyApprovalsHold, Holds
<1>10. ReservationsAddUp'
  <2>1. SUFFICES ASSUME ~CancelOverlap, NEW x \in Employees
                 PROVE  balance'[x].reserved = Cardinality(HeldDays(x)')
    BY <1>6 DEF ReservationsAddUp, CancelOverlap
  <2>2. balance[x].reserved = Cardinality(HeldDays(x))
    BY <2>1 DEF IInv, ReservationsAddUp
  <2>3. /\ leave \in [Requests -> Leaves] /\ leave' \in [Requests -> Leaves]
        /\ \A q \in Requests \ {c.r} : leave'[q].reserved = leave[q].reserved
        /\ leave'[c.r].reserved = Desired(c)
    BY <1>3, <1>7, <1>8 DEF IInv, TypeOK
  <2>4. /\ x # e => HeldDays(x)' = HeldDays(x)
        /\ Cardinality(HeldDays(e)') =
              Cardinality(HeldDays(e)) - leave[c.r].reserved + leave'[c.r].reserved
    BY <1>2, <1>3, <1>6, <2>3, HeldDaysChange DEF IInv
  <2>5. CASE x # e
    BY <1>3, <2>2, <2>4, <2>5
  <2>6. CASE x = e
    BY <1>3, <2>2, <2>3, <2>4, <2>6 DEF Balances
  <2>. QED  BY <2>5, <2>6
<1>11. LocksApart'
  BY <1>5, <1>6 DEF IInv, LocksApart
<1>12. Sound(s)'
  BY <1>5, <1>6 DEF Sound, LocksInOrder, RunAgrees, ReadyAgrees, CancelAgrees, Kind, Is
<1>13. ASSUME NEW t \in Sessions, t # s
       PROVE  Sound(t)'
  <2>1. call'[t] = call[t] /\ Sound(t)
    BY <1>6, <1>13 DEF IInv
  <2>2. \A l : ~(l \in call[s].locks /\ l \in call[t].locks)
    BY <1>13 DEF IInv, LocksApart
  <2>3. /\ <<"request", c.r>> \in call[s].locks
        /\ <<"balance", e>> \in call[s].locks
    BY <1>1, <1>2, <1>3 DEF Sound, RunAgrees
  <2>4. Kind(t, "run") /\ call[t].pc \in {"leave", "balance", "ready"} =>
          leave'[call[t].r] = leave[call[t].r]
    <3>1. SUFFICES ASSUME Kind(t, "run"), call[t].pc \in {"leave", "balance", "ready"}
                   PROVE  leave'[call[t].r] = leave[call[t].r]
      OBVIOUS
    <3>2. <<"request", call[t].r>> \in call[t].locks /\ call[t].r \in Requests
      BY <2>1, <3>1, CallShapes DEF Sound, RunAgrees, IInv, Runs
    <3>. QED  BY <1>7, <2>2, <2>3, <3>2
  <2>5. \A x : <<"balance", x>> \in call[t].locks => balance'[x] = balance[x]
    <3>1. SUFFICES ASSUME NEW x, <<"balance", x>> \in call[t].locks PROVE balance'[x] = balance[x]
      OBVIOUS
    <3>2. call[t] # Idle /\ ~Kind(t, "edit")
      BY <3>1, CallShapes DEF IInv, Idle
    <3>3. call[t].locks \subseteq Locks
      BY <3>2, CallShapes DEF IInv, Runs, Cancels, Edits, Kind
    <3>4. x \in Employees /\ x # e
      BY <2>2, <2>3, <3>1, <3>3 DEF Locks
    <3>. QED  BY <1>3, <3>4
  <2>6. Kind(t, "cancel") =>
          /\ leave[call[t].r].decision # "none" => leave'[call[t].r].decision # "none"
          /\ ~CancelOverlap => leave'[call[t].r] = leave[call[t].r]
    <3>1. SUFFICES ASSUME Kind(t, "cancel")
                   PROVE  /\ leave[call[t].r].decision # "none" => leave'[call[t].r].decision # "none"
                          /\ ~CancelOverlap => leave'[call[t].r] = leave[call[t].r]
      OBVIOUS
    <3>2. call[t].r \in Requests
      BY <3>1, CallShapes DEF IInv, Cancels
    <3>3. c.decision # "none"
      BY <1>3 DEF Runs
    <3>4. ~CancelOverlap => call[t].r # c.r
      BY <1>1, <1>3, <1>13, <3>1, KindShapes DEF IInv, CancelsAlone
    <3>. QED  BY <1>7, <3>2, <3>3, <3>4
  <2>7. Is(t, "run", "ready") /\ ~AdminOverlap =>
          \A u \in Rules :
            /\ <<"rule", u>> \in call[t].locks
            /\ rule[u] # None /\ rule[u].active /\ Span[call[t].r] \subseteq rule[u].days
            /\ StaffingOk(call[t].r, u)
            => rule'[u] = rule[u] /\ StaffingOk(call[t].r, u)'
    <3>1. SUFFICES ASSUME Is(t, "run", "ready"), ~AdminOverlap, NEW u \in Rules,
                          <<"rule", u>> \in call[t].locks,
                          rule[u] # None, rule[u].active, Span[call[t].r] \subseteq rule[u].days,
                          StaffingOk(call[t].r, u)
                   PROVE  StaffingOk(call[t].r, u)'
      BY <1>6
    <3>2. PICK r : r = call[t].r
      OBVIOUS
    <3>3. r \in Requests
      BY <3>1, <3>2, CallShapes, KindShapes DEF IInv, Runs
    <3>4. ASSUME NEW q \in Requests \ {r}, Span[q] \cap Span[r] # {}, Holds(q)', ~Holds(q)
          PROVE  FALSE
      <4>1. q = call[s].r /\ Is(s, "run", "ready")
        BY <3>4, OnlyReadyApproves
      <4>. QED  BY <1>13, <3>1, <3>2, <3>3, <3>4, <4>1, ReadyAlone
    <3>5. StaffingOk(r, u)'
      BY <1>6, <3>1, <3>2, <3>3, <3>4, StaffingStays
    <3>. QED  BY <2>1, <3>2, <3>5 DEF StaffingOk, Overlapping, Span, Owner, Holds
  <2>. QED  BY <1>6, <2>1, <2>4, <2>5, <2>6, <2>7, SoundStays
<1>14. CancelsAlone' /\ EditAgrees'
  <2>1. Kind(s, d.kind) /\ d.kind \in {"run", "cancel"} /\ d.r = call[s].r
    BY <1>1, <1>3, <1>5
  <2>2. \A t \in Sessions : /\ \A r : WorksOn(t, r)' => WorksOn(t, r)
                            /\ Kind(t, "cancel")' => Kind(t, "cancel") /\ call'[t].r = call[t].r
                            /\ Is(t, "edit", "editing")' =>
                                 Is(t, "edit", "editing") /\ call'[t] = call[t]
    BY <1>5, <1>6, <2>1 DEF WorksOn, Kind, Is
  <2>. QED  BY <1>6, <2>2 DEF IInv, CancelsAlone, CancelOverlap, EditAgrees, Clash
<1>15. CancelledIsOver'
  <2>1. SUFFICES ASSUME ~CancelOverlap, NEW q \in Requests, request'[q] = "cancelled"
                 PROVE  ~Holds(q)' /\ \A t \in Sessions : ~WorksOn(t, q)'
    BY <1>6 DEF CancelledIsOver, CancelOverlap
  <2>2. q # c.r /\ request[q] = "cancelled"
    BY <1>3, <1>6, <2>1 DEF IInv, TypeOK
  <2>3. ~Holds(q) /\ \A t \in Sessions : ~WorksOn(t, q)
    BY <2>1, <2>2 DEF IInv, CancelledIsOver
  <2>. QED  BY <1>5, <1>6, <1>7, <2>2, <2>3 DEF Holds, WorksOn
<1>16. RulesKept' /\ (plan \in Cases)'
  BY <1>6 DEF IInv, RulesKept, RulesDisjoint
<1>. QED  BY <1>8, <1>9, <1>10, <1>11, <1>12, <1>13, <1>14, <1>15, <1>16 DEF IInv

\* What a cancel writes when it gives days back.
LEMMA CancelWrites ==
  ASSUME IInv, NEW s \in Sessions, CancelCommit(s), ToRelease(call[s])
  PROVE  LET c == call[s]
             e == Owner[c.r]
         IN  /\ leave[c.r].decision # "none" /\ leave[c.r] \in Leaves
             /\ <<"leave", c.r>> \in c.locks /\ <<"balance", e>> \in c.locks
             /\ c.leave.reserved \in Nat /\ c.leave.decision = "approved"
             /\ ~CancelOverlap => c.leave = leave[c.r]
             /\ balance[e] \in Balances /\ c.leave.reserved <= balance[e].reserved
             /\ leave' \in [Requests -> Leaves]
             /\ \A q \in Requests \ {c.r} : leave'[q] = leave[q]
             /\ leave'[c.r] = [decision |-> "cancelled", reserved |-> 0]
             /\ balance' \in [Employees -> Balances]
             /\ \A x \in Employees \ {e} : balance'[x] = balance[x]
             /\ balance'[e].allocated = balance[e].allocated
             /\ balance'[e].reserved = balance[e].reserved - c.leave.reserved
<1>1. PICK c : c = call[s]
  OBVIOUS
<1>2. PICK e : e = Owner[c.r]
  OBVIOUS
<1>3. /\ Kind(s, "cancel") /\ c \in Cancels /\ c.pc = "updating"
      /\ c.r \in Requests /\ e \in Employees /\ Sound(s) /\ c.leave \in Leaves
  BY <1>1, <1>2, CallShapes, KindShapes, PlanShapes DEF CancelCommit, IInv, Cancels
<1>4. c.leave.reserved \in Nat /\ c.leave.reserved > 0
  BY <1>1, <1>3 DEF ToRelease, Leaves
<1>5. /\ c.leave.decision = "approved" /\ leave[c.r].decision # "none"
      /\ <<"leave", c.r>> \in c.locks /\ <<"balance", e>> \in c.locks
      /\ c.balance = balance[e] /\ c.leave.reserved <= balance[e].reserved
      /\ ~CancelOverlap => c.leave = leave[c.r]
  BY <1>1, <1>2, <1>3, <1>4 DEF Sound, CancelAgrees, ToRelease
<1>6. leave[c.r] \in Leaves /\ balance[e] \in Balances
  BY <1>3 DEF IInv, TypeOK
<1>7. PICK new : new = Released(c, leave[c.r])
  OBVIOUS
<1>8. new = [decision |-> "cancelled", reserved |-> 0]
  BY <1>5, <1>7 DEF Released
<1>9. /\ leave' = [leave EXCEPT ![c.r] = new]
      /\ balance' = [balance EXCEPT ![e].reserved = balance[e].reserved - c.leave.reserved]
  BY <1>1, <1>2, <1>5, <1>7 DEF CancelCommit
<1>10. /\ leave' \in [Requests -> Leaves] /\ leave'[c.r] = new
       /\ \A q \in Requests \ {c.r} : leave'[q] = leave[q]
  BY <1>3, <1>8, <1>9 DEF IInv, TypeOK, Leaves, Decisions
<1>11. /\ balance' \in [Employees -> Balances]
       /\ \A x \in Employees \ {e} : balance'[x] = balance[x]
       /\ balance'[e].allocated = balance[e].allocated
       /\ balance'[e].reserved = balance[e].reserved - c.leave.reserved
  BY <1>3, <1>4, <1>5, <1>6, <1>9 DEF IInv, TypeOK, Balances
<1>. QED  BY <1>1, <1>2, <1>4, <1>5, <1>6, <1>8, <1>10, <1>11

LEMMA CancelCommitKeeps ==
  ASSUME IInv, NEW s \in Sessions, CancelCommit(s)
  PROVE  IInv'
<1>1. PICK c : c = call[s]
  OBVIOUS
<1>2. PICK e : e = Owner[c.r]
  OBVIOUS
<1>3. /\ Kind(s, "cancel") /\ c \in Cancels /\ c.pc = "updating"
      /\ c.r \in Requests /\ e \in Employees /\ Sound(s)
  BY <1>1, <1>2, CallShapes, KindShapes, PlanShapes DEF CancelCommit, IInv, Cancels
<1>4. /\ Idle \in Calls /\ Idle.locks = {} /\ call' = [call EXCEPT ![s] = Idle]
      /\ \A t \in Sessions : call'[t] = IF t = s THEN Idle ELSE call[t]
      /\ request' = [request EXCEPT ![c.r] = "cancelled"]
      /\ request' \in [Requests -> RequestStates]
      /\ UNCHANGED <<plan, rule>>
  BY <1>1, <1>3 DEF Calls, Idle, CancelCommit, Return, IInv, TypeOK, RequestStates
<1>5. Sound(s)'
  BY <1>4 DEF Sound, LocksInOrder, RunAgrees, ReadyAgrees, CancelAgrees, Kind, Is
<1>6. \A t \in Sessions : /\ \A r : WorksOn(t, r)' => WorksOn(t, r) /\ t # s
                          /\ Kind(t, "cancel")' => Kind(t, "cancel") /\ call'[t].r = call[t].r
                          /\ Is(t, "edit", "editing")' =>
                               Is(t, "edit", "editing") /\ call'[t] = call[t]
  BY <1>4 DEF WorksOn, Kind, Is
<1>7. CancelsAlone' /\ EditAgrees'
  BY <1>4, <1>6 DEF IInv, CancelsAlone, CancelOverlap, EditAgrees, Clash
\* The leave of the cancelled request holds no days.
<1>8. ASSUME ~CancelOverlap, ~Holds(c.r)' , \A q \in Requests \ {c.r} : leave'[q] = leave[q]
      PROVE  CancelledIsOver'
  <2>1. SUFFICES ASSUME NEW q \in Requests, request'[q] = "cancelled"
                 PROVE  ~Holds(q)' /\ \A t \in Sessions : ~WorksOn(t, q)'
    BY DEF CancelledIsOver
  <2>2. CASE q = c.r
    <3>1. \A t \in Sessions : WorksOn(t, q) => s = t
      BY <1>1, <1>3, <1>8, <2>2 DEF IInv, CancelsAlone
    <3>. QED  BY <1>6, <1>8, <2>2, <3>1
  <2>3. CASE q # c.r
    <3>1. request[q] = "cancelled" /\ leave'[q] = leave[q]
      BY <1>3, <1>4, <1>8, <2>1, <2>3 DEF IInv, TypeOK
    <3>2. ~Holds(q) /\ \A t \in Sessions : ~WorksOn(t, q)
      BY <1>8, <3>1 DEF IInv, CancelledIsOver
    <3>. QED  BY <1>6, <3>1, <3>2 DEF Holds
  <2>. QED  BY <2>2, <2>3
<1>9. CancelOverlap' = CancelOverlap /\ (CancelOverlap => CancelledIsOver')
  BY <1>4 DEF CancelOverlap, CancelledIsOver
<1>10. CASE ~ToRelease(c)
  <2>1. UNCHANGED <<leave, balance>>
    BY <1>1, <1>10 DEF CancelCommit
  <2>2. CancelledIsOver'
    <3>1. ASSUME ~CancelOverlap PROVE ~Holds(c.r)'
      <4>1. c.leave = leave[c.r] /\ c.leave.reserved \in Nat
        BY <1>1, <1>3, <3>1 DEF Sound, CancelAgrees, Cancels, Leaves
      <4>. QED  BY <1>10, <2>1, <4>1 DEF ToRelease, Holds
    <3>2. CASE CancelOverlap
      BY <1>9, <3>2
    <3>3. CASE ~CancelOverlap
      BY <1>8, <2>1, <3>1, <3>3
    <3>. QED  BY <3>2, <3>3
  <2>. QED  BY <1>4, <1>5, <1>7, <2>1, <2>2, RowsStand
<1>11. CASE ToRelease(c)
  <2>1. /\ leave[c.r].decision # "none" /\ leave[c.r] \in Leaves
        /\ <<"leave", c.r>> \in call[s].locks /\ <<"balance", e>> \in call[s].locks
        /\ c.leave.reserved \in Nat /\ c.leave.decision = "approved"
        /\ ~CancelOverlap => c.leave = leave[c.r]
        /\ balance[e] \in Balances /\ c.leave.reserved <= balance[e].reserved
        /\ leave' \in [Requests -> Leaves]
        /\ \A q \in Requests \ {c.r} : leave'[q] = leave[q]
        /\ leave'[c.r] = [decision |-> "cancelled", reserved |-> 0]
        /\ balance' \in [Employees -> Balances]
        /\ \A x \in Employees \ {e} : balance'[x] = balance[x]
        /\ balance'[e].allocated = balance[e].allocated
        /\ balance'[e].reserved = balance[e].reserved - c.leave.reserved
    BY <1>1, <1>2, <1>11, CancelWrites
  <2>2. TypeOK'
    <3>1. \A x \in Employees : balance'[x].reserved <= balance'[x].allocated
      BY <1>3, <2>1 DEF IInv, TypeOK, Balances
    <3>2. rule' \in [Rules -> RuleRows \cup {None}]'
      BY <1>4 DEF IInv, TypeOK, RuleRows, RuleForms, Periods, Standing
    <3>3. call' \in [Sessions -> Calls']
      BY <1>4 DEF IInv, TypeOK, Calls, Edits, RuleForms, Periods
    <3>. QED  BY <1>4, <2>1, <3>1, <3>2, <3>3 DEF TypeOK
  <2>3. OnlyApprovalsHold'
    <3>1. SUFFICES ASSUME NEW q \in Requests, leave'[q].reserved > 0 PROVE Holds(q)'
      BY DEF OnlyApprovalsHold
    <3>2. leave'[q] = leave[q]
      BY <2>1, <3>1
    <3>. QED  BY <3>1, <3>2 DEF IInv, OnlyApprovalsHold, Holds
  <2>4. \A q \in Requests : Holds(q)' => Holds(q)
    BY <2>1 DEF Holds
  <2>5. ReservationsAddUp'
    <3>1. SUFFICES ASSUME ~CancelOverlap, NEW x \in Employees
                   PROVE  balance'[x].reserved = Cardinality(HeldDays(x)')
      BY <1>4 DEF ReservationsAddUp, CancelOverlap
    <3>2. balance[x].reserved = Cardinality(HeldDays(x))
      BY <3>1 DEF IInv, ReservationsAddUp
    <3>3. /\ leave \in [Requests -> Leaves] /\ leave' \in [Requests -> Leaves]
          /\ plan \in Cases /\ UNCHANGED plan /\ c.r \in Requests
      BY <1>3, <1>4, <2>1 DEF IInv, TypeOK
    <3>4. /\ \A q \in Requests \ {c.r} : leave'[q].reserved = leave[q].reserved
          /\ leave'[c.r].reserved = 0 /\ leave[c.r].reserved = c.leave.reserved
      BY <2>1, <3>1
    <3>5. /\ x # e => HeldDays(x)' = HeldDays(x)
          /\ Cardinality(HeldDays(e)') =
                Cardinality(HeldDays(e)) - leave[c.r].reserved + leave'[c.r].reserved
      BY <1>2, <3>3, <3>4, HeldDaysChange
    <3>6. CASE x # e
      BY <2>1, <3>2, <3>5, <3>6
    <3>7. CASE x = e
      BY <2>1, <3>2, <3>4, <3>5, <3>7 DEF Balances
    <3>. QED  BY <3>6, <3>7
  <2>6. LocksApart'
    BY <1>4 DEF IInv, LocksApart
  <2>7. ASSUME NEW t \in Sessions, t # s
        PROVE  Sound(t)'
    <3>1. call'[t] = call[t] /\ Sound(t)
      BY <1>4, <2>7 DEF IInv
    <3>2. \A l : ~(l \in call[s].locks /\ l \in call[t].locks)
      BY <2>7 DEF IInv, LocksApart
    <3>3. Kind(t, "run") /\ call[t].pc \in {"leave", "balance", "ready"} =>
            leave'[call[t].r] = leave[call[t].r]
      <4>1. SUFFICES ASSUME Kind(t, "run"), call[t].pc \in {"leave", "balance", "ready"}
                     PROVE  leave'[call[t].r] = leave[call[t].r]
        OBVIOUS
      <4>2. /\ leave[call[t].r].decision # "none" => <<"leave", call[t].r>> \in call[t].locks
            /\ call[t].r \in Requests
        BY <3>1, <4>1, CallShapes DEF Sound, RunAgrees, IInv, Runs
      <4>. QED  BY <2>1, <3>2, <4>2
    <3>4. \A x : <<"balance", x>> \in call[t].locks => balance'[x] = balance[x]
      <4>1. SUFFICES ASSUME NEW x, <<"balance", x>> \in call[t].locks PROVE balance'[x] = balance[x]
        OBVIOUS
      <4>2. call[t] # Idle /\ ~Kind(t, "edit")
        BY <4>1, CallShapes DEF IInv, Idle
      <4>3. call[t].locks \subseteq Locks
        BY <4>2, CallShapes DEF IInv, Runs, Cancels, Edits, Kind
      <4>4. x \in Employees /\ x # e
        BY <2>1, <3>2, <4>1, <4>3 DEF Locks
      <4>. QED  BY <2>1, <4>4
    <3>5. Kind(t, "cancel") =>
            /\ leave[call[t].r].decision # "none" => leave'[call[t].r].decision # "none"
            /\ ~CancelOverlap => leave'[call[t].r] = leave[call[t].r]
      <4>1. SUFFICES ASSUME Kind(t, "cancel")
                     PROVE  /\ leave[call[t].r].decision # "none" => leave'[call[t].r].decision # "none"
                            /\ ~CancelOverlap => leave'[call[t].r] = leave[call[t].r]
        OBVIOUS
      <4>2. call[t].r \in Requests
        BY <4>1, CallShapes DEF IInv, Cancels
      <4>3. ~CancelOverlap => call[t].r # c.r
        BY <1>1, <1>3, <2>7, <4>1, KindShapes DEF IInv, CancelsAlone
      <4>. QED  BY <2>1, <4>2, <4>3
    <3>6. Is(t, "run", "ready") /\ ~AdminOverlap =>
            \A u \in Rules :
              /\ <<"rule", u>> \in call[t].locks
              /\ rule[u] # None /\ rule[u].active /\ Span[call[t].r] \subseteq rule[u].days
              /\ StaffingOk(call[t].r, u)
              => rule'[u] = rule[u] /\ StaffingOk(call[t].r, u)'
      <4>1. SUFFICES ASSUME Is(t, "run", "ready"), NEW u \in Rules, rule[u] # None,
                            StaffingOk(call[t].r, u)
                     PROVE  StaffingOk(call[t].r, u)'
        BY <1>4
      <4>2. PICK r : r = call[t].r
        OBVIOUS
      <4>3. r \in Requests
        BY <4>1, <4>2, CallShapes, KindShapes DEF IInv, Runs
      <4>4. StaffingOk(r, u)'
        BY <1>4, <2>4, <4>1, <4>2, <4>3, StaffingStays
      <4>. QED  BY <3>1, <4>2, <4>4 DEF StaffingOk, Overlapping, Span, Owner, Holds
    <3>. QED  BY <1>4, <3>1, <3>3, <3>4, <3>5, <3>6, SoundStays
  <2>8. CancelledIsOver'
    <3>1. ~Holds(c.r)'
      BY <2>1 DEF Holds
    <3>2. CASE CancelOverlap
      BY <1>9, <3>2
    <3>3. CASE ~CancelOverlap
      BY <1>8, <2>1, <3>1, <3>3
    <3>. QED  BY <3>2, <3>3
  <2>9. RulesKept' /\ (plan \in Cases)'
    BY <1>4 DEF IInv, RulesKept, RulesDisjoint
  <2>. QED  BY <1>5, <1>7, <2>2, <2>3, <2>5, <2>6, <2>7, <2>8, <2>9 DEF IInv
<1>. QED  BY <1>10, <1>11

\* A rule that nobody has locked may change.
LEMMA RuleChanges ==
  ASSUME IInv, UNCHANGED <<plan, leave, balance>>, NEW t \in Sessions, call'[t] = call[t],
         \A u \in Rules : <<"rule", u>> \in call[t].locks => rule'[u] = rule[u]
  PROVE  Sound(t)'
<1>1. Is(t, "run", "ready") /\ ~AdminOverlap =>
        \A u \in Rules :
          /\ <<"rule", u>> \in call[t].locks
          /\ rule[u] # None /\ rule[u].active /\ Span[call[t].r] \subseteq rule[u].days
          /\ StaffingOk(call[t].r, u)
          => rule'[u] = rule[u] /\ StaffingOk(call[t].r, u)'
  BY DEF StaffingOk, Overlapping, Span, Owner, Holds
<1>. QED  BY <1>1, SoundStays

LEMMA EditWriteKeeps ==
  ASSUME IInv, NEW s \in Sessions, EditWrite(s)
  PROVE  IInv'
<1>1. PICK c : c = call[s]
  OBVIOUS
<1>2. Kind(s, "edit") /\ c \in Edits /\ c.u \in Rules /\ c.new \in RuleForms(Periods)
  BY <1>1, CallShapes, KindShapes DEF EditWrite, IInv, Edits
<1>3. /\ Idle \in Calls /\ Idle.locks = {}
      /\ \A t \in Sessions : call'[t] = IF t = s THEN Idle ELSE call[t]
      /\ call' \in [Sessions -> Calls]
      /\ UNCHANGED <<plan, leave, balance, request>>
      /\ LockFree(s, <<"rule", c.u>>)
      /\ rule' = rule \/ rule' = [rule EXCEPT ![c.u] = c.new]
  BY <1>1 DEF Calls, Idle, EditWrite, Return, IInv, TypeOK
<1>4. rule' \in [Rules -> RuleRows \cup {None}]
  BY <1>2, <1>3 DEF IInv, TypeOK, RuleRows, RuleForms
<1>5. \A u \in Rules : rule'[u] = rule[u] \/ (u = c.u /\ rule'[u] = c.new)
  BY <1>2, <1>3 DEF IInv, TypeOK
<1>6. TypeOK'
  BY <1>3, <1>4 DEF IInv, TypeOK, Calls, Edits, RuleRows, RuleForms, Periods, Standing
<1>7. OnlyApprovalsHold' /\ ReservationsAddUp' /\ (plan \in Cases)'
  BY <1>3 DEF IInv, OnlyApprovalsHold, Holds, ReservationsAddUp, HeldDays, CancelOverlap, Owner
<1>8. LocksApart'
  BY <1>3 DEF IInv, LocksApart
<1>9. \A t \in Sessions : Sound(t)'
  <2>1. Sound(s)'
    BY <1>3 DEF Sound, LocksInOrder, RunAgrees, ReadyAgrees, CancelAgrees, Kind, Is
  <2>2. ASSUME NEW t \in Sessions, t # s PROVE Sound(t)'
    <3>1. \A u \in Rules : <<"rule", u>> \in call[t].locks => rule'[u] = rule[u]
      BY <1>3, <1>5, <2>2 DEF LockFree
    <3>. QED  BY <1>3, <2>2, <3>1, RuleChanges
  <2>. QED  BY <2>1, <2>2
<1>10. \A t \in Sessions : /\ \A r : WorksOn(t, r)' => WorksOn(t, r)
                           /\ Kind(t, "cancel")' => Kind(t, "cancel") /\ call'[t].r = call[t].r
                           /\ Is(t, "edit", "editing")' => Is(t, "edit", "editing") /\ t # s
  BY <1>3 DEF WorksOn, Kind, Is
<1>11. CancelsAlone'
  BY <1>3, <1>10 DEF IInv, CancelsAlone, CancelOverlap
<1>12. CancelledIsOver'
  BY <1>3, <1>10 DEF IInv, CancelledIsOver, CancelOverlap, Holds
<1>13. EditAgrees' /\ RulesKept'
  <2>1. SUFFICES ASSUME ~AdminOverlap PROVE EditAgrees' /\ RulesDisjoint'
    BY DEF EditAgrees, RulesKept
  <2>2. Is(s, "edit", "editing") /\ ~Clash(c.u, c.new)
    BY <1>1, <2>1 DEF EditWrite, IInv, EditAgrees
  <2>3. \A t \in Sessions : Is(t, "edit", "editing") => t = s
    BY <2>1, <2>2 DEF IInv, EditAgrees
  <2>4. EditAgrees'
    BY <1>10, <2>3 DEF EditAgrees
  <2>5. RulesDisjoint
    BY <2>1 DEF IInv, RulesKept
  <2>6. \A v \in Rules \ {c.u} : rule[v] # None /\ rule[v].active => rule[v].days \cap c.new.days = {}
    BY <2>2 DEF Clash
  <2>7. RulesDisjoint'
    <3>1. SUFFICES ASSUME NEW u \in Rules, NEW v \in Rules, u # v,
                          rule'[u] # None, rule'[u].active, rule'[v] # None, rule'[v].active
                   PROVE  rule'[u].days \cap rule'[v].days = {}
      BY DEF RulesDisjoint
    <3>2. CASE rule'[u] = rule[u] /\ rule'[v] = rule[v]
      BY <2>5, <3>1, <3>2 DEF RulesDisjoint
    <3>3. CASE rule'[u] # rule[u]
      BY <1>5, <2>6, <3>1, <3>3
    <3>4. CASE rule'[v] # rule[v]
      BY <1>5, <2>6, <3>1, <3>4
    <3>. QED  BY <3>2, <3>3, <3>4
  <2>. QED  BY <2>4, <2>7
<1>. QED  BY <1>6, <1>7, <1>8, <1>9, <1>11, <1>12, <1>13 DEF IInv

LEMMA DeleteRuleKeeps ==
  ASSUME IInv, NEW u \in Rules, DeleteRule(u)
  PROVE  IInv'
<1>1. /\ rule' = [rule EXCEPT ![u] = None] /\ Unlocked(<<"rule", u>>)
      /\ UNCHANGED <<plan, leave, balance, request, call>>
  BY DEF DeleteRule
<1>2. \A v \in Rules : rule'[v] = IF v = u THEN None ELSE rule[v]
  BY <1>1 DEF IInv, TypeOK
<1>3. rule' \in [Rules -> RuleRows \cup {None}]
  BY <1>1 DEF IInv, TypeOK
<1>4. TypeOK'
  BY <1>1, <1>3 DEF IInv, TypeOK, Calls, Edits, RuleRows, RuleForms, Periods, Standing
<1>5. OnlyApprovalsHold' /\ ReservationsAddUp' /\ (plan \in Cases)' /\ LocksApart'
  BY <1>1 DEF IInv, OnlyApprovalsHold, Holds, ReservationsAddUp, HeldDays, CancelOverlap, Owner,
              LocksApart
<1>6. ASSUME NEW t \in Sessions PROVE Sound(t)'
  <2>1. \A v \in Rules : <<"rule", v>> \in call[t].locks => rule'[v] = rule[v]
    BY <1>1, <1>2 DEF Unlocked
  <2>. QED  BY <1>1, <2>1, RuleChanges
<1>7. CancelsAlone' /\ CancelledIsOver'
  BY <1>1 DEF IInv, CancelsAlone, CancelledIsOver, CancelOverlap, Kind, WorksOn, Holds
<1>8. EditAgrees'
  <2>1. \A v, new : Clash(v, new)' => Clash(v, new)
    BY <1>2 DEF Clash
  <2>. QED  BY <1>1, <2>1 DEF IInv, EditAgrees, Is
<1>9. RulesKept'
  BY <1>2 DEF IInv, RulesKept, RulesDisjoint
<1>. QED  BY <1>4, <1>5, <1>6, <1>7, <1>8, <1>9 DEF IInv

LEMMA AllocateKeeps ==
  ASSUME IInv, NEW e \in Employees, Allocate(e)
  PROVE  IInv'
<1>1. PICK a \in Allotments : /\ BalanceOk([balance[e] EXCEPT !.allocated = a])
                              /\ balance' = [balance EXCEPT ![e].allocated = a]
  BY DEF Allocate
<1>2. UNCHANGED <<plan, leave, rule, request, call>> /\ Unlocked(<<"balance", e>>)
  BY DEF Allocate
<1>3. a \in Nat /\ balance[e] \in Balances
  BY PlanShapes DEF IInv, TypeOK
<1>4. /\ balance' \in [Employees -> Balances]
      /\ \A x \in Employees \ {e} : balance'[x] = balance[x]
      /\ balance'[e].reserved = balance[e].reserved /\ balance'[e].allocated = a
  BY <1>1, <1>3 DEF IInv, TypeOK, Balances
<1>5. balance[e].reserved <= a
  BY <1>1, <1>3 DEF BalanceOk, Balances
<1>6. TypeOK'
  <2>1. \A x \in Employees : balance'[x].reserved <= balance'[x].allocated
    BY <1>4, <1>5 DEF IInv, TypeOK
  <2>. QED  BY <1>2, <1>4, <2>1 DEF IInv, TypeOK, Calls, Edits, RuleRows, RuleForms, Periods, Standing
<1>7. OnlyApprovalsHold' /\ (plan \in Cases)' /\ LocksApart'
  BY <1>2 DEF IInv, OnlyApprovalsHold, Holds, LocksApart
<1>8. ReservationsAddUp'
  <2>1. \A x \in Employees : balance'[x].reserved = balance[x].reserved
    BY <1>4
  <2>. QED  BY <1>2, <2>1 DEF IInv, ReservationsAddUp, HeldDays, CancelOverlap, Owner
<1>9. ASSUME NEW t \in Sessions PROVE Sound(t)'
  <2>1. \A x : <<"balance", x>> \in call[t].locks => balance'[x] = balance[x]
    <3>1. SUFFICES ASSUME NEW x, <<"balance", x>> \in call[t].locks PROVE balance'[x] = balance[x]
      OBVIOUS
    <3>2. call[t] # Idle /\ ~Kind(t, "edit")
      BY <3>1, CallShapes DEF IInv, Idle
    <3>3. call[t].locks \subseteq Locks
      BY <3>2, CallShapes DEF IInv, Runs, Cancels, Edits, Kind
    <3>4. x \in Employees /\ x # e
      BY <1>2, <3>1, <3>3 DEF Locks, Unlocked
    <3>. QED  BY <1>4, <3>4
  <2>2. Is(t, "run", "ready") /\ ~AdminOverlap =>
          \A u \in Rules :
            /\ <<"rule", u>> \in call[t].locks
            /\ rule[u] # None /\ rule[u].active /\ Span[call[t].r] \subseteq rule[u].days
            /\ StaffingOk(call[t].r, u)
            => rule'[u] = rule[u] /\ StaffingOk(call[t].r, u)'
    BY <1>2 DEF StaffingOk, Overlapping, Span, Owner, Holds
  <2>. QED  BY <1>2, <2>1, <2>2, SoundStays
<1>10. CancelsAlone' /\ CancelledIsOver'
  BY <1>2 DEF IInv, CancelsAlone, CancelledIsOver, CancelOverlap, Kind, WorksOn, Holds
<1>11. EditAgrees' /\ RulesKept'
  BY <1>2 DEF IInv, EditAgrees, Is, Clash, RulesKept, RulesDisjoint
<1>. QED  BY <1>6, <1>7, <1>8, <1>9, <1>10, <1>11 DEF IInv

-----------------------------------------------------------------------------
(* The invariant.                                                          *)

LEMMA InitIInv == Init => IInv
<1>1. SUFFICES ASSUME Init PROVE IInv
  OBVIOUS
<1>2. /\ plan \in Cases /\ Owner \in [Requests -> Employees] /\ Allotments \subseteq Nat
      /\ leave = [r \in Requests |-> NoLeave]
      /\ balance \in [Employees -> [allocated : Allotments, reserved : {0}]]
      /\ rule \in [Rules -> RuleForms(Standing) \cup {None}]
      /\ call = [s \in Sessions |-> Idle]
      /\ request = [r \in Requests |-> "open"]
  <2>1. plan \in Cases
    BY <1>1 DEF Init
  <2>2. Owner \in [Requests -> Employees] /\ Allotments \subseteq Nat
    BY <2>1, PlanShapes
  <2>. QED  BY <1>1, <2>1, <2>2 DEF Init
<1>3. TypeOK
  <2>1. leave \in [Requests -> Leaves]
    BY <1>2 DEF NoLeave, Leaves, Decisions
  <2>2. \A e \in Employees : /\ balance[e] \in Balances /\ balance[e].reserved = 0
                             /\ balance[e].reserved <= balance[e].allocated
    <3>1. SUFFICES ASSUME NEW e \in Employees
                   PROVE  /\ balance[e] \in Balances /\ balance[e].reserved = 0
                          /\ balance[e].reserved <= balance[e].allocated
      OBVIOUS
    <3>2. balance[e] \in [allocated : Allotments, reserved : {0}]
      BY <1>2
    <3>3. balance[e].reserved = 0 /\ balance[e].allocated \in Nat
      BY <1>2, <3>2
    <3>4. balance[e] = [allocated |-> balance[e].allocated, reserved |-> balance[e].reserved]
      BY <3>2
    <3>5. balance[e] \in Balances
      BY <3>3, <3>4 DEF Balances
    <3>. QED  BY <3>3, <3>5
  <2>3. rule \in [Rules -> RuleRows \cup {None}]
    BY <1>2 DEF RuleRows, RuleForms
  <2>. QED  BY <1>2, <2>1, <2>2, <2>3 DEF TypeOK, RequestStates, Calls
<1>4. OnlyApprovalsHold
  BY <1>2 DEF OnlyApprovalsHold, NoLeave
<1>5. ReservationsAddUp
  <2>1. SUFFICES ASSUME NEW e \in Employees
                 PROVE  balance[e].reserved = Cardinality(HeldDays(e))
    BY DEF ReservationsAddUp
  <2>2. HeldDays(e) = {}
    BY <1>2 DEF HeldDays, NoLeave
  <2>3. balance[e].reserved = 0
    BY <1>2
  <2>. QED  BY <2>2, <2>3, FS_EmptySet
<1>6. LocksApart /\ \A s \in Sessions : Sound(s)
  BY <1>2 DEF LocksApart, Sound, LocksInOrder, RunAgrees, ReadyAgrees, CancelAgrees, Kind, Is, Idle
<1>7. CancelsAlone /\ CancelledIsOver /\ EditAgrees
  BY <1>2 DEF CancelsAlone, CancelledIsOver, EditAgrees, Kind, Is
<1>8. RulesKept
  <2>1. SUFFICES ASSUME NEW u \in Rules, NEW v \in Rules, u # v, rule[u] # None,
                        rule[v] # None, rule[v].active
                 PROVE  rule[u].days \cap rule[v].days = {}
    BY DEF RulesKept, RulesDisjoint
  <2>2. ~Clash(u, rule[u])
    BY <1>1, <2>1 DEF Init
  <2>. QED  BY <2>1, <2>2 DEF Clash
<1>. QED  BY <1>2, <1>3, <1>4, <1>5, <1>6, <1>7, <1>8 DEF IInv

LEMMA NextKeeps ==
  ASSUME IInv, [Next]_vars
  PROVE  IInv'
<1>1. CASE UNCHANGED vars
  <2>1. UNCHANGED <<plan, leave, balance, rule, request, call>>
    BY <1>1 DEF vars
  <2>2. \A t \in Sessions : Sound(t)'
    BY <2>1, OthersStaySound DEF IInv
  <2>3. TypeOK' /\ OnlyApprovalsHold' /\ ReservationsAddUp' /\ LocksApart'
    BY <2>1 DEF IInv, TypeOK, Calls, Edits, RuleRows, RuleForms, Periods, Standing,
                OnlyApprovalsHold, Holds, ReservationsAddUp, HeldDays, CancelOverlap, Owner, LocksApart
  <2>4. CancelsAlone' /\ CancelledIsOver' /\ EditAgrees' /\ RulesKept'
    BY <2>1 DEF IInv, CancelsAlone, CancelledIsOver, CancelOverlap, Kind, WorksOn, Holds,
                EditAgrees, Is, Clash, RulesKept, RulesDisjoint
  <2>. QED  BY <2>1, <2>2, <2>3, <2>4 DEF IInv
<1>2. ASSUME NEW s \in Sessions, NEW r \in Requests, Decide(s, r) \/ CancelRead(s, r)
      PROVE  IInv'
  BY <1>2, DecideKeeps, CancelReadKeeps
<1>3. ASSUME NEW s \in Sessions, Run(s)
      PROVE  IInv'
  <2>1. CASE Wait(s)
    BY <2>1, EndKeeps DEF Wait
  <2>. QED  BY <1>3, <2>1, LockRequestKeeps, LockLeaveKeeps, LockBalanceKeeps, LockRuleKeeps,
               CommitKeeps, RefuseKeeps, CloseKeeps DEF Run
<1>4. ASSUME NEW s \in Sessions, Cancel(s)
      PROVE  IInv'
  <2>1. CASE CancelRefuse(s)
    BY <2>1, EndKeeps DEF CancelRefuse
  <2>. QED  BY <1>4, <2>1, CancelLockLeaveKeeps, CancelLockBalanceKeeps, CancelCommitKeeps DEF Cancel
<1>5. ASSUME NEW s \in Sessions, Rollback(s)
      PROVE  IInv'
  BY <1>5, EndKeeps DEF Rollback
<1>6. ASSUME NEW s \in Sessions, NEW u \in Rules, NEW new \in RuleForms(Periods),
             EditCheck(s, u, new)
      PROVE  IInv'
  BY <1>6, EditCheckKeeps
<1>7. ASSUME NEW s \in Sessions, EditWrite(s)
      PROVE  IInv'
  BY <1>7, EditWriteKeeps
<1>8. ASSUME NEW u \in Rules, DeleteRule(u)
      PROVE  IInv'
  BY <1>8, DeleteRuleKeeps
<1>9. ASSUME NEW e \in Employees, Allocate(e)
      PROVE  IInv'
  BY <1>9, AllocateKeeps
<1>. QED  BY <1>1, <1>2, <1>3, <1>4, <1>5, <1>6, <1>7, <1>8, <1>9 DEF Next

\* Every reachable state satisfies the inductive invariant.
THEOREM LeaveInvariant == Spec => []IInv
<1>1. IInv /\ [Next]_vars => IInv'
  BY NextKeeps
<1>. QED  BY InitIInv, <1>1, PTL DEF Spec

\* The books agree in every reachable state: rows have their types, no balance is
\* overdrawn, days are held by approvals only, and a balance has reserved the days
\* its employee's leaves hold (departments/hr/tools.py, departments/hr/service.py).
THEOREM BooksStayAgreed == Spec => []BooksAgree
<1>1. IInv => BooksAgree
  BY DEF IInv, BooksAgree
<1>. QED  BY LeaveInvariant, <1>1, PTL

\* A cancelled request that nobody works on holds no days, as long as no cancel
\* overlaps another handler of its request.
THEOREM CancelsGiveBack == Spec => []CancelledHoldsNothing
<1>1. IInv => CancelledHoldsNothing
  BY DEF IInv, CancelledIsOver, CancelledHoldsNothing
<1>. QED  BY LeaveInvariant, <1>1, PTL

\* What a session waits for, by where it is.
LEMMA WantedShapes ==
  ASSUME NEW s \in Sessions, NEW l \in Wanted(s)
  PROVE  \/ Kind(s, "run") /\ call[s].pc = "decided" /\ l = <<"request", call[s].r>>
         \/ Kind(s, "run") /\ call[s].pc = "request" /\ l = <<"leave", call[s].r>>
         \/ Kind(s, "run") /\ call[s].pc = "leave" /\ l = <<"balance", Owner[call[s].r]>>
         \/ Kind(s, "run") /\ call[s].pc = "balance" /\ l \in {"rule"} \X Rules
         \/ Kind(s, "edit") /\ l = <<"rule", call[s].u>>
         \/ Kind(s, "cancel") /\ call[s].pc = "cancelling" /\ l = <<"leave", call[s].r>>
         \/ Kind(s, "cancel") /\ call[s].pc = "releasing" /\ l = <<"balance", Owner[call[s].r]>>
         \/ Kind(s, "cancel") /\ call[s].pc = "updating" /\ l = <<"request", call[s].r>>
BY DEF Wanted, Is, Kind, LeaveLock, BalanceLock, RuleLock, RuleLocks, Applicable, Covering

\* A staffing rule is locked by runs that are ready to commit and wait for nobody.
LEMMA RuleHolders ==
  ASSUME IInv, NEW t \in Sessions, NEW u, <<"rule", u>> \in call[t].locks
  PROVE  Wanted(t) = {} /\ call[t] # Idle
<1>1. LocksInOrder(t) /\ call[t].locks # {}
  BY DEF IInv, Sound
<1>2. Kind(t, "run") \/ Kind(t, "cancel")
  BY <1>1, CallShapes DEF IInv, Kind, Runs, Cancels, Edits, Idle
<1>3. Kind(t, "run") /\ call[t].pc = "ready"
  BY <1>1, <1>2 DEF LocksInOrder
<1>. QED  BY <1>3 DEF Wanted, Is, Kind

\* Who waits for a call that waits itself, is a run or a cancel before its last lock.
LEMMA Waiters ==
  ASSUME IInv, NEW s \in Sessions, NEW t \in Sessions, NEW l \in Wanted(s),
         l \in call[t].locks, Wanted(t) # {}
  PROVE  \/ Kind(s, "run") /\ call[s].pc = "decided" /\ l = <<"request", call[s].r>>
         \/ Kind(s, "run") /\ call[s].pc = "request" /\ l = <<"leave", call[s].r>>
         \/ Kind(s, "run") /\ call[s].pc = "leave" /\ l = <<"balance", Owner[call[s].r]>>
         \/ Kind(s, "cancel") /\ call[s].pc = "cancelling" /\ l = <<"leave", call[s].r>>
         \/ Kind(s, "cancel") /\ call[s].pc = "releasing" /\ l = <<"balance", Owner[call[s].r]>>
         \/ Kind(s, "cancel") /\ call[s].pc = "updating" /\ l = <<"request", call[s].r>>
<1>1. \A u : l # <<"rule", u>>
  BY RuleHolders
<1>2. l \notin {"rule"} \X Rules
  BY <1>1
<1>. QED  BY <1>1, <1>2, WantedShapes

\* Of all the handlers only a run and a cancel of one leave can wait for each
\* other, so the database's detector is the only thing needed to go on.
THEOREM CirclesAreOfOneLeave == Spec => []OneCircle
<1>1. ASSUME IInv PROVE OneCircle
  <2>1. SUFFICES ASSUME NEW s \in Sessions, NEW t \in Sessions, WaitsFor(s, t), WaitsFor(t, s)
                 PROVE  call[s].kind # call[t].kind /\ call[s].r = call[t].r
    BY DEF OneCircle
  <2>2. PICK l \in Wanted(s) : l \in call[t].locks
    BY <2>1 DEF WaitsFor
  <2>3. PICK m \in Wanted(t) : m \in call[s].locks
    BY <2>1 DEF WaitsFor
  <2>4. LocksInOrder(s) /\ LocksInOrder(t)
    BY <1>1 DEF IInv, Sound
  <2>5. CASE Kind(s, "run") /\ Kind(t, "run")
    <3>1. call[s].pc \in {"decided", "request", "leave"} /\ call[t].pc \in {"decided", "request", "leave"}
      BY <1>1, <2>2, <2>3, <2>5, Waiters, KindShapes
    <3>2. /\ \A x \in call[s].locks : \/ call[s].pc # "decided" /\ x = <<"request", call[s].r>>
                                      \/ call[s].pc = "leave" /\ x = <<"leave", call[s].r>>
          /\ \A x \in call[t].locks : \/ call[t].pc # "decided" /\ x = <<"request", call[t].r>>
                                      \/ call[t].pc = "leave" /\ x = <<"leave", call[t].r>>
      BY <2>4, <2>5, <3>1 DEF LocksInOrder
    <3>. QED  BY <2>2, <2>3, <2>5, <3>2, WantedShapes, KindShapes
  <2>6. CASE Kind(s, "cancel") /\ Kind(t, "cancel")
    <3>1. /\ \A x \in call[s].locks : \/ call[s].pc # "cancelling" /\ x = <<"leave", call[s].r>>
                                      \/ call[s].pc = "updating" /\ x = <<"balance", Owner[call[s].r]>>
          /\ \A x \in call[t].locks : \/ call[t].pc # "cancelling" /\ x = <<"leave", call[t].r>>
                                      \/ call[t].pc = "updating" /\ x = <<"balance", Owner[call[t].r]>>
      BY <2>4, <2>6 DEF LocksInOrder
    <3>. QED  BY <2>2, <2>3, <2>6, <3>1, WantedShapes, KindShapes
  <2>7. ASSUME NEW a \in Sessions, NEW b \in Sessions, Kind(a, "run"), Kind(b, "cancel"),
               NEW x \in Wanted(a), x \in call[b].locks, NEW y \in Wanted(b), y \in call[a].locks,
               LocksInOrder(a), LocksInOrder(b)
        PROVE  call[a].r = call[b].r
    <3>1. call[a].pc \in {"request", "leave"}
      BY <2>7, WantedShapes, KindShapes DEF LocksInOrder
    <3>2. \/ y = <<"request", call[a].r>>
          \/ call[a].pc = "leave" /\ y = <<"leave", call[a].r>>
      BY <2>7, <3>1 DEF LocksInOrder
    <3>3. \/ x = <<"leave", call[b].r>>
          \/ call[b].pc = "updating" /\ x = <<"balance", Owner[call[b].r]>>
      BY <2>7 DEF LocksInOrder
    <3>4. \/ call[a].pc = "request" /\ x = <<"leave", call[a].r>>
          \/ call[a].pc = "leave" /\ x = <<"balance", Owner[call[a].r]>>
      BY <2>7, <3>1, WantedShapes, KindShapes
    <3>5. \/ y = <<"leave", call[b].r>>
          \/ y = <<"balance", Owner[call[b].r]>>
          \/ y = <<"request", call[b].r>>
      BY <2>7, WantedShapes, KindShapes
    <3>. QED  BY <3>2, <3>3, <3>4, <3>5
  <2>8. (Kind(s, "run") \/ Kind(s, "cancel")) /\ (Kind(t, "run") \/ Kind(t, "cancel"))
    BY <1>1, <2>2, <2>3, Waiters
  <2>9. CASE Kind(s, "run") /\ Kind(t, "cancel")
    BY <2>2, <2>3, <2>4, <2>7, <2>9 DEF Kind
  <2>10. CASE Kind(s, "cancel") /\ Kind(t, "run")
    BY <2>2, <2>3, <2>4, <2>7, <2>10 DEF Kind
  <2>. QED  BY <2>5, <2>6, <2>8, <2>9, <2>10
<1>2. IInv => OneCircle
  BY <1>1
<1>. QED  BY LeaveInvariant, <1>2, PTL

\* If every call waited and no two for each other, nobody could hold a lock: a
\* cancel that holds one waits in the end for a run that waits for it.
LEMMA SomeoneAlwaysGoesOn ==
  ASSUME IInv
  PROVE  SomeoneGoesOn
<1>1. SUFFICES ASSUME NEW z \in Sessions, call[z] # Idle,
                      \A s \in Sessions : call[s] # Idle =>
                        /\ \E t \in Sessions : WaitsFor(s, t)
                        /\ \A t \in Sessions : ~(WaitsFor(s, t) /\ WaitsFor(t, s))
               PROVE  FALSE
  BY DEF SomeoneGoesOn
<1>2. \A s \in Sessions : call[s].locks # {} => call[s] # Idle /\ (Kind(s, "run") \/ Kind(s, "cancel"))
  BY CallShapes DEF IInv, Kind, Runs, Cancels, Edits, Idle
<1>3. \A s \in Sessions : call[s] # Idle => Wanted(s) # {}
  BY <1>1 DEF WaitsFor
<1>4. ASSUME NEW s \in Sessions, call[s] # Idle
      PROVE  \E t \in Sessions, l \in Wanted(s) :
               /\ s # t /\ l \in call[t].locks
               /\ Wanted(t) # {} /\ call[t] # Idle
  BY <1>1, <1>2, <1>3, <1>4 DEF WaitsFor
<1>5. ASSUME NEW s \in Sessions, Kind(s, "run")
      PROVE  call[s].pc \in {"decided", "request", "leave"}
  BY <1>4, <1>5, Waiters, KindShapes DEF Kind
<1>6. \A s \in Sessions : Sound(s)
  BY DEF IInv
<1>7. ASSUME NEW t \in Sessions, Kind(t, "cancel"), call[t].pc = "updating", call[t].locks # {}
      PROVE  FALSE
  <2>1. PICK b \in Sessions, l \in Wanted(t) : t # b /\ l \in call[b].locks /\ Wanted(b) # {}
    BY <1>4, <1>7 DEF Kind
  <2>2. l = <<"request", call[t].r>>
    BY <1>7, <2>1, Waiters, KindShapes
  <2>3. Kind(b, "run") /\ call[b].pc \in {"request", "leave"} /\ call[b].r = call[t].r
    BY <1>2, <1>5, <1>6, <2>1, <2>2 DEF Sound, LocksInOrder
  <2>4. <<"leave", call[t].r>> \in call[t].locks /\ leave[call[t].r].decision # "none"
    BY <1>6, <1>7 DEF Sound, CancelAgrees
  <2>5. call[b].pc # "leave"
    <3>1. call[b].pc = "leave" => <<"leave", call[b].r>> \in call[b].locks
      BY <1>6, <2>3, <2>4 DEF Sound, RunAgrees
    <3>2. call[b].locks \cap call[t].locks = {}
      BY <2>1 DEF IInv, LocksApart
    <3>. QED  BY <2>3, <2>4, <3>1, <3>2
  <2>6. <<"leave", call[t].r>> \in Wanted(b)
    BY <2>3, <2>4, <2>5 DEF Wanted, Is, Kind, LeaveLock
  <2>7. WaitsFor(b, t) /\ WaitsFor(t, b)
    BY <2>1, <2>4, <2>6 DEF WaitsFor
  <2>. QED  BY <1>1, <2>3, <2>7 DEF Kind
<1>8. ASSUME NEW t \in Sessions, Kind(t, "cancel"), call[t].locks # {}
      PROVE  FALSE
  <2>1. PICK b \in Sessions, l \in Wanted(t) : t # b /\ l \in call[b].locks /\ Wanted(b) # {}
    BY <1>4, <1>8 DEF Kind
  <2>2. call[t].pc \in {"releasing", "updating"}
    BY <1>6, <1>8 DEF Sound, LocksInOrder
  <2>3. l = <<"balance", Owner[call[t].r]>>
    BY <1>7, <1>8, <2>1, <2>2, Waiters, KindShapes
  <2>4. Kind(b, "cancel") /\ call[b].pc = "updating"
    BY <1>2, <1>5, <1>6, <2>1, <2>3 DEF Sound, LocksInOrder
  <2>. QED  BY <1>7, <2>1, <2>4
<1>9. ASSUME NEW t \in Sessions, Kind(t, "run"), call[t].locks # {}
      PROVE  FALSE
  <2>1. PICK b \in Sessions, l \in Wanted(t) : t # b /\ l \in call[b].locks /\ Wanted(b) # {}
    BY <1>4, <1>9 DEF Kind
  <2>2. call[t].pc \in {"request", "leave"}
    BY <1>5, <1>6, <1>9 DEF Sound, LocksInOrder
  <2>3. Kind(b, "run")
    BY <1>2, <1>8, <2>1
  <2>4. l = <<"leave", call[t].r>> /\ call[b].pc = "leave"
    BY <1>5, <1>6, <1>9, <2>1, <2>2, <2>3, Waiters, KindShapes DEF Sound, LocksInOrder
  <2>5. PICK d \in Sessions, m \in Wanted(b) : b # d /\ m \in call[d].locks /\ Wanted(d) # {}
    BY <1>4, <2>3 DEF Kind
  <2>6. m = <<"balance", Owner[call[b].r]>>
    BY <2>3, <2>4, <2>5, Waiters, KindShapes
  <2>7. Kind(d, "run")
    BY <1>2, <1>8, <2>5
  <2>. QED  BY <1>5, <1>6, <2>5, <2>6, <2>7 DEF Sound, LocksInOrder
<1>10. PICK b \in Sessions, l \in Wanted(z) : l \in call[b].locks
  BY <1>1, <1>4
<1>. QED  BY <1>2, <1>8, <1>9, <1>10

\* Cancelling leaves no days held and nobody waiting for ever: while calls are under
\* way one of them waits for nobody, or a run and a cancel of one leave wait for each
\* other and the database's detector ends one (release_leave_reservation beside
\* _persist_leave).
THEOREM CancellingIsSafe == Spec => []CancelsAreSafe
<1>1. IInv => SomeoneGoesOn
  BY SomeoneAlwaysGoesOn
<1>. QED  BY LeaveInvariant, CancelsGiveBack, CirclesAreOfOneLeave, <1>1, PTL DEF CancelsAreSafe

-----------------------------------------------------------------------------
(* Staffing.                                                               *)

\* Only a commit makes leaves hold days.
LEMMA OnlyCommitsApprove ==
  ASSUME IInv, [Next]_vars, NEW r \in Requests, Holds(r)', ~Holds(r)
  PROVE  \E s \in Sessions : Commit(s) /\ call[s].r = r /\ Is(s, "run", "ready")
<1>1. leave' # leave
  BY DEF Holds
<1>2. PICK s \in Sessions : Commit(s) \/ CancelCommit(s)
  BY <1>1 DEF Next, Run, Cancel, vars, Decide, CancelRead, LockRequest, LockLeave, LockBalance,
              LockRule, Refuse, Close, Wait, CancelLockLeave, CancelLockBalance, CancelRefuse,
              Rollback, EditCheck, EditWrite, DeleteRule, Allocate, Acquire
<1>3. ~CancelCommit(s)
  <2>1. SUFFICES ASSUME CancelCommit(s) PROVE FALSE
    OBVIOUS
  <2>2. ToRelease(call[s])
    BY <1>1, <2>1 DEF CancelCommit
  <2>3. PICK q : q = call[s].r
    OBVIOUS
  <2>4. /\ \A p \in Requests \ {q} : leave'[p] = leave[p]
        /\ leave'[q] = [decision |-> "cancelled", reserved |-> 0]
    BY <2>1, <2>2, <2>3, CancelWrites
  <2>. QED  BY <2>4 DEF Holds
<1>4. Commit(s)
  BY <1>2, <1>3
<1>. QED  BY <1>4, OnlyReadyApproves

LEMMA ApprovalKeepsMinimum ==
  ASSUME IInv, [Next]_vars, ~AdminOverlap, NEW r \in Requests, ~Holds(r), Holds(r)',
         NEW d \in Span[r], NEW u \in Rules, rule'[u] # None, rule'[u].active, d \in rule'[u].days
  PROVE  Cardinality(Employees \ {Owner[q] : q \in {q \in Requests : d \in Span[q] /\ Holds(q)'}})
           >= rule'[u].minimum
<1>1. PICK s \in Sessions : Commit(s) /\ call[s].r = r /\ Is(s, "run", "ready")
  BY OnlyCommitsApprove
<1>2. rule' = rule
  BY <1>1 DEF Commit
<1>3. PICK v \in Rules : /\ rule[v] # None /\ rule[v].active
                         /\ Span[r] \subseteq rule[v].days /\ StaffingOk(r, v)
  BY <1>1 DEF IInv, Sound, ReadyAgrees
<1>4. u = v
  BY <1>2, <1>3 DEF IInv, RulesKept, RulesDisjoint
<1>5. PICK A : A = {Owner[q] : q \in {q \in Requests : d \in Span[q] /\ Holds(q)'}}
  OBVIOUS
<1>6. \A q \in Requests \ {r} : Holds(q)' => Holds(q)
  BY <1>1, OnlyReadyApproves
<1>7. A \subseteq Overlapping(r) \cup {Owner[r]}
  BY <1>5, <1>6 DEF Overlapping
<1>8. Owner \in [Requests -> Employees]
  BY PlanShapes DEF IInv
<1>9. Overlapping(r) \subseteq Employees /\ A \subseteq Employees
  BY <1>5, <1>8 DEF Overlapping
<1>10. /\ IsFiniteSet(Overlapping(r)) /\ IsFiniteSet(A) /\ IsFiniteSet({Owner[r]})
       /\ Cardinality({Owner[r]}) = 1
  BY <1>9, RowsAssumption, FS_Subset, FS_Singleton
<1>11. /\ Cardinality(Overlapping(r)) \in Nat /\ Cardinality(A) \in Nat
       /\ Cardinality(Employees) \in Nat /\ Cardinality(Overlapping(r) \cap {Owner[r]}) \in Nat
  BY <1>10, RowsAssumption, FS_CardinalityType, FS_Subset
<1>12. /\ IsFiniteSet(Overlapping(r) \cup {Owner[r]})
       /\ Cardinality(Overlapping(r) \cup {Owner[r]})
            = Cardinality(Overlapping(r)) + 1 - Cardinality(Overlapping(r) \cap {Owner[r]})
  BY <1>10, FS_Union
<1>13. Cardinality(A) <= Cardinality(Overlapping(r) \cup {Owner[r]})
  BY <1>7, <1>12, FS_Subset
<1>14. Cardinality(A) <= Cardinality(Overlapping(r)) + 1
  BY <1>11, <1>12, <1>13
<1>15. Cardinality(Employees \ A) = Cardinality(Employees) - Cardinality(Employees \cap A)
  BY RowsAssumption, FS_Difference
<1>16. Employees \cap A = A
  BY <1>9
<1>17. rule[v].minimum \in Nat
  BY <1>3, MinimaAssumption DEF IInv, TypeOK, RuleRows, RuleForms
<1>18. Cardinality(Employees) - Cardinality(Overlapping(r)) - 1 >= rule[v].minimum
  BY <1>3 DEF StaffingOk
<1>19. Cardinality(Employees \ A) = Cardinality(Employees) - Cardinality(A)
  BY <1>15, <1>16
<1>20. Cardinality(Employees \ A) >= rule[v].minimum
  BY <1>11, <1>14, <1>17, <1>18, <1>19
<1>. QED  BY <1>2, <1>4, <1>5, <1>20

\* While one administrator at a time edits the rules, every approval keeps the
\* minimum of each rule on each day it covers, however runs, cancels and edits of
\* rules interleave, and one rule holds for each day (the lock of the staffing rule
\* in departments/hr/service.py and the overlap check in admin/service.py).
THEOREM StaffingIsKept ==
  ASSUME ~AdminOverlap
  PROVE  Spec => StaffingKept
<1>1. IInv /\ [Next]_vars => [\A r \in Requests : ~Holds(r) /\ Holds(r)' =>
       \A d \in Span[r], u \in Rules :
         /\ rule'[u] # None
         /\ rule'[u].active
         /\ d \in rule'[u].days
         => Cardinality(Employees \ {Owner[q] : q \in {q \in Requests :
                                       d \in Span[q] /\ Holds(q)'}})
              >= rule'[u].minimum]_vars
  BY ApprovalKeepsMinimum
<1>2. IInv => RulesDisjoint
  BY DEF IInv, RulesKept
<1>. QED  BY LeaveInvariant, <1>1, <1>2, PTL DEF Spec, StaffingKept, ApprovalsKeepMinimum
=============================================================================
