-------------------------------- MODULE Notices --------------------------------
(***************************************************************************)
(* What the transactions that notify a user write beside the notification: *)
(* the capability gaps (failures/service.py, failures/repository.py) and   *)
(* whom they tell (notifications/service.py, workflow/service.py).  The    *)
(* user is the account of the company: it reviews what has no manager, and *)
(* may have asked for what failed.                                         *)
(*                                                                         *)
(* A run that meets an unsupported operation looks for an unresolved gap   *)
(* with the same key, counts one more or inserts a new one, tells the      *)
(* reviewers and the requester, and commits with its checkpoint.  Runs     *)
(* serialize on an advisory lock of the key; the administrator who closes  *)
(* or reopens a gap does not take it.                                      *)
(***************************************************************************)
EXTENDS NotificationStream

CONSTANTS Operations,  \* what may be asked for: department and normalized operation
          MaxChanges,  \* a bound on the administrator's changes of a gap
          NoGap

ASSUME ChangesAssumption == MaxChanges \in Nat

VARIABLES gaps,      \* rows of capability_gaps, in the order of their insertion
          calls,     \* the record() a transaction is in, or NoCall
          recorded,  \* for each operation, how often record() was committed
          changes

gapVars == <<gaps, calls, recorded, changes>>
noticesVars == <<feedVars, gapVars>>

-----------------------------------------------------------------------------
(* Whom a transaction tells.                                               *)

Kinds == {"gap", "failure", "escalation", "request"}

\* A review is asked of the department's managers, or else of the company.
AsReviewer(managed) == IF managed THEN 0 ELSE 1
AsRequester(mine) == IF mine THEN 1 ELSE 0

ByGap(managed, mine) == AsReviewer(managed) + AsRequester(mine)
ByFailure(managed, mine) == AsRequester(mine) + AsReviewer(managed)
ByEscalation(managed) == AsReviewer(managed)
ByRequest(mine) == AsRequester(mine)

\* The notifications the company account is sent by one transaction.
Told(kind, managed, mine) ==
  CASE kind = "gap" -> ByGap(managed, mine)
    [] kind = "failure" -> ByFailure(managed, mine)
    [] kind = "escalation" -> ByEscalation(managed)
    [] kind = "request" -> ByRequest(mine)

-----------------------------------------------------------------------------
(* Capability gaps.                                                        *)

CapabilityGaps == [operation : Operations, unresolved : BOOLEAN, count : Nat \ {0}]

NoCall == [pc |-> "none", operation |-> NoGap, found |-> 0, count |-> 0, reopened |-> FALSE]
Begun(o) == [pc |-> "begun", operation |-> o, found |-> 0, count |-> 0, reopened |-> FALSE]

\* Open, acknowledged and planned are not told apart, nor resolved and rejected.
Unresolved(o) == {i \in DOMAIN gaps : gaps[i].operation = o /\ gaps[i].unresolved}

\* pg_advisory_xact_lock: one transaction per key, until it ends.
Bug_NoAdvisoryLock(w) == TRUE
KeyFree(w) ==
  \A v \in Writers \ {w} :
    calls[v].pc \in {"looked", "counted"} => calls[v].operation # calls[w].operation

\* FOR UPDATE, and the insertion of a row under the unique index, make the
\* administrator's UPDATE wait.
RowFree(i) ==
  \A w \in Writers :
    calls[w].pc \in {"looked", "counted"} =>
      /\ calls[w].found # i
      /\ ~(calls[w].pc = "counted" /\ calls[w].found = 0
           /\ calls[w].operation = gaps[i].operation)

\* A transaction that notifies begins: a run at its checkpoint, or a handler.
Notify(w) ==
  \E kind \in Kinds, managed, mine \in BOOLEAN :
    LET told == Told(kind, managed, mine)
    IN /\ kind = "gap" \/ told > 0
       /\ Begin(w, told)
       /\ \E o \in Operations :
            calls' = IF kind = "gap" THEN [calls EXCEPT ![w] = Begun(o)] ELSE calls
       /\ UNCHANGED <<gaps, recorded, changes>>

Look(w) ==
  /\ calls[w].pc = "begun" /\ KeyFree(w)
  /\ LET U == Unresolved(calls[w].operation)
         i == IF U = {} THEN 0 ELSE CHOOSE j \in U : TRUE
     IN calls' = [calls EXCEPT ![w].pc = "looked", ![w].found = i,
                               ![w].count = IF i = 0 THEN 0 ELSE gaps[i].count]
  /\ UNCHANGED <<feedVars, gaps, recorded, changes>>

\* A new row is refused when an unresolved one of the operation exists by now.
Count(w) ==
  /\ calls[w].pc = "looked"
  /\ calls[w].found # 0 \/ Unresolved(calls[w].operation) = {}
  /\ calls' = [calls EXCEPT ![w].pc = "counted"]
  /\ UNCHANGED <<feedVars, gaps, recorded, changes>>

\* The rows once the call is committed.
Counted(c) ==
  IF c.found = 0 THEN Append(gaps, [operation |-> c.operation, unresolved |-> TRUE, count |-> 1])
  ELSE [gaps EXCEPT ![c.found].count = c.count + 1]

CommitNotice(w) ==
  /\ calls[w].pc \in {"none", "counted"}
  /\ Commit(w)
  /\ \/ /\ calls[w] = NoCall
        /\ UNCHANGED gapVars
     \/ /\ calls[w].pc = "counted"
        /\ gaps' = Counted(calls[w])
        /\ recorded' = [recorded EXCEPT ![calls[w].operation] = @ + 1]
        /\ calls' = [calls EXCEPT ![w] = NoCall]
        /\ UNCHANGED changes

\* The transaction fails: a refused insertion, a terminal request, a department
\* that is not the request's, a checkpoint that cannot be saved.
RollbackNotice(w) ==
  /\ Rollback(w)
  /\ calls' = [calls EXCEPT ![w] = NoCall]
  /\ UNCHANGED <<gaps, recorded, changes>>

\* The administrator sets the status of a gap, with one UPDATE; the unique
\* index refuses to reopen one beside another that is unresolved.
CloseGap(i) ==
  /\ changes < MaxChanges /\ RowFree(i) /\ gaps[i].unresolved
  /\ gaps' = [gaps EXCEPT ![i].unresolved = FALSE]
  /\ changes' = changes + 1
  /\ UNCHANGED <<feedVars, calls, recorded>>

MayReopen(i) == Unresolved(gaps[i].operation) = {}

ReopenGap(i) ==
  /\ changes < MaxChanges /\ RowFree(i) /\ ~gaps[i].unresolved /\ MayReopen(i)
  /\ gaps' = [gaps EXCEPT ![i].unresolved = TRUE]
  /\ changes' = changes + 1
  /\ calls' = [w \in Writers |->
                 [calls[w] EXCEPT !.reopened = @ \/ (calls[w].pc = "looked"
                                                     /\ calls[w].operation = gaps[i].operation)]]
  /\ UNCHANGED <<feedVars, recorded>>

-----------------------------------------------------------------------------
NoticesInit ==
  /\ FeedInit
  /\ gaps = <<>>
  /\ calls = [w \in Writers |-> NoCall]
  /\ recorded = [o \in Operations |-> 0]
  /\ changes = 0

NoticesNext ==
  \/ \E w \in Writers : Notify(w) \/ Look(w) \/ Count(w) \/ CommitNotice(w) \/ RollbackNotice(w)
  \/ \E i \in DOMAIN gaps : CloseGap(i) \/ ReopenGap(i)
  \/ (Reconnect \/ OpenPage \/ ServeFeed \/ FeedDisconnect) /\ UNCHANGED gapVars

\* The generator of the stream runs, and a heartbeat is due again and again.
NoticesSpec == NoticesInit /\ [][NoticesNext]_noticesVars
NoticesLiveSpec ==
  /\ NoticesSpec
  /\ WF_noticesVars(ServeFeed /\ UNCHANGED gapVars)
  /\ SF_noticesVars(FeedHeartbeat /\ UNCHANGED gapVars)

-----------------------------------------------------------------------------
(* Properties.                                                             *)

\* The type of the gaps and of the calls that record them.
NoticesTypeOK ==
  /\ gaps \in Seq(CapabilityGaps)
  /\ calls \in [Writers -> [pc : {"none", "begun", "looked", "counted"},
                            operation : Operations \cup {NoGap}, found : 0..Len(gaps),
                            count : Nat, reopened : BOOLEAN]]
  /\ recorded \in [Operations -> Nat] /\ changes \in 0..MaxChanges

RowsOf(o) == {i \in DOMAIN gaps : gaps[i].operation = o}

\* Every committed record() was counted once, in whichever row was unresolved
\* then, however runs, closings and reopenings interleave (create_or_increment).
CountsAddUp ==
  \A o \in Operations :
    recorded[o] = Cardinality(UNION {{i} \X (1..gaps[i].count) : i \in RowsOf(o)})

OneUnresolved == \A o \in Operations : Cardinality(Unresolved(o)) <= 1

\* A run is refused its new gap, and fails for it, only when the administrator
\* reopened an old one after the run had looked: another run never causes it.
OnlyReopeningRefuses ==
  \A w \in Writers :
    calls[w].pc = "looked" /\ calls[w].found = 0 /\ Unresolved(calls[w].operation) # {}
      => calls[w].reopened

\* The gaps and the calls that recorded them agree.
GapsAddUp == NoticesTypeOK /\ CountsAddUp /\ OneUnresolved /\ OnlyReopeningRefuses
=============================================================================
