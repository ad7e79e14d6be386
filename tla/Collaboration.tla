---------------------------- MODULE Collaboration ----------------------------
(***************************************************************************)
(* The collaboration section of the workflow's document and what           *)
(* CollaborationService does to it (workflow/collaboration/service.py):    *)
(* prepare, execute and finish, as operators on the section.  Departments  *)
(* ask each other along the routes of the registry; a receiver that may    *)
(* ask in its turn leaves its own call on the return stack.                *)
(***************************************************************************)
EXTENDS Integers, FiniteSetsExt, SequencesExt

CONSTANTS Payloads,     \* what a question is about
          MaxDepth,     \* workflow_max_collaboration_depth
          MaxCalls,     \* workflow_max_collaboration_calls
          MaxAttempts,  \* workflow_max_collaboration_attempts
          None

ASSUME LimitsAssumption == MaxDepth \in 1..3 /\ MaxCalls \in 1..6 /\ MaxAttempts \in 1..2

-----------------------------------------------------------------------------
Departments == {"customer_support", "it", "finance", "procurement", "hr"}

\* The registered routes, and those whose receiver may ask in its turn.
Routes == {<<"customer_support", "it">>, <<"hr", "it">>, <<"it", "finance">>,
           <<"it", "procurement">>, <<"procurement", "finance">>}
Nesting == {<<"it", "procurement">>}

Questions == {q \in [from : Departments, to : Departments, payload : Payloads] :
                <<q.from, q.to>> \in Routes}
Route(q) == <<q.from, q.to>>

\* What an answer says of the money: nothing good, that the budget covers it, or
\* that it does when in fact it does not.
Funds == {"no", "covered", "claimed"}

\* A question stands for its idempotency key too: the key is a digest of the
\* request, the route and the canonical payload.
Calls == [question : Questions, status : {"pending", "running", "completed", "failed"},
          attempts : 0..MaxAttempts, funds : Funds]
Entries == [question : Questions, status : {"completed", "failed"},
            attempts : 0..MaxAttempts, funds : Funds]
Answers == [question : Questions, status : {"completed", "failed"}, funds : Funds]

Sections == [call : Calls \cup {None}, stack : Seq(Calls), history : Seq(Entries),
             total : 0..MaxCalls, request : Questions \cup {None},
             answer : Answers \cup {None}, replayed : BOOLEAN]

ASSUME NoneAssumption == None \notin Questions \cup Calls \cup Answers

NoCollaboration == [call |-> None, stack |-> << >>, history |-> << >>, total |-> 0,
                    request |-> None, answer |-> None, replayed |-> FALSE]

-----------------------------------------------------------------------------
\* A department asks: its question replaces the last answer it got.
Asked(c, q) == [c EXCEPT !.request = q, !.answer = None]

\* Customer support, given an answer, clears the section: a question it asks at the
\* same time is lost, and the next node finds nothing to prepare.
Settled(c) == [c EXCEPT !.request = None, !.answer = None]

Pushed(c) == IF c.call = None THEN c.stack ELSE Append(c.stack, c.call)

Earlier(c, status) == {i \in DOMAIN c.history : /\ c.history[i].question = c.request
                                                /\ c.history[i].status = status}
Repeats(c) == Quantify(DOMAIN c.history,
                LAMBDA i : Route(c.history[i].question) = Route(c.request))

\* Only the active department asks: the owner, or the receiver of a running
\* call whose route allows it.
MayAsk(c, active, owner) ==
  /\ c.request.from = active
  /\ IF c.call = None
     THEN active = owner
     ELSE /\ c.call.status = "running"
          /\ c.call.question.to = c.request.from
          /\ Route(c.call.question) \in Nesting

\* Nobody on the path of open calls is asked, so no open question is asked again.
NoCycle(c) == \A i \in DOMAIN Pushed(c) :
                c.request.to \notin {Pushed(c)[i].question.from, Pushed(c)[i].question.to}

\* A question answered before is answered from the history; one that failed
\* keeps its attempts and is not counted again.
Repeatable(c) ==
  \/ Earlier(c, "completed") # {}
  \/ IF Earlier(c, "failed") # {}
     THEN c.history[Max(Earlier(c, "failed"))].attempts < MaxAttempts
     ELSE Repeats(c) < MaxAttempts

CanPrepare(c, active, owner) ==
  /\ c.request # None
  /\ MayAsk(c, active, owner)
  /\ Len(Pushed(c)) + 1 <= MaxDepth
  /\ c.total < MaxCalls
  /\ NoCycle(c)
  /\ Repeatable(c)

NewCall(c) ==
  IF Earlier(c, "completed") # {}
  THEN c.history[Max(Earlier(c, "completed"))]
  ELSE [question |-> c.request, status |-> "pending", funds |-> "no",
        attempts |-> IF Earlier(c, "failed") = {} THEN 0
                     ELSE c.history[Max(Earlier(c, "failed"))].attempts]

Prepared(c) ==
  [c EXCEPT !.call = NewCall(c),
            !.stack = Pushed(c),
            !.total = IF Earlier(c, "completed") \cup Earlier(c, "failed") = {}
                      THEN @ + 1 ELSE @,
            !.replayed = Earlier(c, "completed") # {}]

-----------------------------------------------------------------------------
\* The receiver works on the call: one attempt more, unless it is a replay.
CanExecute(c) ==
  c.call # None /\ (c.call.status = "completed" \/ c.call.attempts < MaxAttempts)

Bug_NoAttempt(call) == [call EXCEPT !.status = "running"]
Running(call) == [call EXCEPT !.status = "running", !.attempts = @ + 1]

Ended(c, status, funds) ==
  [c EXCEPT !.call = [Running(@) EXCEPT !.status = status, !.funds = funds],
            !.replayed = FALSE]

\* A nested question replaces whatever answer the receiver had before it.
Nested(c, q) == [c EXCEPT !.call = Running(@), !.request = q, !.answer = None,
                          !.replayed = FALSE]

Paused(c) == [c EXCEPT !.call = Running(@), !.replayed = FALSE]

-----------------------------------------------------------------------------
\* The call leaves: its answer goes to the department that asked, its parent
\* becomes the call again, the history keeps the last MaxCalls entries.
CanFinish(c) == c.call # None /\ c.call.status \in {"completed", "failed"}

KeptLast(s) == IF Len(s) <= MaxCalls THEN s ELSE SubSeq(s, Len(s) - MaxCalls + 1, Len(s))

Recorded(c) == KeptLast(IF c.replayed THEN c.history ELSE Append(c.history, c.call))

Bug_ToSender(c) == IF c.stack = << >> THEN c.call.question.from ELSE Last(c.stack).question.from
Target(c) == IF c.stack = << >> THEN c.call.question.from ELSE Last(c.stack).question.to

Finished(c) ==
  [c EXCEPT !.call = IF c.stack = << >> THEN None ELSE Last(c.stack),
            !.stack = IF @ = << >> THEN @ ELSE Front(@),
            !.history = Recorded(c),
            !.answer = [question |-> c.call.question, status |-> c.call.status,
                        funds |-> c.call.funds],
            !.request = None]
=============================================================================
