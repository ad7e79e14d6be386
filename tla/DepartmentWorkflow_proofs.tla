----------------------- MODULE DepartmentWorkflow_proofs -----------------------
(***************************************************************************)
(* Proofs about DepartmentWorkflow: the calls between the departments nest *)
(* and the timeline tells each once, an answer reaches the department that *)
(* asked, and a request ends as completed when it was reviewed and the     *)
(* department's record is closed, through every retry, replay, failure,    *)
(* stop and resume.                                                        *)
(***************************************************************************)
EXTENDS DepartmentWorkflow, FiniteSetTheorems, SequenceTheorems, TLAPS

-----------------------------------------------------------------------------
(* The inductive invariant.                                                *)

\* Only the receiver of a question of IT to procurement may ask in its turn, so at
\* most one call waits below the open one.
Below(s) ==
  /\ collab.stack = <<s>> /\ s.status = "running" /\ Route(s.question) = <<"it", "procurement">>
  /\ collab.call # None /\ Route(collab.call.question) = <<"procurement", "finance">>

CallsOpen ==
  /\ collab.stack = << >> \/ (MaxDepth >= 2 /\ owner = "it" /\ \E s \in Calls : Below(s))
  /\ collab.call # None /\ collab.stack = << >> => collab.call.question.from = owner
  /\ ActiveDepartmentFollowsTheCall

\* The timeline owes the end of each call but a replayed one.
Owed == IF collab.call = None THEN 0
        ELSE (IF collab.stack = << >> THEN 0 ELSE 1)
               + (IF collab.replayed /\ collab.call.status = "completed" THEN 0 ELSE 1)

ToldAgrees ==
  /\ told = Owed
  /\ collab.call # None /\ collab.replayed => collab.call.status # "failed"

NotAnsweredIn(h, q) ==
  \A i \in DOMAIN h : ~(h[i].question = q /\ h[i].status = "completed")

OnceIn(h) ==
  \A i, j \in DOMAIN h :
    h[i].status = "completed" /\ h[j].status = "completed" /\ h[i].question = h[j].question => i = j

\* A question that is open was not answered before, unless it is being replayed.
HistoryAgrees ==
  /\ Len(collab.history) <= MaxCalls
  /\ OnceIn(collab.history)
  /\ collab.call # None /\ ~(collab.replayed /\ collab.call.status = "completed") =>
       NotAnsweredIn(collab.history, collab.call.question)
  /\ collab.stack # << >> => NotAnsweredIn(collab.history, collab.stack[1].question)

\* Finance claims nothing it did not compute when IT asks; IT's questions to
\* procurement rest on what finance said.
Honest(x) == Route(x.question) = <<"it", "finance">> => x.funds # "claimed"
ForSuppliers(q) == Route(q) = <<"it", "procurement">>

FundsAgree ==
  /\ collab.call # None => Honest(collab.call)
  /\ \A i \in DOMAIN collab.history : Honest(collab.history[i])
  /\ collab.answer # None => Honest(collab.answer) /\ (SaysCovered(collab.answer) => funded)
  /\ collab.request # None /\ ForSuppliers(collab.request) => funded
  /\ collab.call # None /\ ForSuppliers(collab.call.question) => funded
  /\ collab.stack # << >> => funded

\* Who asks has no answer before it: the last one is dropped with the question.
AnswerAgrees ==
  /\ collab.answer # None => collab.answer.question.from = active
  /\ collab.request # None /\ collab.request.from = active => collab.answer = None

\* What the node that runs next can rely on.
NodeAgrees ==
  /\ result # None => result \in ResultsOf[owner]
  /\ node = "collaboration_receiver" => collab.call # None /\ collab.call.status \in {"pending", "running"}
  /\ node = "tool" => result # None /\ result.kind = "execute_tool"
  /\ node = "reviewer" => result # None
  /\ node \notin {"department_stage_start", End} => "department_execution_started" \in steps
  /\ collab.call # None => "department_execution_started" \in steps
  /\ status = "completed" => node = End
  /\ review.revisions <= MaxRevisions

\* The last step of the department's work is noted only with its last result.
WorkDone ==
  /\ "department_execution_completed" \in steps =>
       /\ "department_execution_started" \in steps /\ collab.call = None
       /\ result # None /\ result.kind \in Ends
       /\ owner \in {"customer_support", "finance"} => record = "closed"
       /\ node \in {"reviewer", "completion", "failure", "human_action", End}
       /\ node = End => status \in {"completed", "failed"} \/ stopped
  /\ node = "completion" \/ status = "completed" => "department_execution_completed" \in steps
  /\ node = "reviewer" /\ result.kind \in Ends => "department_execution_completed" \in steps
  /\ node = "failure" /\ result.kind = "fail_request" => "department_execution_completed" \in steps

\* A risky result passes the reviewer; a question to the requester is shown.
RisksAgree ==
  (node \in {"completion", "failure"} \/ status = "completed") /\ ~stopped /\ result # None /\ result.risky
    => "reviewer_completed" \in steps

QuestionAgrees ==
  /\ QuestionIsShown
  /\ node = "reviewer" /\ result # None /\ result.kind = "wait_for_user_input"
     /\ owner # "customer_support" => asking

IInv ==
  /\ TypeOK /\ CallsOpen /\ ToldAgrees /\ HistoryAgrees /\ FundsAgree /\ AnswerAgrees
  /\ NodeAgrees /\ WorkDone /\ RisksAgree /\ QuestionAgrees

-----------------------------------------------------------------------------
(* The shapes of questions, calls and sections.                            *)

\* Where a question goes says where it came from.
LEMMA QuestionShapes ==
  ASSUME NEW q \in Questions
  PROVE  /\ q.from \in Departments /\ q.to \in Departments /\ q.from # q.to /\ q # None
         /\ \A d, e : Route(q) = <<d, e>> <=> q.from = d /\ q.to = e
         /\ Route(q) \in Nesting <=> Route(q) = <<"it", "procurement">>
         /\ q.from = "procurement" => Route(q) = <<"procurement", "finance">>
         /\ q.to = "procurement" => Route(q) = <<"it", "procurement">>
<1>1. /\ q.from \in Departments /\ q.to \in Departments /\ <<q.from, q.to>> \in Routes
  BY DEF Questions
<1>2. q # None
  BY NoneAssumption
<1> QED
  BY <1>1, <1>2 DEF Route, Routes, Nesting

LEMMA CallShapes ==
  ASSUME NEW x \in Calls
  PROVE  /\ x.question \in Questions /\ x.status \in {"pending", "running", "completed", "failed"}
         /\ x.attempts \in 0..MaxAttempts /\ x.funds \in Funds /\ x # None
BY NoneAssumption DEF Calls

LEMMA EntryShapes ==
  ASSUME NEW x \in Entries
  PROVE  x \in Calls /\ x.question \in Questions /\ x.status \in {"completed", "failed"} /\ x.funds \in Funds
BY DEF Entries, Calls

LEMMA SectionShapes ==
  ASSUME NEW c \in Sections
  PROVE  /\ c.call \in Calls \cup {None} /\ c.stack \in Seq(Calls) /\ c.history \in Seq(Entries)
         /\ c.total \in 0..MaxCalls /\ c.request \in Questions \cup {None}
         /\ c.answer \in Answers \cup {None} /\ c.replayed \in BOOLEAN
BY DEF Sections

\* A section changes by its fields.
LEMMA SectionOf ==
  ASSUME NEW c \in Sections, NEW call \in Calls \cup {None}, NEW stack \in Seq(Calls),
         NEW history \in Seq(Entries), NEW total \in 0..MaxCalls, NEW request \in Questions \cup {None},
         NEW answer \in Answers \cup {None}, NEW replayed \in BOOLEAN,
         NEW new, new = [c EXCEPT !.call = call, !.stack = stack, !.history = history, !.total = total,
                                  !.request = request, !.answer = answer, !.replayed = replayed]
  PROVE  /\ new \in Sections
         /\ new.call = call /\ new.stack = stack /\ new.history = history /\ new.total = total
         /\ new.request = request /\ new.answer = answer /\ new.replayed = replayed
BY DEF Sections

LEMMA AskedShape ==
  ASSUME NEW c \in Sections, NEW q \in Questions, NEW new, new = Asked(c, q)
  PROVE  /\ new \in Sections /\ new.request = q /\ new.answer = None
         /\ new.call = c.call /\ new.stack = c.stack /\ new.history = c.history /\ new.replayed = c.replayed
BY DEF Asked, Sections

LEMMA SettledShape ==
  ASSUME NEW c \in Sections, NEW new, new = Settled(c)
  PROVE  /\ new \in Sections /\ new.request = None /\ new.answer = None
         /\ new.call = c.call /\ new.stack = c.stack /\ new.history = c.history /\ new.replayed = c.replayed
BY DEF Settled, Sections

\* The receiver's steps on the open call: one attempt more.
LEMMA RunningShape ==
  ASSUME NEW x \in Calls, x.attempts < MaxAttempts, NEW y, y = Running(x)
  PROVE  y \in Calls /\ y.question = x.question /\ y.status = "running" /\ y.funds = x.funds
<1>1. x.attempts \in 0..MaxAttempts /\ MaxAttempts \in Nat
  BY LimitsAssumption DEF Calls
<1>2. PICK n : n = x.attempts + 1
  OBVIOUS
<1>3. n \in 0..MaxAttempts
  BY <1>1, <1>2
<1>4. y = [x EXCEPT !.status = "running", !.attempts = n]
  BY <1>2 DEF Running, Calls
<1> QED
  BY <1>3, <1>4 DEF Calls

LEMMA NestedShape ==
  ASSUME NEW c \in Sections, c.call # None, c.call.attempts < MaxAttempts, NEW q \in Questions
  PROVE  /\ Nested(c, q) \in Sections /\ Nested(c, q).call \in Calls /\ Nested(c, q).call.status = "running"
         /\ Nested(c, q).call.question = c.call.question /\ Nested(c, q).call.funds = c.call.funds
         /\ Nested(c, q).stack = c.stack /\ Nested(c, q).history = c.history /\ Nested(c, q).replayed = FALSE
         /\ Nested(c, q).request = q /\ Nested(c, q).answer = None
<1>0. PICK new : new = Nested(c, q)
  OBVIOUS
<1>1. PICK x : x = c.call /\ x \in Calls /\ x.attempts < MaxAttempts
  BY SectionShapes
<1>2. PICK y : y = Running(x)
  OBVIOUS
<1>3. y \in Calls /\ y.question = x.question /\ y.status = "running" /\ y.funds = x.funds
  BY <1>1, <1>2, RunningShape
<1>4. new = [c EXCEPT !.call = y, !.request = q, !.answer = None, !.replayed = FALSE]
  BY <1>0, <1>1, <1>2 DEF Nested, Sections
<1>5. /\ new \in Sections /\ new.call = y /\ new.stack = c.stack /\ new.history = c.history
      /\ new.replayed = FALSE /\ new.request = q /\ new.answer = None
  BY <1>3, <1>4 DEF Sections
<1> QED
  BY <1>0, <1>1, <1>3, <1>5

LEMMA PausedShape ==
  ASSUME NEW c \in Sections, c.call # None, c.call.attempts < MaxAttempts, NEW new, new = Paused(c)
  PROVE  /\ new \in Sections /\ new.call \in Calls /\ new.call.status = "running"
         /\ new.call.question = c.call.question /\ new.call.funds = c.call.funds
         /\ new.stack = c.stack /\ new.history = c.history /\ new.replayed = FALSE
         /\ new.request = c.request /\ new.answer = c.answer
<1>1. PICK x : x = c.call /\ x \in Calls /\ x.attempts < MaxAttempts
  BY SectionShapes
<1>2. PICK y : y = Running(x)
  OBVIOUS
<1>3. y \in Calls /\ y.question = x.question /\ y.status = "running" /\ y.funds = x.funds
  BY <1>1, <1>2, RunningShape
<1>4. new = [c EXCEPT !.call = y, !.replayed = FALSE]
  BY <1>1, <1>2 DEF Paused, Sections
<1> QED
  BY <1>1, <1>3, <1>4 DEF Sections

-----------------------------------------------------------------------------
(* The history: a question is answered from it, and a call leaves into it. *)

\* A set of places of a history has a last one.
LEMMA MaxIsLast ==
  ASSUME NEW n \in 0..6, NEW S, S \subseteq 1..n, S # {}
  PROVE  Max(S) \in S /\ \A i \in S : i <= Max(S)
<1>1. \E x \in S : \A y \in S : x >= y
  <2>1. S \subseteq {1, 2, 3, 4, 5, 6}
    OBVIOUS
  <2>2. CASE 6 \in S
    BY <2>1, <2>2
  <2>3. CASE 5 \in S /\ 6 \notin S
    BY <2>1, <2>3
  <2>4. CASE 4 \in S /\ 5 \notin S /\ 6 \notin S
    BY <2>1, <2>4
  <2>5. CASE 3 \in S /\ 4 \notin S /\ 5 \notin S /\ 6 \notin S
    BY <2>1, <2>5
  <2>6. CASE 2 \in S /\ 3 \notin S /\ 4 \notin S /\ 5 \notin S /\ 6 \notin S
    BY <2>1, <2>6
  <2>7. CASE S \subseteq {1}
    <3>1. 1 \in S /\ \A y \in S : y = 1
      BY <2>7
    <3> QED
      BY <3>1
  <2> QED
    BY <2>1, <2>2, <2>3, <2>4, <2>5, <2>6, <2>7
<1>2. PICK m : m = Max(S)
  OBVIOUS
<1>3. m \in S /\ \A y \in S : m >= y
  BY <1>1, <1>2 DEF Max
<1> QED
  BY <1>2, <1>3

LEMMA EarlierShape ==
  ASSUME NEW c \in Sections, Len(c.history) <= MaxCalls, NEW st, Earlier(c, st) # {}
  PROVE  \E i \in DOMAIN c.history :
           /\ i = Max(Earlier(c, st)) /\ c.history[i] \in Entries
           /\ c.history[i].question = c.request /\ c.history[i].status = st
<1>1. PICK h : h = c.history
  OBVIOUS
<1>2. h \in Seq(Entries) /\ Len(h) \in 0..6
  <2>1. h \in Seq(Entries) /\ Len(h) \in Nat /\ Len(h) <= MaxCalls
    BY <1>1, SectionShapes
  <2>2. MaxCalls \in Nat /\ MaxCalls <= 6
    BY LimitsAssumption
  <2>3. PICK n : n = Len(h)
    OBVIOUS
  <2>4. n \in 0..6
    <3>1. n \in Nat /\ n <= MaxCalls
      BY <2>1, <2>3
    <3> QED
      BY <2>2, <3>1
  <2> QED
    BY <2>1, <2>3, <2>4
<1>3. PICK S : S = Earlier(c, st)
  OBVIOUS
<1>4. S = {i \in DOMAIN h : h[i].question = c.request /\ h[i].status = st}
  BY <1>1, <1>3 DEF Earlier
<1>5. S \subseteq 1..Len(h) /\ S # {}
  BY <1>2, <1>3, <1>4
<1>6. Max(S) \in S
  BY <1>2, <1>5, MaxIsLast
<1>7. \A i \in DOMAIN h : h[i] \in Entries
  BY <1>2
<1> QED
  BY <1>1, <1>3, <1>4, <1>6, <1>7

\* A question is answered from the history, or becomes a call that waits.
LEMMA NewCallShape ==
  ASSUME NEW c \in Sections, Len(c.history) <= MaxCalls, c.request \in Questions,
         NEW x, x = NewCall(c)
  PROVE  /\ x \in Calls /\ x.question = c.request
         /\ Earlier(c, "completed") # {} =>
              x.status = "completed" /\ \E i \in DOMAIN c.history : x = c.history[i]
         /\ Earlier(c, "completed") = {} => x.status = "pending" /\ x.funds = "no"
<1>1. CASE Earlier(c, "completed") # {}
  <2>1. PICK i \in DOMAIN c.history :
          /\ i = Max(Earlier(c, "completed")) /\ c.history[i] \in Entries
          /\ c.history[i].question = c.request /\ c.history[i].status = "completed"
    BY <1>1, EarlierShape
  <2>2. x = c.history[i]
    BY <1>1, <2>1 DEF NewCall
  <2> QED
    BY <1>1, <2>1, <2>2, EntryShapes
<1>2. CASE Earlier(c, "completed") = {}
  <2>1. PICK n : n = IF Earlier(c, "failed") = {} THEN 0 ELSE c.history[Max(Earlier(c, "failed"))].attempts
    OBVIOUS
  <2>2. n \in 0..MaxAttempts
    <3>1. CASE Earlier(c, "failed") = {}
      BY <2>1, <3>1, LimitsAssumption
    <3>2. CASE Earlier(c, "failed") # {}
      <4>1. PICK i \in DOMAIN c.history :
              i = Max(Earlier(c, "failed")) /\ c.history[i] \in Entries
        BY <3>2, EarlierShape
      <4> QED
        BY <2>1, <3>2, <4>1 DEF Entries
    <3> QED
      BY <3>1, <3>2
  <2>3. x = [question |-> c.request, status |-> "pending", funds |-> "no", attempts |-> n]
    BY <1>2, <2>1 DEF NewCall
  <2> QED
    BY <1>2, <2>2, <2>3 DEF Calls, Funds
<1> QED
  BY <1>1, <1>2

\* The history keeps its last entries: whatever held of each, and of each two, holds.
LEMMA KeptShape ==
  ASSUME NEW s \in Seq(Entries), Len(s) <= MaxCalls + 1, NEW t, t = KeptLast(s)
  PROVE  /\ t \in Seq(Entries) /\ Len(t) <= MaxCalls
         /\ \E k \in Nat : \A i \in DOMAIN t : i + k \in DOMAIN s /\ t[i] = s[i + k]
<1>1. MaxCalls \in Nat /\ MaxCalls >= 1 /\ Len(s) \in Nat /\ DOMAIN s = 1..Len(s)
  BY LimitsAssumption
<1>2. CASE Len(s) <= MaxCalls
  <2>1. t = s
    BY <1>2 DEF KeptLast
  <2>2. 0 \in Nat /\ \A i \in DOMAIN t : i + 0 \in DOMAIN s /\ t[i] = s[i + 0]
    BY <1>1, <2>1
  <2>3. Len(t) <= MaxCalls /\ t \in Seq(Entries)
    BY <1>2, <2>1
  <2> QED
    BY <2>2, <2>3
<1>3. CASE Len(s) > MaxCalls
  <2>0. Len(s) - MaxCalls \in Nat
    BY <1>1, <1>3
  <2>1. PICK k \in Nat : k = Len(s) - MaxCalls
    BY <2>0
  <2>2. t = SubSeq(s, k + 1, Len(s))
    BY <1>1, <1>3, <2>1 DEF KeptLast
  <2>3. Len(t) = MaxCalls /\ t \in Seq(Entries)
        /\ \A i \in 1..MaxCalls : t[i] = s[k + 1 + i - 1]
    BY <1>1, <1>3, <2>1, <2>2, SubSeqProperties
  <2>4. \A i \in DOMAIN t : i + k \in DOMAIN s /\ t[i] = s[i + k]
    BY <1>1, <2>1, <2>3
  <2> QED
    BY <1>1, <2>3, <2>4
<1> QED
  <2>1. Len(s) <= MaxCalls \/ Len(s) > MaxCalls
    BY <1>1
  <2> QED
    BY <1>2, <1>3, <2>1

\* A department's question becomes the open call, the call that was open waits.
LEMMA PreparedShape ==
  ASSUME NEW c \in Sections, NEW a, NEW o, CanPrepare(c, a, o), Len(c.history) <= MaxCalls,
         NEW new, new = Prepared(c)
  PROVE  /\ new \in Sections /\ new.call \in Calls /\ new.call.question = c.request
         /\ new.stack = Pushed(c) /\ new.history = c.history
         /\ new.request = c.request /\ new.answer = c.answer
         /\ new.replayed =>
              new.call.status = "completed" /\ \E i \in DOMAIN c.history : new.call = c.history[i]
         /\ ~new.replayed =>
              /\ new.call.status = "pending" /\ new.call.funds = "no"
              /\ NotAnsweredIn(c.history, c.request)
<1>1. c.request \in Questions /\ c.total < MaxCalls /\ c.total \in 0..MaxCalls
  BY SectionShapes DEF CanPrepare
<1>2. PICK x : x = NewCall(c)
  OBVIOUS
<1>3. /\ x \in Calls /\ x.question = c.request
      /\ Earlier(c, "completed") # {} =>
           x.status = "completed" /\ \E i \in DOMAIN c.history : x = c.history[i]
      /\ Earlier(c, "completed") = {} => x.status = "pending" /\ x.funds = "no"
  BY <1>1, <1>2, NewCallShape
<1>4. PICK s : s = Pushed(c)
  OBVIOUS
<1>5. s \in Seq(Calls)
  BY <1>4, SectionShapes, AppendProperties DEF Pushed
<1>6. PICK n : n = IF Earlier(c, "completed") \cup Earlier(c, "failed") = {} THEN c.total + 1 ELSE c.total
  OBVIOUS
<1>7. n \in 0..MaxCalls
  <2>1. MaxCalls \in Nat
    BY LimitsAssumption
  <2>2. c.total + 1 \in 0..MaxCalls
    BY <1>1, <2>1
  <2> QED
    BY <1>1, <1>6, <2>2
<1>8. PICK r \in BOOLEAN : r = (Earlier(c, "completed") # {})
  OBVIOUS
<1>9. new = [c EXCEPT !.call = x, !.stack = s, !.total = n, !.replayed = r]
  BY <1>2, <1>4, <1>6, <1>8 DEF Prepared, Sections
<1>10. /\ new \in Sections /\ new.call = x /\ new.stack = s /\ new.history = c.history
       /\ new.request = c.request /\ new.answer = c.answer /\ new.replayed = r
  BY <1>3, <1>5, <1>7, <1>9 DEF Sections
<1>11. Earlier(c, "completed") = {} => NotAnsweredIn(c.history, c.request)
  BY DEF Earlier, NotAnsweredIn
<1> QED
  BY <1>3, <1>4, <1>8, <1>10, <1>11

\* The open call leaves into the history and its parent becomes the open call.
LEMMA FinishedShape ==
  ASSUME NEW c \in Sections, CanFinish(c), Len(c.history) <= MaxCalls, OnceIn(c.history),
         c.stack = << >> \/ (\E s \in Calls : c.stack = <<s>>),
         ~c.replayed => NotAnsweredIn(c.history, c.call.question),
         NEW new, new = Finished(c)
  PROVE  /\ new \in Sections /\ Len(new.history) <= MaxCalls /\ OnceIn(new.history)
         /\ new.call = IF c.stack = << >> THEN None ELSE c.stack[1]
         /\ new.stack = << >> /\ new.request = None /\ new.replayed = c.replayed
         /\ \A i \in DOMAIN new.history :
              new.history[i] = c.call \/ \E j \in DOMAIN c.history : new.history[i] = c.history[j]
         /\ new.answer \in Answers /\ new.answer.question = c.call.question
         /\ new.answer.funds = c.call.funds
<1>1. PICK x : x = c.call /\ x \in Calls /\ x \in Entries
  BY SectionShapes DEF CanFinish, Calls, Entries
<1>2. PICK h : h = c.history /\ h \in Seq(Entries) /\ Len(h) \in Nat /\ Len(h) <= MaxCalls
  BY SectionShapes
<1>3. PICK s : s = IF c.replayed THEN h ELSE Append(h, x)
  OBVIOUS
<1>4. MaxCalls \in Nat /\ c.replayed \in BOOLEAN
  BY LimitsAssumption, SectionShapes
<1>6. /\ s \in Seq(Entries) /\ Len(s) <= MaxCalls + 1 /\ OnceIn(s)
      /\ \A i \in DOMAIN s : s[i] = x \/ \E j \in DOMAIN h : s[i] = h[j]
  <2>1. CASE c.replayed
    <3>1. s = h
      BY <1>3, <2>1
    <3> QED
      BY <1>2, <1>4, <3>1
  <2>2. CASE ~c.replayed
    <3>1. s = Append(h, x)
      BY <1>3, <2>2
    <3>2. /\ s \in Seq(Entries) /\ Len(s) = Len(h) + 1 /\ DOMAIN s = 1..Len(h) + 1
          /\ s[Len(h) + 1] = x /\ \A i \in 1..Len(h) : s[i] = h[i]
      BY <1>1, <1>2, <3>1, AppendProperties
    <3>3. DOMAIN h = 1..Len(h) /\ \A i \in DOMAIN s : i \in DOMAIN h \/ i = Len(h) + 1
      BY <1>2, <3>2
    <3>4. \A i \in DOMAIN h : ~(h[i].question = x.question /\ h[i].status = "completed")
      BY <1>1, <1>2, <2>2 DEF NotAnsweredIn
    <3>5. OnceIn(s)
      BY <1>2, <3>2, <3>3, <3>4 DEF OnceIn
    <3> QED
      BY <1>2, <1>4, <3>2, <3>3, <3>5
  <2> QED
    BY <1>4, <2>1, <2>2
<1>7. PICK t : t = KeptLast(s)
  OBVIOUS
<1>8. PICK k \in Nat : \A i \in DOMAIN t : i + k \in DOMAIN s /\ t[i] = s[i + k]
  BY <1>6, <1>7, KeptShape
<1>9. t \in Seq(Entries) /\ Len(t) <= MaxCalls
  BY <1>6, <1>7, KeptShape
<1>10. OnceIn(t)
  <2>1. SUFFICES ASSUME NEW i \in DOMAIN t, NEW j \in DOMAIN t,
                        t[i].status = "completed", t[j].status = "completed", t[i].question = t[j].question
                 PROVE  i = j
    BY DEF OnceIn
  <2>2. i + k = j + k
    BY <1>6, <1>8, <2>1 DEF OnceIn
  <2>3. i \in Nat /\ j \in Nat
    BY <1>9
  <2> QED
    BY <2>2, <2>3
<1>11. \A i \in DOMAIN t : t[i] = x \/ \E j \in DOMAIN h : t[i] = h[j]
  BY <1>6, <1>8
<1>12. PICK y : y = [question |-> x.question, status |-> x.status, funds |-> x.funds]
  OBVIOUS
<1>13. y \in Answers /\ y.question = x.question /\ y.funds = x.funds
  BY <1>1, <1>12 DEF Entries, Answers
<1>14. PICK p : p = IF c.stack = << >> THEN None ELSE c.stack[1]
  OBVIOUS
<1>15. p \in Calls \cup {None} /\ p = (IF c.stack = << >> THEN None ELSE Last(c.stack))
  BY <1>14 DEF Last
<1>16. << >> = IF c.stack = << >> THEN c.stack ELSE Front(c.stack)
  <2>1. ASSUME NEW e \in Calls PROVE Front(<<e>>) = << >>
    BY DEF Front
  <2> QED
    BY <2>1
<1>17. new = [c EXCEPT !.call = p, !.stack = << >>, !.history = t, !.answer = y, !.request = None]
  BY <1>1, <1>2, <1>3, <1>7, <1>12, <1>15, <1>16 DEF Finished, Recorded, Sections
<1>18. << >> \in Seq(Calls)
  OBVIOUS
<1>19. /\ new \in Sections /\ new.call = p /\ new.stack = << >> /\ new.history = t
       /\ new.request = None /\ new.answer = y /\ new.replayed = c.replayed
  BY <1>9, <1>13, <1>15, <1>17, <1>18 DEF Sections
<1> QED
  BY <1>1, <1>2, <1>9, <1>10, <1>11, <1>13, <1>14, <1>19

-----------------------------------------------------------------------------
(* What the agents of the departments may answer.                          *)

\* A result of the owner: only a collaboration asks, of the owner's own department;
\* who waits for the requester shows a question, but for customer support.
LEMMA ResultShapes ==
  ASSUME NEW d \in Departments, NEW r \in ResultsOf[d]
  PROVE  /\ r \in Results /\ r # None /\ r.kind \in NextActions
         /\ r.risky \in BOOLEAN /\ r.asks \in BOOLEAN /\ r.closes \in BOOLEAN
         /\ r.question \in Questions \cup {None}
         /\ r.question # None <=> r.kind = "collaborate"
         /\ r.question # None => r.question.from = d
         /\ r.kind = "execute_tool" => r.operation = "lookup"
         /\ r.kind = "wait_for_user_input" /\ d # "customer_support" => r.asks
         /\ d \in {"customer_support", "finance"} /\ r.kind \in Ends => r.closes
<1>1. r \in Results /\ r # None
  BY ResultsAssumption DEF Results
<1>2. PICK a \in Agents(d), b \in BOOLEAN :
        /\ r = Result(a, b)
        /\ d = "customer_support" \/ OnePrimary(a)
           \/ (d = "hr" /\ \A n \in Needs : a.next = ActionFor[n] => n \in a.needs)
        /\ d \in {"customer_support", "finance"} => (b <=> a.next \in Ends)
  <2>1. CASE d = "customer_support"
    <3>1. PICK a \in SupportAnswers : r = Result(a, SupportCloses(a))
      BY <2>1 DEF ResultsOf, SupportResults
    <3>2. a \in Agents("customer_support")
      BY <3>1 DEF SupportAnswers
    <3>0. SupportCloses(a) \in BOOLEAN
      BY DEF SupportCloses
    <3>3. PICK b \in BOOLEAN : b = SupportCloses(a)
      BY <3>0
    <3>4. b <=> a.next \in Ends
      BY <3>3 DEF SupportCloses
    <3> QED
      BY <2>1, <3>1, <3>2, <3>3, <3>4
  <2>2. CASE d = "it"
    <3>1. PICK a \in ITAnswers : r = Result(a, ITCloses(a))
      BY <2>2 DEF ResultsOf, ITResults
    <3>2. a \in Agents("it") /\ OnePrimary(a) /\ ITCloses(a) \in BOOLEAN
      BY <3>1 DEF ITAnswers, ITCloses, Agents, Answering
    <3> QED
      BY <2>2, <3>1, <3>2
  <2>3. CASE d = "finance"
    <3>1. PICK a \in FinanceAnswers : r = Result(a, FinanceCloses(a))
      BY <2>3 DEF ResultsOf, FinanceResults
    <3>2. a \in Agents("finance") /\ OnePrimary(a)
      BY <3>1 DEF FinanceAnswers
    <3>0. FinanceCloses(a) \in BOOLEAN
      BY DEF FinanceCloses
    <3>3. PICK b \in BOOLEAN : b = FinanceCloses(a)
      BY <3>0
    <3>4. b <=> a.next \in Ends
      BY <3>3 DEF FinanceCloses
    <3> QED
      BY <2>3, <3>1, <3>2, <3>3, <3>4
  <2>4. CASE d = "procurement"
    <3>1. PICK a \in ProcurementAnswers : r = Result(a, ProcurementCloses(a))
      BY <2>4 DEF ResultsOf, ProcurementResults
    <3>2. a \in Agents("procurement") /\ OnePrimary(a)
      BY <3>1 DEF ProcurementAnswers
    <3>0. ProcurementCloses(a) \in BOOLEAN
      BY DEF ProcurementCloses
    <3>3. PICK b \in BOOLEAN : b = ProcurementCloses(a)
      BY <3>0
    <3> QED
      BY <2>4, <3>1, <3>2, <3>3
  <2>5. CASE d = "hr"
    <3>1. PICK a \in HRAnswers : r = Result(a, HRCloses(a))
      BY <2>5 DEF ResultsOf, HRResults
    <3>2. a \in Agents("hr") /\ (\A n \in Needs : a.next = ActionFor[n] => n \in a.needs)
          /\ HRCloses(a) \in BOOLEAN
      BY <3>1 DEF HRAnswers, HRCloses, Agents, Answering
    <3> QED
      BY <2>5, <3>1, <3>2
  <2> QED
    BY <2>1, <2>2, <2>3, <2>4, <2>5 DEF Departments
<1>3. /\ a.next \in NextActions /\ a.risky \in BOOLEAN /\ a.asked \in Questions \cup {None}
      /\ a.asked # None <=> "department" \in a.needs
      /\ a.asked # None => a.asked.from = d
      /\ a.needs \ {"question"} = {n \in Needs \ {"question"} : ActionFor[n] = a.next}
  BY DEF Agents, Answering, Contract
<1>4. /\ "department" \in a.needs <=> a.next = "collaborate"
      /\ "tool" \in a.needs <=> a.next = "execute_tool"
  BY <1>3 DEF Needs, ActionFor
<1>5. a.next = "wait_for_user_input" /\ d # "customer_support" => "question" \in a.needs
  BY <1>2 DEF OnePrimary, Needs, ActionFor
<1>6. /\ r.kind = a.next /\ r.risky = a.risky /\ r.question = a.asked
      /\ r.operation = (IF "tool" \in a.needs THEN "lookup" ELSE None)
      /\ r.asks = ("question" \in a.needs) /\ r.closes = b
  BY <1>2 DEF Result
<1>7. r.asks \in BOOLEAN /\ (r.kind = "wait_for_user_input" /\ d # "customer_support" => r.asks)
  <2>1. r.asks \in BOOLEAN
    BY <1>6
  <2>2. r.kind = "wait_for_user_input" /\ d # "customer_support" => r.asks = TRUE
    BY <1>5, <1>6
  <2> QED
    BY <2>1, <2>2
<1>8. r.closes \in BOOLEAN /\ (d \in {"customer_support", "finance"} /\ r.kind \in Ends => r.closes)
  BY <1>2, <1>6
<1>9. /\ r.kind \in NextActions /\ r.risky \in BOOLEAN /\ r.question \in Questions \cup {None}
      /\ r.question # None <=> r.kind = "collaborate"
      /\ r.question # None => r.question.from = d
  BY <1>3, <1>4, <1>6
<1>10. r.kind = "execute_tool" => r.operation = "lookup"
  BY <1>4, <1>6
<1> QED
  BY <1>1, <1>7, <1>8, <1>9, <1>10

\* A reply: only procurement asks in its turn, and finance, asked by IT, says of the
\* budget what it computed.
LEMMA ReplyShapes ==
  ASSUME NEW q \in Questions, NEW y \in RepliesOn[Route(q)]
  PROVE  /\ y.funds \in Funds
         /\ Route(q) = <<"it", "finance">> => y.funds # "claimed"
         /\ y.outcome = "asks" => q.to = "procurement"
<1>1. PICK rt \in Routes : rt = Route(q)
  BY DEF Questions, Route
<1>2. rt[2] = q.to /\ rt[1] = q.from
  BY <1>1 DEF Route
<1>3. rt[2] \in {"it", "finance", "procurement"}
  BY DEF Routes
<1>4. CASE rt[2] = "it"
  <2>1. y \in ITReplies
    BY <1>1, <1>4 DEF RepliesOn
  <2>2. y.funds = "no" /\ y.outcome # "asks"
    BY <2>1 DEF ITReplies, Reply
  <2> QED
    BY <2>2 DEF Funds
<1>5. CASE rt[2] = "procurement"
  <2>1. y \in ProcurementReplies
    BY <1>1, <1>5 DEF RepliesOn
  <2>2. y.funds = "no"
    BY <2>1 DEF ProcurementReplies, Reply
  <2> QED
    BY <1>2, <1>5, <2>2 DEF Funds
<1>6. CASE rt[2] = "finance"
  <2>1. y \in FinanceReplies(NamesTheAmount(rt))
    BY <1>1, <1>6 DEF RepliesOn
  <2>2. PICK a \in FinanceAnswers, f \in Budgets :
          Grounded(a, f, NamesTheAmount(rt)) /\ y = FinanceReply(a, f)
    BY <2>1 DEF FinanceReplies
  <2>3. CASE a.approval # "none"
    <3>1. y = Reply("pauses", "no")
      BY <2>2, <2>3 DEF FinanceReply
    <3> QED
      BY <3>1 DEF Reply, Funds
  <2>4. CASE a.approval = "none" /\ a.budget # "enough"
    <3>1. y = Reply("answers", "no")
      BY <2>2, <2>4 DEF FinanceReply
    <3> QED
      BY <3>1 DEF Reply, Funds
  <2>5. CASE a.approval = "none" /\ a.budget = "enough"
    <3>1. y = Reply("answers", IF f # None /\ f.covers THEN "covered" ELSE "claimed")
      BY <2>2, <2>5 DEF FinanceReply
    <3>2. Route(q) = <<"it", "finance">> => f # None /\ f.covers
      BY <1>1, <2>2, <2>5 DEF Grounded, NamesTheAmount
    <3> QED
      BY <3>1, <3>2 DEF Reply, Funds
  <2> QED
    BY <2>3, <2>4, <2>5
<1> QED
  BY <1>3, <1>4, <1>5, <1>6

-----------------------------------------------------------------------------
(* What does not touch the calls leaves what is known of them.             *)

\* The timeline counts only the two ends of a call.
LEMMA QuietTells ==
  ASSUME Tells, node \in Nodes, node \notin {"collaboration_start", "collaboration_return"}
  PROVE  told' = told
<1>1. PICK e : e = EventFor(node, collab', human')
  OBVIOUS
<1>2. e \notin {"department_collaboration_started", "department_collaboration_completed"}
  BY <1>1 DEF EventFor, Nodes
<1> QED
  BY <1>1, <1>2 DEF Tells

LEMMA CallsStay ==
  ASSUME IInv, UNCHANGED <<owner, active, collab, funded, told>>
  PROVE  CallsOpen' /\ ToldAgrees' /\ HistoryAgrees' /\ FundsAgree' /\ AnswerAgrees'
<1>1. CallsOpen'
  BY DEF IInv, CallsOpen, Below, ActiveDepartmentFollowsTheCall
<1>2. ToldAgrees'
  BY DEF IInv, ToldAgrees, Owed
<1>3. HistoryAgrees'
  BY DEF IInv, HistoryAgrees
<1>4. FundsAgree'
  BY DEF IInv, FundsAgree
<1>5. AnswerAgrees'
  BY DEF IInv, AnswerAgrees
<1> QED
  BY <1>1, <1>2, <1>3, <1>4, <1>5

\* The owner works only when no call is open: a receiver is never the owner.
LEMMA OwnerWorksAlone ==
  ASSUME IInv, active = owner
  PROVE  collab.call = None
<1>1. SUFFICES ASSUME collab.call # None PROVE FALSE
  OBVIOUS
<1>2. collab.call \in Calls /\ collab.call.question \in Questions
  BY <1>1, SectionShapes, CallShapes DEF IInv, TypeOK
<1>3. collab.call.question.to = owner
  BY <1>1 DEF IInv, CallsOpen, ActiveDepartmentFollowsTheCall
<1>4. CASE collab.stack = << >>
  BY <1>1, <1>2, <1>3, <1>4, QuestionShapes DEF IInv, CallsOpen
<1>5. CASE collab.stack # << >>
  BY <1>2, <1>3, <1>5, QuestionShapes DEF IInv, CallsOpen, Below
<1> QED
  BY <1>4, <1>5

-----------------------------------------------------------------------------
(* Every action keeps the invariant.                                       *)

LEMMA StageStartKeeps ==
  ASSUME IInv, StageStart
  PROVE  IInv'
<1> USE DEF IInv, StageStart
<1>1. told' = told
  BY QuietTells DEF TypeOK, Nodes
<1>2. TypeOK'
  BY <1>1 DEF TypeOK, Nodes, Steps
<1>3. CallsOpen' /\ ToldAgrees' /\ HistoryAgrees' /\ FundsAgree' /\ AnswerAgrees'
  BY <1>1, CallsStay
<1>4. NodeAgrees'
  BY DEF NodeAgrees
<1>5. WorkDone'
  BY DEF WorkDone, End
<1>6. RisksAgree'
  BY DEF RisksAgree
<1>7. QuestionAgrees'
  BY DEF QuestionAgrees, QuestionIsShown, End
<1> QED
  BY <1>2, <1>3, <1>4, <1>5, <1>6, <1>7

LEMMA ToolKeeps ==
  ASSUME IInv, Tool
  PROVE  IInv'
<1> USE DEF IInv, Tool
<1>1. told' = told
  BY QuietTells DEF TypeOK, Nodes
<1>2. TypeOK'
  <2>1. tools' \subseteq Operations
    <3>1. owner \in Departments /\ result \in ResultsOf[owner] /\ result.kind = "execute_tool"
      BY DEF TypeOK, NodeAgrees
    <3>2. result.operation \in Operations
      BY <3>1, ResultShapes DEF Operations
    <3> QED
      BY <3>2 DEF TypeOK
  <2> QED
    BY <1>1, <2>1 DEF TypeOK, Nodes
<1>3. CallsOpen' /\ ToldAgrees' /\ HistoryAgrees' /\ FundsAgree' /\ AnswerAgrees'
  BY <1>1, CallsStay
<1>4. NodeAgrees'
  BY DEF NodeAgrees, End
<1>5. WorkDone'
  BY DEF WorkDone, NodeAgrees, End
<1>6. RisksAgree'
  BY DEF RisksAgree
<1>7. QuestionAgrees'
  BY DEF QuestionAgrees, QuestionIsShown, End
<1> QED
  BY <1>2, <1>3, <1>4, <1>5, <1>6, <1>7

LEMMA HumanActionKeeps ==
  ASSUME IInv, HumanAction
  PROVE  IInv'
<1> USE DEF IInv, HumanAction
<1>1. told' = told
  BY QuietTells DEF TypeOK, Nodes
<1>2. TypeOK'
  BY <1>1 DEF TypeOK, Nodes
<1>3. CallsOpen' /\ ToldAgrees' /\ HistoryAgrees' /\ FundsAgree' /\ AnswerAgrees'
  BY <1>1, CallsStay
<1>4. NodeAgrees'
  BY DEF NodeAgrees, End
<1>5. WorkDone'
  BY DEF WorkDone, NodeAgrees, End, Ends
<1>6. RisksAgree'
  BY DEF RisksAgree, End
<1>7. QuestionAgrees'
  BY DEF QuestionAgrees, QuestionIsShown, End
<1> QED
  BY <1>2, <1>3, <1>4, <1>5, <1>6, <1>7

LEMMA FailureKeeps ==
  ASSUME IInv, Failure
  PROVE  IInv'
<1> USE DEF IInv, Failure
<1>1. told' = told
  BY QuietTells DEF TypeOK, Nodes
<1>2. TypeOK'
  BY <1>1 DEF TypeOK, Nodes
<1>3. CallsOpen' /\ ToldAgrees' /\ HistoryAgrees' /\ FundsAgree' /\ AnswerAgrees'
  BY <1>1, CallsStay
<1>4. NodeAgrees'
  BY DEF NodeAgrees, End
<1>5. WorkDone'
  BY DEF WorkDone, NodeAgrees, End, Ends
<1>6. RisksAgree'
  BY DEF RisksAgree, End
<1>7. QuestionAgrees'
  BY DEF QuestionAgrees, QuestionIsShown, End
<1> QED
  BY <1>2, <1>3, <1>4, <1>5, <1>6, <1>7

LEMMA CompletionKeeps ==
  ASSUME IInv, Completion
  PROVE  IInv'
<1> USE DEF IInv, Completion
<1>1. told' = told
  BY QuietTells DEF TypeOK, Nodes
<1>2. TypeOK'
  BY <1>1 DEF TypeOK, Nodes, Steps
<1>3. CallsOpen' /\ ToldAgrees' /\ HistoryAgrees' /\ FundsAgree' /\ AnswerAgrees'
  BY <1>1, CallsStay
<1>4. NodeAgrees'
  BY DEF NodeAgrees, End
<1>5. WorkDone'
  BY DEF WorkDone, NodeAgrees, End, Ends
<1>6. RisksAgree'
  BY DEF RisksAgree, End
<1>7. QuestionAgrees'
  BY DEF QuestionAgrees, QuestionIsShown, End
<1> QED
  BY <1>2, <1>3, <1>4, <1>5, <1>6, <1>7

LEMMA NodeRaisesKeeps ==
  ASSUME IInv, NodeRaises
  PROVE  IInv'
<1> USE DEF IInv, NodeRaises
<1>2. TypeOK'
  BY DEF TypeOK, Nodes
<1>3. CallsOpen' /\ ToldAgrees' /\ HistoryAgrees' /\ FundsAgree' /\ AnswerAgrees'
  BY CallsStay
<1>4. NodeAgrees'
  BY DEF NodeAgrees, End
<1>5. WorkDone'
  BY DEF WorkDone, NodeAgrees, End, Ends
<1>6. RisksAgree'
  BY DEF RisksAgree, End
<1>7. QuestionAgrees'
  BY DEF QuestionAgrees, QuestionIsShown, End
<1> QED
  BY <1>2, <1>3, <1>4, <1>5, <1>6, <1>7

LEMMA StopKeeps ==
  ASSUME IInv, Stop
  PROVE  IInv'
<1> USE DEF IInv, Stop
<1>2. TypeOK'
  BY DEF TypeOK, Nodes
<1>3. CallsOpen' /\ ToldAgrees' /\ HistoryAgrees' /\ FundsAgree' /\ AnswerAgrees'
  BY CallsStay
<1>4. NodeAgrees'
  BY DEF NodeAgrees, End
<1>5. WorkDone'
  BY DEF WorkDone, NodeAgrees, End, Ends
<1>6. RisksAgree'
  BY DEF RisksAgree, End
<1>7. QuestionAgrees'
  BY DEF QuestionAgrees, QuestionIsShown, End
<1> QED
  BY <1>2, <1>3, <1>4, <1>5, <1>6, <1>7

LEMMA ResumeKeeps ==
  ASSUME IInv, Resume
  PROVE  IInv'
<1> USE DEF IInv, Resume
<1>1. /\ NextSkeletonNode \in Nodes
      /\ NextSkeletonNode = "collaboration_receiver" =>
           collab.call # None /\ ~CanFinish(collab)
      /\ NextSkeletonNode \in {"department_stage_start", "department_execution"} =>
           "department_execution_completed" \notin steps
      /\ NextSkeletonNode = "completion" => "department_execution_completed" \in steps
      /\ collab.call = None /\ "department_execution_started" \notin steps =>
           NextSkeletonNode = "department_stage_start"
      /\ NextSkeletonNode \notin {"tool", "reviewer", "human_action", "failure"}
      /\ collab.call = None /\ "department_execution_completed" \in steps =>
           NextSkeletonNode = "completion"
  <2>1. PICK n : n = NextSkeletonNode
    OBVIOUS
  <2>2. n # End
    BY <2>1
  <2>3. CASE collab.call # None
    <3>1. \/ n = "collaboration_return"
          \/ n = "collaboration_start"
          \/ n = "collaboration_receiver" /\ ~CanFinish(collab)
      BY <2>1, <2>2, <2>3 DEF NextSkeletonNode
    <3> QED
      BY <2>1, <2>3, <3>1 DEF Nodes
  <2>4. CASE collab.call = None
    <3>1. \/ n = "department_stage_start" /\ "department_execution_started" \notin steps
          \/ /\ n = "department_execution" /\ "department_execution_started" \in steps
             /\ "department_execution_completed" \notin steps
          \/ /\ n = "completion" /\ "department_execution_started" \in steps
             /\ "department_execution_completed" \in steps
      BY <2>1, <2>2, <2>4 DEF NextSkeletonNode
    <3>2. "department_execution_completed" \in steps => "department_execution_started" \in steps
      BY DEF WorkDone
    <3> QED
      BY <2>1, <2>4, <3>1, <3>2 DEF Nodes
  <2> QED
    BY <2>3, <2>4
<1>2. TypeOK'
  BY <1>1 DEF TypeOK
<1>3. CallsOpen' /\ ToldAgrees' /\ HistoryAgrees' /\ FundsAgree' /\ AnswerAgrees'
  BY CallsStay
<1>4. NodeAgrees'
  <2>1. collab.call # None /\ ~CanFinish(collab) => collab.call.status \in {"pending", "running"}
    BY SectionShapes, CallShapes DEF TypeOK, CanFinish
  <2>2. status # "completed"
    BY DEF Terminal
  <2> QED
    BY <1>1, <2>1, <2>2 DEF NodeAgrees
<1>5. WorkDone'
  BY <1>1 DEF WorkDone, Terminal, End
<1>6. RisksAgree'
  <2>1. "department_execution_completed" \in steps => stopped
    BY DEF WorkDone, Terminal
  <2>2. status # "completed"
    BY DEF Terminal
  <2> QED
    BY <1>1, <2>1, <2>2 DEF RisksAgree
<1>7. QuestionAgrees'
  BY <1>1 DEF QuestionAgrees, QuestionIsShown
<1> QED
  BY <1>2, <1>3, <1>4, <1>5, <1>6, <1>7

\* Where a result leads.
LEMMA ActionShapes ==
  ASSUME NEW r, r.kind \in NextActions
  PROVE  /\ AfterAction(r) \in Nodes \cup {End}
         /\ AfterAction(r) = "tool" <=> r.kind = "execute_tool"
         /\ AfterAction(r) = End <=> r.kind = "wait_for_user_input"
         /\ AfterAction(r) = "completion" <=> r.kind = "complete_request"
         /\ AfterAction(r) = "failure" <=> r.kind = "fail_request"
         /\ AfterAction(r) \notin {"reviewer", "collaboration_receiver", "department_execution",
                                  "department_stage_start"}
BY DEF AfterAction, NextActions, Nodes, End

LEMMA ReviewerKeeps ==
  ASSUME IInv, Reviewer
  PROVE  IInv'
<1> USE DEF IInv
<1>1. PICK answer, verdict :
        /\ answer \in Verdicts
        /\ verdict = Capped(answer)
        /\ review.rounds < 2 /\ review' = Decided(verdict) /\ steps' = ReviewedSteps(verdict)
        /\ IF verdict = "human_escalation_required"
           THEN status' = "waiting_for_human_action" /\ human' = TRUE
           ELSE status' = "processing" /\ UNCHANGED human
        /\ node' = AfterReviewer(verdict)
  BY DEF Reviewer
<1>2. /\ node = "reviewer" /\ result # None /\ Tells
      /\ UNCHANGED <<owner, active, result, tools, collab, asking, record, stopped, funded>>
  BY DEF Reviewer
<1>3. verdict \in Verdicts /\ (verdict = "revision_required" => review.revisions < MaxRevisions)
  <2>1. review.revisions \in 0..1 /\ MaxRevisions \in 0..1
    BY RevisionsAssumption DEF TypeOK, Reviews
  <2>2. CASE answer = "revision_required" /\ review.revisions >= MaxRevisions
    <3>1. verdict = "human_escalation_required"
      BY <1>1, <2>2 DEF Capped
    <3> QED
      BY <3>1 DEF Verdicts
  <2>3. CASE ~(answer = "revision_required" /\ review.revisions >= MaxRevisions)
    <3>1. verdict = answer
      BY <1>1, <2>3 DEF Capped
    <3>2. answer \in Verdicts
      BY <1>1
    <3> QED
      BY <2>1, <2>3, <3>1, <3>2
  <2> QED
    BY <2>2, <2>3
<1>4. told' = told
  BY <1>2, QuietTells DEF Nodes
<1>5. /\ owner \in Departments /\ result \in ResultsOf[owner] /\ result.kind \in NextActions
      /\ result.kind = "execute_tool" => result.operation = "lookup"
  BY <1>2, ResultShapes DEF TypeOK, NodeAgrees
<1>6. /\ node' \in Nodes \cup {End}
      /\ node' = "tool" => result.kind = "execute_tool"
      /\ node' \notin {"reviewer", "collaboration_receiver", "department_stage_start"}
      /\ node' = "completion" => result.kind = "complete_request"
      /\ node' = End => result.kind = "wait_for_user_input"
      /\ result.kind \in Ends /\ verdict # "revision_required" =>
           node' \in {"completion", "failure", "human_action"}
      /\ node' \in {"completion", "failure"} => verdict # "revision_required"
  <2>1. CASE verdict = "approved"
    <3>1. node' = AfterAction(result)
      BY <1>1, <2>1 DEF AfterReviewer
    <3> QED
      BY <2>1, <3>1, <1>5, ActionShapes DEF Ends
  <2>2. CASE verdict # "approved"
    <3>1. \/ verdict = "revision_required" /\ node' = "department_execution"
          \/ verdict # "revision_required" /\ node' \in {"human_action", "failure"}
      BY <1>1, <1>3, <2>2 DEF AfterReviewer, Verdicts
    <3> QED
      BY <3>1 DEF Nodes, End
  <2> QED
    BY <2>1, <2>2
<1>7. /\ verdict = "revision_required" => steps' = steps \ {"department_execution_completed"}
      /\ verdict # "revision_required" => steps' = steps \cup {"reviewer_completed"}
  BY <1>1 DEF ReviewedSteps
<1>8. /\ review'.revisions = IF verdict = "revision_required" THEN review.revisions + 1 ELSE review.revisions
      /\ review' \in Reviews
  <2>1. PICK v : v = review /\ v \in Reviews /\ v.rounds \in 0..2 /\ v.revisions \in 0..1 /\ v.rounds < 2
    BY <1>1 DEF TypeOK, Reviews
  <2>2. PICK n : n = IF verdict = "revision_required" THEN v.revisions + 1 ELSE v.revisions
    OBVIOUS
  <2>3. n \in 0..1 /\ v.rounds + 1 \in 0..2
    BY <1>3, <2>1, <2>2, RevisionsAssumption
  <2>4. review' = [rounds |-> v.rounds + 1, revisions |-> n, decision |-> verdict]
    BY <1>1, <2>1, <2>2 DEF Decided
  <2> QED
    BY <1>3, <2>1, <2>2, <2>3, <2>4 DEF Reviews
<1>9. TypeOK'
  BY <1>1, <1>2, <1>4, <1>6, <1>7, <1>8 DEF TypeOK, Steps
<1>10. CallsOpen' /\ ToldAgrees' /\ HistoryAgrees' /\ FundsAgree' /\ AnswerAgrees'
  BY <1>2, <1>4, CallsStay
<1>11. NodeAgrees'
  <2>1. review'.revisions <= MaxRevisions
    BY <1>3, <1>8, RevisionsAssumption DEF TypeOK, Reviews, NodeAgrees
  <2>2. "department_execution_started" \in steps'
    BY <1>2, <1>7 DEF NodeAgrees, End
  <2>3. status' # "completed"
    BY <1>1
  <2> QED
    BY <1>2, <1>6, <2>1, <2>2, <2>3 DEF NodeAgrees
<1>12. WorkDone'
  <2>1. CASE verdict = "revision_required"
    <3>1. "department_execution_completed" \notin steps'
      BY <1>7, <2>1
    <3>2. node' \notin {"completion", "failure", "reviewer"} /\ status' # "completed"
      BY <1>1, <1>6, <2>1
    <3> QED
      BY <3>1, <3>2 DEF WorkDone
  <2>2. CASE verdict # "revision_required"
    <3>1. "department_execution_completed" \in steps' <=> "department_execution_completed" \in steps
      BY <1>7, <2>2
    <3>2. "department_execution_started" \in steps'
      BY <1>2, <1>7 DEF NodeAgrees, End
    <3>3. result.kind \in Ends => "department_execution_completed" \in steps
      BY <1>2 DEF WorkDone
    <3>4. "department_execution_completed" \in steps =>
            /\ collab.call = None /\ result.kind \in Ends
            /\ owner \in {"customer_support", "finance"} => record = "closed"
      BY DEF WorkDone
    <3>5. status' # "completed" /\ End \notin {"completion", "failure", "human_action"}
      BY <1>1 DEF End
    <3> QED
      BY <1>2, <1>6, <2>2, <3>1, <3>2, <3>3, <3>4, <3>5 DEF WorkDone, Ends
  <2> QED
    BY <2>1, <2>2
<1>13. RisksAgree'
  BY <1>1, <1>6, <1>7 DEF RisksAgree
<1>14. QuestionAgrees'
  BY <1>2, <1>6 DEF QuestionAgrees, QuestionIsShown
<1> QED
  BY <1>9, <1>10, <1>11, <1>12, <1>13, <1>14

LEMMA ExecuteKeeps ==
  ASSUME IInv, Execute
  PROVE  IInv'
<1> USE DEF IInv
<1>1. PICK r \in ResultsOf[owner] :
        /\ Accepted(r) /\ result' = r /\ steps' = WorkedSteps(r) /\ collab' = Merged(r)
        /\ human' = (human \/ r.kind = "request_human_action")
        /\ asking' = (asking \/ r.asks)
        /\ record' = Filed(r) /\ status' = GapStatus(r) /\ node' = AfterDepartment(r)
  BY DEF Execute
<1>2. /\ node = "department_execution" /\ Tells
      /\ UNCHANGED <<owner, active, tools, review, stopped, funded>>
  BY DEF Execute
<1>3. told' = told
  BY <1>2, QuietTells DEF Nodes
<1>4. /\ owner \in Departments /\ r \in Results /\ r # None /\ r.kind \in NextActions
      /\ r.risky \in BOOLEAN /\ r.asks \in BOOLEAN /\ r.closes \in BOOLEAN
      /\ r.question \in Questions \cup {None}
      /\ r.question # None => r.question.from = owner
      /\ r.kind = "wait_for_user_input" /\ owner # "customer_support" => r.asks
      /\ owner \in {"customer_support", "finance"} /\ r.kind \in Ends => r.closes
  BY ResultShapes DEF TypeOK
<1>5. active = owner /\ collab.call = None /\ collab.stack = << >>
  <2>1. active = owner
    BY <1>1 DEF Accepted
  <2> QED
    BY <2>1, OwnerWorksAlone DEF CallsOpen, Below
<1>6. /\ "department_execution_started" \in steps /\ "department_execution_completed" \notin steps
      /\ status # "completed"
  BY <1>2 DEF NodeAgrees, WorkDone, End
<1>7. /\ node' = "reviewer" \/ node' = AfterAction(r)
      /\ node' \in {"completion", "failure"} /\ r.risky => "reviewer_completed" \in steps
      /\ node' \in Nodes \cup {End}
      /\ node' = "tool" => r.kind = "execute_tool"
      /\ node' = End => r.kind = "wait_for_user_input"
      /\ node' \notin {"collaboration_receiver", "department_stage_start", "department_execution"}
      /\ node' \in {"completion", "failure"} => r.kind \in Ends
      /\ r.kind \in Ends => node' \in {"reviewer", "completion", "failure"}
  <2>1. CASE "reviewer_completed" \notin steps /\ r.risky
    <3>1. node' = "reviewer"
      BY <1>1, <2>1 DEF AfterDepartment
    <3> QED
      BY <3>1 DEF Nodes, End
  <2>2. CASE ~("reviewer_completed" \notin steps /\ r.risky)
    <3>1. node' = AfterAction(r)
      BY <1>1, <2>2 DEF AfterDepartment
    <3> QED
      BY <1>4, <2>2, <3>1, ActionShapes DEF Ends
  <2> QED
    BY <2>1, <2>2
<1>8. steps' = IF r.kind \in Ends THEN steps \cup {"department_execution_completed"} ELSE steps
  BY <1>1 DEF WorkedSteps, Ends
<1>9. /\ collab' \in Sections /\ collab'.call = collab.call /\ collab'.stack = collab.stack
      /\ collab'.history = collab.history /\ collab'.replayed = collab.replayed
      /\ \/ collab'.request = collab.request /\ collab'.answer = collab.answer
         \/ collab'.request = None /\ collab'.answer = None
         \/ collab'.request = r.question /\ r.question # None /\ collab'.answer = None
  <2>1. PICK c \in Sections : c = collab
    BY DEF TypeOK
  <2>2. PICK new : new = collab'
    OBVIOUS
  <2>3. \/ new = Settled(c)
        \/ r.question # None /\ new = Asked(c, r.question)
        \/ new = c
    BY <1>1, <2>1, <2>2 DEF Merged
  <2>4. CASE new = Settled(c)
    <3>1. /\ new \in Sections /\ new.request = None /\ new.answer = None
          /\ new.call = c.call /\ new.stack = c.stack /\ new.history = c.history /\ new.replayed = c.replayed
      BY <2>4, SettledShape
    <3> QED
      BY <2>1, <2>2, <3>1
  <2>5. CASE r.question # None /\ new = Asked(c, r.question)
    <3>1. /\ new \in Sections /\ new.request = r.question /\ new.answer = None
          /\ new.call = c.call /\ new.stack = c.stack /\ new.history = c.history /\ new.replayed = c.replayed
      BY <1>4, <2>5, AskedShape
    <3> QED
      BY <2>1, <2>2, <2>5, <3>1
  <2>6. CASE new = c
    BY <2>1, <2>2, <2>6
  <2> QED
    BY <2>3, <2>4, <2>5, <2>6
<1>10. status' \in {status, "failed"} /\ (r.kind # "fail_request" => status' = status)
  BY <1>1 DEF GapStatus
<1>11. TypeOK'
  <2>1. human' \in BOOLEAN
    BY <1>1 DEF TypeOK
  <2>2. asking' \in BOOLEAN
    BY <1>1, <1>4 DEF TypeOK
  <2>3. record' \in {"none", "open", "closed"}
    BY <1>1 DEF Filed
  <2>4. steps' \subseteq Steps
    BY <1>8 DEF TypeOK, Steps
  <2> QED
    BY <1>1, <1>2, <1>3, <1>4, <1>7, <1>9, <1>10, <2>1, <2>2, <2>3, <2>4 DEF TypeOK
<1>12. CallsOpen'
  BY <1>2, <1>5, <1>9 DEF CallsOpen, ActiveDepartmentFollowsTheCall
<1>13. ToldAgrees'
  BY <1>3, <1>5, <1>9 DEF ToldAgrees, Owed
<1>14. HistoryAgrees'
  BY <1>5, <1>9 DEF HistoryAgrees
<1>15. FundsAgree'
  <2>1. r.question # None /\ ForSuppliers(r.question) => funded
    <3>1. SUFFICES ASSUME r.question # None, ForSuppliers(r.question) PROVE funded
      OBVIOUS
    <3>2. /\ collab.answer # None /\ Route(collab.answer.question) = <<"it", "finance">>
          /\ collab.answer.funds # "no"
      BY <1>1, <3>1 DEF Accepted, Justified, ForSuppliers
    <3>3. collab.answer \in Answers
      BY <3>2, SectionShapes DEF TypeOK
    <3>4. collab.answer.funds = "covered"
      BY <3>2, <3>3 DEF FundsAgree, Honest, Answers, Funds
    <3> QED
      BY <3>2, <3>4 DEF FundsAgree, SaysCovered
  <2>2. collab'.answer # None => Honest(collab'.answer) /\ (SaysCovered(collab'.answer) => funded')
    BY <1>2, <1>9 DEF FundsAgree
  <2>3. collab'.request # None /\ ForSuppliers(collab'.request) => funded'
    BY <1>2, <1>9, <2>1 DEF FundsAgree
  <2>4. \A i \in DOMAIN collab'.history : Honest(collab'.history[i])
    BY <1>9 DEF FundsAgree
  <2> QED
    BY <1>5, <1>9, <2>2, <2>3, <2>4 DEF FundsAgree
<1>16. AnswerAgrees'
  BY <1>2, <1>9 DEF AnswerAgrees
<1>17. NodeAgrees'
  BY <1>1, <1>2, <1>4, <1>5, <1>6, <1>7, <1>8, <1>9, <1>10 DEF NodeAgrees
<1>18. WorkDone'
  <2>1. CASE r.kind \in Ends
    <3>1. "department_execution_completed" \in steps' /\ "department_execution_started" \in steps'
      BY <1>6, <1>8, <2>1
    <3>2. owner' \in {"customer_support", "finance"} => record' = "closed"
      BY <1>1, <1>2, <1>4, <2>1 DEF Filed
    <3>3. node' \in {"reviewer", "completion", "failure", "human_action", End} /\ node' # End
      BY <1>7, <2>1 DEF End, Ends
    <3> QED
      BY <1>1, <1>4, <1>5, <1>9, <2>1, <3>1, <3>2, <3>3 DEF WorkDone
  <2>2. CASE r.kind \notin Ends
    <3>1. "department_execution_completed" \notin steps'
      BY <1>6, <1>8, <2>2
    <3>2. node' \notin {"completion", "failure"} /\ status' # "completed"
      BY <1>6, <1>7, <1>10, <2>2
    <3> QED
      BY <1>1, <2>2, <3>1, <3>2 DEF WorkDone
  <2> QED
    BY <2>1, <2>2
<1>19. RisksAgree'
  BY <1>1, <1>6, <1>7, <1>8, <1>10 DEF RisksAgree
<1>20. QuestionAgrees'
  <2>1. r.kind = "wait_for_user_input" /\ owner # "customer_support" => asking'
    BY <1>1, <1>4
  <2> QED
    BY <1>1, <1>2, <2>1 DEF QuestionAgrees, QuestionIsShown
<1> QED
  BY <1>11, <1>12, <1>13, <1>14, <1>15, <1>16, <1>17, <1>18, <1>19, <1>20

LEMMA CollaborationStartKeeps ==
  ASSUME IInv, CollaborationStart
  PROVE  IInv'
<1> USE DEF IInv
<1>1. /\ node = "collaboration_start" /\ CanPrepare(collab, active, owner)
      /\ collab' = Prepared(collab) /\ active' = collab.request.to /\ status' = "waiting_for_department"
      /\ node' = IF collab'.call.status = "completed" THEN "collaboration_return" ELSE "collaboration_receiver"
      /\ UNCHANGED <<owner, steps, result, tools, review, human, asking, record, stopped, funded>>
      /\ Tells
  BY DEF CollaborationStart
<1>2. PICK c \in Sections : c = collab
  BY DEF TypeOK
<1>3. PICK new : new = collab'
  OBVIOUS
<1>4. PICK q \in Questions : q = c.request
  BY <1>1, <1>2, SectionShapes DEF CanPrepare
<1>5. /\ new \in Sections /\ new.call \in Calls /\ new.call.question = q
      /\ new.stack = Pushed(c) /\ new.history = c.history /\ new.request = q /\ new.answer = c.answer
      /\ new.replayed => new.call.status = "completed" /\ \E i \in DOMAIN c.history : new.call = c.history[i]
      /\ ~new.replayed =>
           new.call.status = "pending" /\ new.call.funds = "no" /\ NotAnsweredIn(c.history, q)
  <2>1. CanPrepare(c, active, owner) /\ Len(c.history) <= MaxCalls /\ new = Prepared(c)
    BY <1>1, <1>2, <1>3 DEF HistoryAgrees
  <2> QED
    BY <1>4, <2>1, PreparedShape
<1>6. q.from = active /\ active' = q.to /\ c.answer = None
  BY <1>1, <1>2, <1>4 DEF CanPrepare, MayAsk, AnswerAgrees
<1>7. /\ q.from \in Departments /\ q.to \in Departments /\ q.from # q.to /\ q # None
      /\ q.from = "procurement" => Route(q) = <<"procurement", "finance">>
      /\ \A d, e : Route(q) = <<d, e>> <=> q.from = d /\ q.to = e
  BY QuestionShapes
<1>8. new.call # None /\ new.replayed \in BOOLEAN
  BY <1>5, CallShapes, SectionShapes
<1>9. \/ c.call = None /\ c.stack = << >> /\ new.stack = << >> /\ q.from = owner
      \/ /\ c.call # None /\ c.call \in Calls /\ c.stack = << >> /\ new.stack = <<c.call>>
         /\ c.call.status = "running" /\ ForSuppliers(c.call.question) /\ owner = "it"
         /\ q.from = "procurement" /\ MaxDepth >= 2
  <2>1. CASE c.call = None
    <3>1. c.stack = << >> /\ active = owner
      BY <1>1, <1>2, <2>1 DEF CallsOpen, Below, CanPrepare, MayAsk
    <3> QED
      BY <1>5, <1>6, <2>1, <3>1 DEF Pushed
  <2>2. CASE c.call # None
    <3>1. /\ c.call \in Calls /\ c.call.status = "running" /\ c.call.question.to = q.from
          /\ Route(c.call.question) \in Nesting /\ c.call.question \in Questions
      BY <1>1, <1>2, <1>4, <2>2, SectionShapes, CallShapes DEF CanPrepare, MayAsk
    <3>2. Route(c.call.question) = <<"it", "procurement">>
      BY <3>1 DEF Nesting
    <3>3. c.call.question.from = "it" /\ q.from = "procurement"
      BY <3>1, <3>2 DEF Route
    <3>4. c.stack = << >>
      <4>1. SUFFICES ASSUME c.stack # << >> PROVE FALSE
        OBVIOUS
      <4>2. Route(c.call.question) = <<"procurement", "finance">>
        BY <1>2, <4>1 DEF CallsOpen, Below
      <4> QED
        BY <3>2, <4>2
    <3>5. owner = "it"
      BY <1>2, <2>2, <3>3, <3>4 DEF CallsOpen
    <3>6. Pushed(c) = <<c.call>>
      BY <2>2, <3>4 DEF Pushed
    <3>7. Len(<<c.call>>) + 1 <= MaxDepth
      BY <1>1, <1>2, <3>6 DEF CanPrepare
    <3>8. MaxDepth >= 2
      BY <3>7, LimitsAssumption
    <3> QED
      BY <1>5, <2>2, <3>1, <3>2, <3>3, <3>4, <3>5, <3>6, <3>8 DEF ForSuppliers
  <2> QED
    BY <2>1, <2>2
<1>10. told' = IF new.replayed THEN told ELSE told + 1
  <2>1. PICK e : e = EventFor(node, collab', human')
    OBVIOUS
  <2>2. ~new.replayed => e = "department_collaboration_started"
    BY <1>1, <1>3, <2>1 DEF EventFor
  <2>3. new.replayed => e = "none"
    BY <1>1, <1>3, <2>1 DEF EventFor
  <2> QED
    BY <1>1, <1>8, <2>1, <2>2, <2>3 DEF Tells
<1>11. ToldAgrees'
  <2>1. told = IF c.call = None THEN 0 ELSE 1
    BY <1>2, <1>9 DEF ToldAgrees, Owed
  <2>2. Owed' = (IF new.stack = << >> THEN 0 ELSE 1) + (IF new.replayed THEN 0 ELSE 1)
    BY <1>3, <1>5, <1>8 DEF Owed
  <2>3. new.stack = << >> <=> c.call = None
    BY <1>9
  <2>4. told' = Owed'
    BY <1>8, <1>10, <2>1, <2>2, <2>3
  <2> QED
    BY <1>3, <1>5, <1>8, <2>4 DEF ToldAgrees
<1>12. TypeOK'
  <2>1. told' \in 0..MaxDepth
    <3>1. told = (IF c.call = None THEN 0 ELSE 1) /\ MaxDepth \in Nat /\ MaxDepth >= 1
      BY <1>2, <1>9, LimitsAssumption DEF ToldAgrees, Owed
    <3> QED
      BY <1>8, <1>9, <1>10, <3>1
  <2>2. node' \in Nodes
    BY <1>1 DEF Nodes
  <2> QED
    BY <1>1, <1>3, <1>5, <1>6, <1>7, <2>1, <2>2 DEF TypeOK
<1>13. CallsOpen'
  <2>1. ActiveDepartmentFollowsTheCall'
    BY <1>3, <1>5, <1>6, <1>8 DEF ActiveDepartmentFollowsTheCall
  <2>2. CASE c.call = None
    BY <1>1, <1>3, <1>5, <1>9, <2>1, <2>2 DEF CallsOpen
  <2>3. CASE c.call # None
    <3>1. PICK s \in Calls : s = c.call
      BY <1>9, <2>3
    <3>2. Below(s)'
      BY <1>3, <1>5, <1>7, <1>8, <1>9, <2>3, <3>1 DEF Below, ForSuppliers
    <3>3. new.stack # << >>
      <4>1. new.stack = <<c.call>>
        BY <1>9, <2>3
      <4> QED
        BY <4>1
    <3>4. owner' = "it" /\ MaxDepth >= 2
      BY <1>1, <1>9, <2>3
    <3> QED
      BY <1>3, <2>1, <3>2, <3>3, <3>4 DEF CallsOpen
  <2> QED
    BY <2>2, <2>3
<1>14. HistoryAgrees'
  <2>1. c.call # None => NotAnsweredIn(c.history, c.call.question)
    BY <1>2, <1>9 DEF HistoryAgrees
  <2>2. new.stack # << >> => NotAnsweredIn(new.history, new.stack[1].question)
    BY <1>5, <1>9, <2>1
  <2>3. ~(new.replayed /\ new.call.status = "completed") => NotAnsweredIn(new.history, new.call.question)
    BY <1>5
  <2>4. Len(new.history) <= MaxCalls /\ OnceIn(new.history)
    BY <1>2, <1>5 DEF HistoryAgrees
  <2> QED
    BY <1>3, <2>2, <2>3, <2>4 DEF HistoryAgrees
<1>15. FundsAgree'
  <2>1. Honest(new.call)
    <3>1. CASE new.replayed
      BY <1>2, <1>5, <3>1 DEF FundsAgree
    <3>2. CASE ~new.replayed
      BY <1>5, <3>2 DEF Honest
    <3> QED
      BY <1>8, <3>1, <3>2
  <2>2. \A i \in DOMAIN new.history : Honest(new.history[i])
    BY <1>2, <1>5 DEF FundsAgree
  <2>3. ForSuppliers(q) => funded
    BY <1>2, <1>4, <1>7 DEF FundsAgree
  <2>4. new.stack # << >> => funded
    BY <1>2, <1>9 DEF FundsAgree
  <2>5. new.answer = None
    BY <1>5, <1>6
  <2> QED
    BY <1>1, <1>3, <1>5, <2>1, <2>2, <2>3, <2>4, <2>5 DEF FundsAgree
<1>16. AnswerAgrees'
  BY <1>3, <1>5, <1>6 DEF AnswerAgrees
<1>17. NodeAgrees'
  <2>1. "department_execution_started" \in steps
    BY <1>1 DEF NodeAgrees, End
  <2>2. node' = "collaboration_receiver" => new.call.status = "pending"
    BY <1>1, <1>3, <1>5, <1>8
  <2> QED
    BY <1>1, <1>3, <1>8, <2>1, <2>2 DEF NodeAgrees
<1>18. WorkDone'
  <2>1. "department_execution_completed" \notin steps
    BY <1>1 DEF WorkDone, End
  <2> QED
    BY <1>1, <2>1 DEF WorkDone
<1>19. RisksAgree'
  BY <1>1 DEF RisksAgree
<1>20. QuestionAgrees'
  BY <1>1 DEF QuestionAgrees, QuestionIsShown, End
<1> QED
  BY <1>11, <1>12, <1>13, <1>14, <1>15, <1>16, <1>17, <1>18, <1>19, <1>20

LEMMA CollaborationReceiverKeeps ==
  ASSUME IInv, CollaborationReceiver
  PROVE  IInv'
<1> USE DEF IInv
<1>1. /\ node = "collaboration_receiver" /\ CanExecute(collab)
      /\ ReceiverEnds \/ ReceiverAsks \/ ReceiverPauses
      /\ UNCHANGED <<owner, active, steps, result, tools, review, asking, record, stopped, funded>>
      /\ Tells
  BY DEF CollaborationReceiver
<1>2. PICK c \in Sections : c = collab
  BY DEF TypeOK
<1>3. PICK new : new = collab'
  OBVIOUS
<1>4. PICK x \in Calls : x = c.call /\ x # None /\ x.status \in {"pending", "running"}
  BY <1>1, <1>2, SectionShapes DEF NodeAgrees
<1>5. x.question \in Questions /\ x.attempts < MaxAttempts
  BY <1>1, <1>2, <1>4, CallShapes DEF CanExecute
<1>6. told' = told
  BY <1>1, QuietTells DEF Nodes
<1>7. /\ new \in Sections /\ new.call \in Calls /\ new.call.question = x.question /\ Honest(new.call)
      /\ new.stack = c.stack /\ new.history = c.history /\ new.replayed = FALSE
      /\ \/ new.request = c.request /\ new.answer = c.answer
         \/ new.request \in Questions /\ new.request.from = "procurement" /\ new.answer = None
  <2>1. CASE ReceiverEnds
    <3>1. PICK st \in {"completed", "failed"}, fu \in Funds :
            /\ new = Ended(c, st, fu)
            /\ Route(x.question) = <<"it", "finance">> => fu # "claimed"
      <4>1. CASE collab' = Ended(collab, "failed", "no")
        BY <1>2, <1>3, <4>1 DEF Funds
      <4>2. CASE \E reply \in RepliesTo(collab.call.question) : collab' = Ended(collab, "completed", reply.funds)
        <5>1. PICK reply \in RepliesOn[Route(x.question)] : new = Ended(c, "completed", reply.funds)
          BY <1>2, <1>3, <1>4, <4>2 DEF RepliesTo
        <5>2. reply.funds \in Funds /\ (Route(x.question) = <<"it", "finance">> => reply.funds # "claimed")
          BY <1>5, ReplyShapes
        <5> QED
          BY <5>1, <5>2
      <4> QED
        BY <2>1, <4>1, <4>2 DEF ReceiverEnds
    <3>2. PICK z : z = [Running(x) EXCEPT !.status = st, !.funds = fu]
      OBVIOUS
    <3>3. z \in Calls /\ z.question = x.question /\ z.funds = fu
      <4>1. PICK y : y = Running(x)
        OBVIOUS
      <4>2. y \in Calls /\ y.question = x.question
        BY <1>5, <4>1, RunningShape
      <4>3. z = [y EXCEPT !.status = st, !.funds = fu]
        BY <3>2, <4>1
      <4> QED
        BY <4>2, <4>3 DEF Calls
    <3>4. new = [c EXCEPT !.call = z, !.replayed = FALSE]
      BY <1>4, <3>1, <3>2 DEF Ended, Sections
    <3>5. /\ new \in Sections /\ new.call = z
          /\ new.stack = c.stack /\ new.history = c.history /\ new.replayed = FALSE
          /\ new.request = c.request /\ new.answer = c.answer
      BY <3>3, <3>4 DEF Sections
    <3> QED
      BY <3>1, <3>3, <3>5 DEF Honest
  <2>2. CASE ReceiverAsks
    <3>1. PICK q \in Questions : q.from = "procurement" /\ new = Nested(c, q)
      BY <1>2, <1>3, <2>2 DEF ReceiverAsks
    <3>2. /\ new \in Sections /\ new.call \in Calls /\ new.call.question = c.call.question
          /\ new.call.funds = c.call.funds
          /\ new.stack = c.stack /\ new.history = c.history /\ new.replayed = FALSE
          /\ new.request = q /\ new.answer = None
      <4>1. c.call # None /\ c.call.attempts < MaxAttempts
        BY <1>4, <1>5
      <4> QED
        BY <3>1, <4>1, NestedShape
    <3>3. Honest(c.call)
      BY <1>2, <1>4 DEF FundsAgree
    <3> QED
      BY <1>4, <3>1, <3>2, <3>3 DEF Honest
  <2>3. CASE ReceiverPauses
    <3>1. new = Paused(c)
      BY <1>2, <1>3, <2>3 DEF ReceiverPauses
    <3>2. /\ new \in Sections /\ new.call \in Calls /\ new.call.question = c.call.question
          /\ new.call.funds = c.call.funds
          /\ new.stack = c.stack /\ new.history = c.history /\ new.replayed = FALSE
          /\ new.request = c.request /\ new.answer = c.answer
      BY <1>4, <1>5, <3>1, PausedShape
    <3>3. Honest(c.call)
      BY <1>2, <1>4 DEF FundsAgree
    <3> QED
      BY <1>4, <3>1, <3>2, <3>3 DEF Honest
  <2> QED
    BY <1>1, <2>1, <2>2, <2>3
<1>8. /\ node' \in {End, "collaboration_start", "collaboration_return"}
      /\ status' \in {status, "waiting_for_human_action"} /\ human' \in BOOLEAN
      /\ node' = End => status' = "waiting_for_human_action"
  <2>2. \/ status' = "waiting_for_human_action" /\ node' = End
        \/ node' = "collaboration_start"
        \/ node' = "collaboration_return"
    <3>1. CASE ReceiverEnds
      BY <3>1 DEF ReceiverEnds, AfterReceiver
    <3>2. CASE ReceiverAsks
      BY <3>2 DEF ReceiverAsks, AfterReceiver
    <3>3. CASE ReceiverPauses
      BY <3>3 DEF ReceiverPauses, AfterReceiver
    <3> QED
      BY <1>1, <3>1, <3>2, <3>3
  <2>3. End \notin {"collaboration_start", "collaboration_return"}
    BY DEF End
  <2>4. status' \in {status, "waiting_for_human_action"} /\ human' \in BOOLEAN
    BY <1>1 DEF ReceiverEnds, ReceiverAsks, ReceiverPauses, TypeOK
  <2> QED
    BY <2>2, <2>3, <2>4
<1>9. new.call # None /\ c.call # None
  BY <1>4, <1>7, CallShapes
<1>10. TypeOK'
  BY <1>1, <1>3, <1>6, <1>7, <1>8 DEF TypeOK, Nodes
<1>11. CallsOpen'
  <2>1. ActiveDepartmentFollowsTheCall'
    BY <1>1, <1>2, <1>3, <1>4, <1>7, <1>9 DEF CallsOpen, ActiveDepartmentFollowsTheCall
  <2>2. c.stack = << >> => x.question.from = owner
    BY <1>2, <1>4 DEF CallsOpen
  <2>3. c.stack # << >> => MaxDepth >= 2 /\ owner = "it" /\ \E s \in Calls : Below(s)
    BY <1>2 DEF CallsOpen
  <2>4. ASSUME NEW s \in Calls, Below(s) PROVE Below(s)'
    BY <1>2, <1>3, <1>4, <1>7, <1>9, <2>4 DEF Below
  <2> QED
    BY <1>1, <1>3, <1>7, <2>1, <2>2, <2>3, <2>4 DEF CallsOpen
<1>12. ToldAgrees'
  <2>1. told = (IF c.stack = << >> THEN 0 ELSE 1) + 1
    BY <1>2, <1>4 DEF ToldAgrees, Owed
  <2>2. Owed' = (IF c.stack = << >> THEN 0 ELSE 1) + 1
    BY <1>3, <1>7, <1>9 DEF Owed
  <2> QED
    BY <1>3, <1>6, <1>7, <2>1, <2>2 DEF ToldAgrees
<1>13. HistoryAgrees'
  <2>1. NotAnsweredIn(c.history, x.question)
    BY <1>2, <1>4 DEF HistoryAgrees
  <2> QED
    BY <1>2, <1>3, <1>7, <2>1 DEF HistoryAgrees
<1>14. FundsAgree'
  <2>1. new.answer # None => Honest(new.answer) /\ (SaysCovered(new.answer) => funded)
    BY <1>2, <1>7 DEF FundsAgree
  <2>2. new.request # None /\ ForSuppliers(new.request) => funded
    BY <1>2, <1>7, QuestionShapes DEF FundsAgree, ForSuppliers
  <2>3. ForSuppliers(x.question) => funded
    BY <1>2, <1>4 DEF FundsAgree
  <2>4. c.stack # << >> => funded
    BY <1>2 DEF FundsAgree
  <2>5. \A i \in DOMAIN c.history : Honest(c.history[i])
    BY <1>2 DEF FundsAgree
  <2> QED
    BY <1>1, <1>3, <1>7, <2>1, <2>2, <2>3, <2>4, <2>5 DEF FundsAgree
<1>15. AnswerAgrees'
  BY <1>1, <1>2, <1>3, <1>7 DEF AnswerAgrees
<1>16. NodeAgrees'
  <2>1. "department_execution_started" \in steps /\ status # "completed"
    BY <1>1 DEF NodeAgrees, End
  <2> QED
    BY <1>1, <1>8, <2>1 DEF NodeAgrees, End
<1>17. WorkDone'
  <2>1. "department_execution_completed" \notin steps /\ status # "completed"
    BY <1>1 DEF WorkDone, NodeAgrees, End
  <2> QED
    BY <1>1, <1>8, <2>1 DEF WorkDone, End
<1>18. RisksAgree'
  <2>1. status # "completed"
    BY <1>1 DEF NodeAgrees, End
  <2> QED
    BY <1>1, <1>8, <2>1 DEF RisksAgree, End
<1>19. QuestionAgrees'
  BY <1>1, <1>8 DEF QuestionAgrees, QuestionIsShown, End
<1> QED
  BY <1>10, <1>11, <1>12, <1>13, <1>14, <1>15, <1>16, <1>17, <1>18, <1>19

LEMMA CollaborationReturnKeeps ==
  ASSUME IInv, CollaborationReturn
  PROVE  IInv'
<1> USE DEF IInv
<1>1. /\ node = "collaboration_return" /\ CanFinish(collab)
      /\ collab' = Finished(collab) /\ active' = Target(collab) /\ status' = "processing" /\ result' = None
      /\ funded' = (funded \/ SaysCovered(collab.call))
      /\ node' = IF collab'.call # None THEN "collaboration_receiver" ELSE "department_execution"
      /\ UNCHANGED <<owner, steps, tools, review, human, asking, record, stopped>>
      /\ Tells
  BY DEF CollaborationReturn
<1>2. PICK c \in Sections : c = collab
  BY DEF TypeOK
<1>3. PICK new : new = collab'
  OBVIOUS
<1>4. PICK x \in Calls : x = c.call /\ x # None /\ x.status \in {"completed", "failed"}
  BY <1>1, <1>2, SectionShapes DEF CanFinish
<1>5. x.question \in Questions
  BY CallShapes
<1>6. \/ c.stack = << >> /\ x.question.from = owner
      \/ \E s \in Calls :
           /\ c.stack = <<s>> /\ s.status = "running" /\ ForSuppliers(s.question) /\ owner = "it"
           /\ Route(x.question) = <<"procurement", "finance">>
  BY <1>2, <1>4 DEF CallsOpen, Below, ForSuppliers
<1>7. c.replayed \in BOOLEAN /\ (c.replayed => x.status = "completed")
  BY <1>2, <1>4, SectionShapes DEF ToldAgrees
<1>8. /\ new \in Sections /\ Len(new.history) <= MaxCalls /\ OnceIn(new.history)
      /\ new.call = IF c.stack = << >> THEN None ELSE c.stack[1]
      /\ new.stack = << >> /\ new.request = None /\ new.replayed = c.replayed
      /\ \A i \in DOMAIN new.history :
           new.history[i] = x \/ \E j \in DOMAIN c.history : new.history[i] = c.history[j]
      /\ new.answer \in Answers /\ new.answer.question = x.question /\ new.answer.funds = x.funds
  <2>1. CanFinish(c) /\ Len(c.history) <= MaxCalls /\ OnceIn(c.history) /\ new = Finished(c)
    BY <1>1, <1>2, <1>3 DEF HistoryAgrees
  <2>2. c.stack = << >> \/ (\E s \in Calls : c.stack = <<s>>)
    BY <1>6
  <2>3. ~c.replayed => NotAnsweredIn(c.history, c.call.question)
    BY <1>2, <1>4 DEF HistoryAgrees
  <2> QED
    BY <1>4, <2>1, <2>2, <2>3, FinishedShape
<1>9. told' = IF c.replayed THEN told ELSE told - 1
  <2>1. PICK e : e = EventFor(node, collab', human')
    OBVIOUS
  <2>2. ~c.replayed => e = "department_collaboration_completed"
    BY <1>1, <1>3, <1>8, <2>1 DEF EventFor
  <2>3. c.replayed => e = "none"
    BY <1>1, <1>3, <1>8, <2>1 DEF EventFor
  <2> QED
    BY <1>1, <1>7, <2>1, <2>2, <2>3 DEF Tells
<1>10. \/ c.stack = << >> /\ new.call = None /\ active' = x.question.from /\ x.question.from = owner
       \/ /\ c.stack # << >> /\ new.call \in Calls /\ new.call # None /\ new.call.status = "running"
          /\ c.stack[1] = new.call /\ ForSuppliers(new.call.question) /\ new.call.question \in Questions
          /\ owner = "it" /\ new.call.question.from = "it" /\ new.call.question.to = "procurement"
          /\ Route(x.question) = <<"procurement", "finance">> /\ x.question.from = "procurement"
          /\ active' = "procurement"
  <2>1. CASE c.stack = << >>
    <3>1. active' = x.question.from
      BY <1>1, <1>2, <1>4, <2>1 DEF Target
    <3>2. x.question.from = owner
      BY <1>2, <1>4, <2>1 DEF CallsOpen
    <3> QED
      BY <1>8, <2>1, <3>1, <3>2
  <2>2. CASE c.stack # << >>
    <3>1. PICK s \in Calls :
            /\ c.stack = <<s>> /\ s.status = "running" /\ ForSuppliers(s.question) /\ owner = "it"
            /\ Route(x.question) = <<"procurement", "finance">>
      BY <1>6, <2>2
    <3>2. new.call = s /\ Last(c.stack) = s /\ c.stack[1] = s
      BY <1>8, <2>2, <3>1 DEF Last
    <3>3. s # None /\ s.question \in Questions /\ s.question.from = "it" /\ s.question.to = "procurement"
          /\ x.question.from = "procurement"
      BY <3>1, CallShapes DEF ForSuppliers, Route
    <3>4. active' = s.question.to
      BY <1>1, <1>2, <2>2, <3>2 DEF Target
    <3> QED
      BY <2>2, <3>1, <3>2, <3>3, <3>4
  <2> QED
    BY <2>1, <2>2
<1>11. ToldAgrees'
  <2>1. told = (IF c.stack = << >> THEN 0 ELSE 1) + (IF c.replayed THEN 0 ELSE 1)
    BY <1>2, <1>4, <1>7 DEF ToldAgrees, Owed
  <2>2. Owed' = IF c.stack = << >> THEN 0 ELSE 1
    BY <1>3, <1>8, <1>10 DEF Owed
  <2>3. told' = Owed'
    BY <1>7, <1>9, <2>1, <2>2
  <2> QED
    BY <1>3, <1>10, <2>3 DEF ToldAgrees
<1>12. TypeOK'
  <2>1. told' \in 0..MaxDepth
    <3>1. MaxDepth \in Nat /\ MaxDepth >= 1
      BY LimitsAssumption
    <3>2. Owed' \in 0..1
      BY <1>3, <1>8, <1>10 DEF Owed
    <3>3. told' = Owed'
      BY <1>11 DEF ToldAgrees
    <3> QED
      BY <3>1, <3>2, <3>3
  <2>2. node' \in Nodes
    BY <1>1 DEF Nodes
  <2>3. active' \in Departments
    BY <1>10 DEF TypeOK, Departments
  <2>4. funded' \in BOOLEAN
    BY <1>1 DEF TypeOK, SaysCovered
  <2> QED
    BY <1>1, <1>3, <1>8, <2>1, <2>2, <2>3, <2>4 DEF TypeOK
<1>13. CallsOpen'
  <2>1. ActiveDepartmentFollowsTheCall'
    BY <1>1, <1>3, <1>10 DEF ActiveDepartmentFollowsTheCall
  <2> QED
    BY <1>1, <1>3, <1>8, <1>10, <2>1 DEF CallsOpen
<1>14. HistoryAgrees'
  <2>1. new.call # None => NotAnsweredIn(new.history, new.call.question)
    <3>1. SUFFICES ASSUME new.call # None PROVE NotAnsweredIn(new.history, new.call.question)
      OBVIOUS
    <3>2. NotAnsweredIn(c.history, new.call.question)
      BY <1>2, <1>10, <3>1 DEF HistoryAgrees
    <3>3. x.question # new.call.question
      BY <1>10, <3>1
    <3> QED
      BY <1>8, <3>2, <3>3 DEF NotAnsweredIn
  <2> QED
    BY <1>3, <1>8, <2>1 DEF HistoryAgrees
<1>15. FundsAgree'
  <2>1. Honest(x) /\ \A i \in DOMAIN c.history : Honest(c.history[i])
    BY <1>2, <1>4 DEF FundsAgree
  <2>2. \A i \in DOMAIN new.history : Honest(new.history[i])
    BY <1>8, <2>1
  <2>3. Honest(new.answer)
    BY <1>8, <2>1 DEF Honest
  <2>4. SaysCovered(new.answer) => funded'
    BY <1>1, <1>2, <1>4, <1>8 DEF SaysCovered
  <2>5. new.call # None => Honest(new.call)
    BY <1>10 DEF Honest, ForSuppliers
  <2>6. new.call # None => funded'
    BY <1>1, <1>2, <1>10 DEF FundsAgree
  <2> QED
    BY <1>3, <1>8, <2>2, <2>3, <2>4, <2>5, <2>6 DEF FundsAgree
<1>16. AnswerAgrees'
  BY <1>3, <1>8, <1>10 DEF AnswerAgrees
<1>17. NodeAgrees'
  <2>1. "department_execution_started" \in steps
    BY <1>1 DEF NodeAgrees, End
  <2> QED
    BY <1>1, <1>3, <1>10, <2>1 DEF NodeAgrees, End
<1>18. WorkDone'
  <2>1. "department_execution_completed" \notin steps
    BY <1>1 DEF WorkDone, End
  <2> QED
    BY <1>1, <2>1 DEF WorkDone
<1>19. RisksAgree'
  BY <1>1 DEF RisksAgree
<1>20. QuestionAgrees'
  BY <1>1 DEF QuestionAgrees, QuestionIsShown, End
<1> QED
  BY <1>11, <1>12, <1>13, <1>14, <1>15, <1>16, <1>17, <1>18, <1>19, <1>20

-----------------------------------------------------------------------------
(* The theorems.                                                           *)

LEMMA InitHolds == Init => IInv
<1> SUFFICES ASSUME Init PROVE IInv
  OBVIOUS
<1> USE DEF Init
<1>1. PICK c : c = NoCollaboration
  OBVIOUS
<1>2. /\ c \in Sections /\ c.call = None /\ c.stack = << >> /\ c.history = << >>
      /\ c.request = None /\ c.answer = None
  <2>1. 0 \in 0..MaxCalls /\ << >> \in Seq(Calls) /\ << >> \in Seq(Entries)
    BY LimitsAssumption
  <2> QED
    BY <1>1, <2>1 DEF NoCollaboration, Sections
<1>3. 1 \in Nat /\ MaxDepth \in Nat /\ MaxCalls \in Nat /\ 0 \in 0..MaxDepth
  BY LimitsAssumption
<1>4. TypeOK
  <2>1. review \in Reviews
    BY DEF Reviews
  <2> QED
    BY <1>1, <1>2, <1>3, <2>1, OwnersAssumption DEF TypeOK, Nodes
<1>5. CallsOpen
  BY <1>1, <1>2 DEF CallsOpen, ActiveDepartmentFollowsTheCall
<1>6. ToldAgrees
  BY <1>1, <1>2 DEF ToldAgrees, Owed
<1>7. HistoryAgrees
  BY <1>1, <1>2, <1>3 DEF HistoryAgrees, OnceIn
<1>8. FundsAgree
  BY <1>1, <1>2 DEF FundsAgree
<1>9. AnswerAgrees
  BY <1>1, <1>2 DEF AnswerAgrees
<1>10. NodeAgrees
  BY <1>1, <1>2, RevisionsAssumption DEF NodeAgrees, End
<1>11. WorkDone /\ RisksAgree /\ QuestionAgrees
  BY DEF WorkDone, RisksAgree, QuestionAgrees, QuestionIsShown, End
<1> QED
  BY <1>4, <1>5, <1>6, <1>7, <1>8, <1>9, <1>10, <1>11 DEF IInv

LEMMA NextKeeps == IInv /\ [Next]_vars => IInv'
<1> SUFFICES ASSUME IInv, [Next]_vars PROVE IInv'
  OBVIOUS
<1>1. CASE UNCHANGED vars
  <2> USE <1>1 DEF vars
  <2>1. CallsOpen' /\ ToldAgrees' /\ HistoryAgrees' /\ FundsAgree' /\ AnswerAgrees'
    BY CallsStay
  <2>2. TypeOK'
    BY DEF IInv, TypeOK
  <2>3. NodeAgrees'
    BY DEF IInv, NodeAgrees
  <2>4. WorkDone'
    BY DEF IInv, WorkDone
  <2>5. RisksAgree' /\ QuestionAgrees'
    BY DEF IInv, RisksAgree, QuestionAgrees, QuestionIsShown
  <2> QED
    BY <2>1, <2>2, <2>3, <2>4, <2>5 DEF IInv
<1>2. CASE NodeEnds
  BY <1>2, StageStartKeeps, ExecuteKeeps, ToolKeeps, CollaborationStartKeeps,
     CollaborationReceiverKeeps, CollaborationReturnKeeps, ReviewerKeeps, HumanActionKeeps,
     FailureKeeps, CompletionKeeps DEF NodeEnds
<1>3. CASE NodeRaises \/ Stop \/ Resume
  BY <1>3, NodeRaisesKeeps, StopKeeps, ResumeKeeps
<1> QED
  BY <1>1, <1>2, <1>3 DEF Next, Node

\* The sections of the document agree with each other after every node, retry, replay,
\* failure, stop and resume: the inductive invariant of the department's workflow.
THEOREM WorkflowInvariant == Spec => []IInv
BY InitHolds, NextKeeps, PTL DEF Spec

LEMMA PairOf ==
  ASSUME NEW x \in Calls, NEW y \in Calls
  PROVE  Append(<<x>>, y) = <<x, y>>
<1>1. PICK a : a = <<x>>
  OBVIOUS
<1>2. a \in Seq(Calls) /\ Len(a) = 1 /\ a[1] = x
  BY <1>1
<1>3. PICK s : s = Append(a, y)
  OBVIOUS
<1>4. s \in Seq(Calls) /\ Len(s) = 2 /\ s[1] = x /\ s[2] = y
  <2>0. a \in Seq(Calls)
    BY <1>2
  <2>1. /\ s \in Seq(Calls) /\ Len(s) = Len(a) + 1
        /\ \A i \in 1..Len(a) : s[i] = a[i]
        /\ s[Len(a) + 1] = y
    <3>1. s \in Seq(Calls)
      BY <1>3, <2>0, AppendProperties
    <3>2. Len(s) = Len(a) + 1
      BY <1>3, <2>0, AppendProperties
    <3>3. \A i \in 1..Len(a) : s[i] = a[i]
      BY <1>3, <2>0, AppendProperties
    <3>4. s[Len(a) + 1] = y
      BY <1>3, <2>0, AppendProperties
    <3> QED
      BY <3>1, <3>2, <3>3, <3>4
  <2>2. Len(a) + 1 = 2 /\ 1 \in 1..Len(a)
    BY <1>2
  <2>3. s[1] = a[1] /\ s[2] = y /\ Len(s) = 2
    BY <2>1, <2>2
  <2> QED
    BY <1>2, <2>1, <2>3
<1>5. PICK t : t = <<x, y>>
  OBVIOUS
<1>6. t \in Seq(Calls) /\ Len(t) = 2 /\ t[1] = x /\ t[2] = y
  BY <1>5
<1>7. \A i \in 1..Len(s) : s[i] = t[i]
  <2>1. 1..Len(s) = {1, 2}
    BY <1>4
  <2> QED
    BY <1>4, <1>6, <2>1
<1>8. s = t
  BY <1>4, <1>6, <1>7, SeqEqual
<1> QED
  BY <1>1, <1>3, <1>5, <1>8

\* The chain of open calls, its two lengths apart.
LEMMA ChainShapes ==
  ASSUME IInv
  PROVE  \/ CallChain = << >> /\ collab.call = None
         \/ /\ collab.call # None /\ collab.stack = << >> /\ CallChain = <<collab.call>>
            /\ collab.call.question.from = owner
         \/ /\ collab.call # None /\ MaxDepth >= 2 /\ owner = "it"
            /\ \E s \in Calls : Below(s) /\ CallChain = <<s, collab.call>>
<1>1. CASE collab.call = None
  BY <1>1 DEF IInv, CallsOpen, Below, CallChain, Pushed
<1>2. CASE collab.call # None /\ collab.stack = << >>
  BY <1>2 DEF IInv, CallsOpen, CallChain, Pushed
<1>3. CASE collab.call # None /\ collab.stack # << >>
  <2>1. MaxDepth >= 2 /\ owner = "it"
    BY <1>3 DEF IInv, CallsOpen
  <2>2. PICK s \in Calls : Below(s)
    BY <1>3 DEF IInv, CallsOpen
  <2>3. CallChain = Append(<<s>>, collab.call)
    BY <1>3, <2>2 DEF CallChain, Pushed, Below
  <2>4. collab.call \in Calls
    BY <1>3, SectionShapes DEF IInv, TypeOK
  <2>5. Append(<<s>>, collab.call) = <<s, collab.call>>
    BY <2>4, PairOf
  <2> QED
    BY <1>3, <2>1, <2>2, <2>3, <2>5
<1> QED
  BY <1>1, <1>2, <1>3

LEMMA ChainIsKept ==
  ASSUME IInv
  PROVE  PathIsAChain /\ Len(CallChain) <= MaxDepth
<1>1. CASE CallChain = << >>
  BY <1>1, LimitsAssumption DEF PathIsAChain
<1>2. CASE collab.call # None /\ CallChain = <<collab.call>> /\ collab.call.question.from = owner
  <2>1. collab.call.question \in Questions
    BY <1>2, SectionShapes, CallShapes DEF IInv, TypeOK
  <2>2. collab.call.question.to # owner
    BY <1>2, <2>1, QuestionShapes
  <2> QED
    BY <1>2, <2>2, LimitsAssumption DEF PathIsAChain
<1>3. CASE /\ collab.call # None /\ MaxDepth >= 2 /\ owner = "it"
           /\ \E s \in Calls : Below(s) /\ CallChain = <<s, collab.call>>
  <2>1. PICK s \in Calls : Below(s) /\ CallChain = <<s, collab.call>>
    BY <1>3
  <2>2. PICK x : x = collab.call
    OBVIOUS
  <2>3. /\ s.status = "running" /\ Route(s.question) = <<"it", "procurement">>
        /\ Route(x.question) = <<"procurement", "finance">>
    BY <2>1, <2>2 DEF Below
  <2>4. /\ s.question.from = "it" /\ s.question.to = "procurement"
        /\ x.question.from = "procurement" /\ x.question.to = "finance"
    BY <2>3 DEF Route
  <2>5. PICK chain : chain = <<s, x>>
    OBVIOUS
  <2>6. Len(chain) = 2 /\ chain[1] = s /\ chain[2] = x /\ DOMAIN chain = {1, 2}
    BY <2>5
  <2>7. chain = CallChain
    BY <2>1, <2>2, <2>5
  <2>8. chain[1].question.from = owner
    BY <1>3, <2>4, <2>6
  <2>9. \A i \in 1..Len(chain) - 1 :
          /\ chain[i].status = "running" /\ Route(chain[i].question) \in Nesting
          /\ chain[i].question.to = chain[i + 1].question.from
    <3>1. \A i \in 1..Len(chain) - 1 : i = 1 /\ i + 1 = 2
      BY <2>6
    <3> QED
      BY <2>3, <2>4, <2>6, <3>1 DEF Nesting
  <2>10. /\ \A i, j \in DOMAIN chain : chain[i].question.to = chain[j].question.to => i = j
         /\ \A i \in DOMAIN chain : chain[i].question.to # owner
    BY <1>3, <2>4, <2>6
  <2> QED
    BY <1>3, <2>6, <2>7, <2>8, <2>9, <2>10 DEF PathIsAChain
<1> QED
  BY <1>1, <1>2, <1>3, ChainShapes

LEMMA TimelineIsKept ==
  ASSUME IInv
  PROVE  CallsAreTold
<1> DEFINE Told(chain) == {i \in DOMAIN chain : ~(collab.replayed /\ chain[i].status = "completed")}
<1> SUFFICES told = Cardinality(Told(CallChain))
  BY DEF CallsAreTold
<1>1. told = Owed /\ collab.replayed \in BOOLEAN
  BY SectionShapes DEF IInv, TypeOK, ToldAgrees
<1>2. CASE CallChain = << >> /\ collab.call = None
  <2>1. Told(CallChain) = {}
    BY <1>2
  <2>2. told = 0
    BY <1>1, <1>2 DEF Owed
  <2> QED
    BY <2>1, <2>2, FS_EmptySet
<1>3. CASE collab.call # None /\ collab.stack = << >> /\ CallChain = <<collab.call>>
  <2>1. CASE collab.replayed /\ collab.call.status = "completed"
    <3>1. Told(CallChain) = {}
      BY <1>3, <2>1
    <3>2. told = 0
      BY <1>1, <1>3, <2>1 DEF Owed
    <3> QED
      BY <3>1, <3>2, FS_EmptySet
  <2>2. CASE ~(collab.replayed /\ collab.call.status = "completed")
    <3>1. Told(CallChain) = {1}
      BY <1>3, <2>2
    <3>2. told = 1
      BY <1>1, <1>3, <2>2 DEF Owed
    <3> QED
      BY <3>1, <3>2, FS_Singleton
  <2> QED
    BY <2>1, <2>2
<1>4. CASE collab.call # None /\ \E s \in Calls : Below(s) /\ CallChain = <<s, collab.call>>
  <2>1. PICK s \in Calls : Below(s) /\ CallChain = <<s, collab.call>>
    BY <1>4
  <2>2. s.status = "running" /\ collab.stack # << >>
    BY <2>1 DEF Below
  <2>3. CASE collab.replayed /\ collab.call.status = "completed"
    <3>1. Told(CallChain) = {1}
      BY <2>1, <2>2, <2>3
    <3>2. told = 1
      BY <1>1, <1>4, <2>2, <2>3 DEF Owed
    <3> QED
      BY <3>1, <3>2, FS_Singleton
  <2>4. CASE ~(collab.replayed /\ collab.call.status = "completed")
    <3>1. Told(CallChain) = {1} \cup {2}
      BY <2>1, <2>2, <2>4
    <3>2. told = 2
      BY <1>1, <1>4, <2>2, <2>4 DEF Owed
    <3>3. IsFiniteSet({1}) /\ Cardinality({1}) = 1
      BY FS_Singleton
    <3>4. 2 \notin {1}
      OBVIOUS
    <3>5. Cardinality({1} \cup {2}) = 2
      BY <3>3, <3>4, FS_AddElement
    <3> QED
      BY <3>1, <3>2, <3>5
  <2> QED
    BY <2>3, <2>4
<1> QED
  BY <1>2, <1>3, <1>4, ChainShapes

\* The calls between the departments nest, within the limits, and the timeline tells
\* each once: CollaborationService.prepare, execute and finish keep the path a chain from
\* the owner over every retry, replay, failure and resume.
THEOREM CallsStayNested == Spec => []CallsNest
<1>1. IInv => CallsNest
  <2> SUFFICES ASSUME IInv PROVE CallsNest
    OBVIOUS
  <2>1. \A i \in DOMAIN collab.history : collab.history[i].attempts <= MaxAttempts
    <3>1. PICK h : h = collab.history
      OBVIOUS
    <3>2. h \in Seq(Entries) /\ MaxAttempts \in Nat
      BY <3>1, SectionShapes, LimitsAssumption DEF IInv, TypeOK
    <3>3. \A i \in DOMAIN h : h[i] \in Entries
      BY <3>2
    <3>4. \A i \in DOMAIN h : h[i].attempts \in 0..MaxAttempts
      BY <3>3 DEF Entries
    <3> QED
      BY <3>1, <3>2, <3>4
  <2>2. LimitsKept
    BY <2>1, ChainIsKept DEF IInv, HistoryAgrees, NodeAgrees, LimitsKept
  <2> QED
    BY <2>2, ChainIsKept, TimelineIsKept DEF IInv, CallsOpen, CallsNest
<1> QED
  BY <1>1, WorkflowInvariant, PTL

\* An answer in the document is the answer to the last question of the department in
\* charge, a question is answered once, IT looks for suppliers only when finance told it
\* that a budget covers the cost, and a request that waits for its requester shows what
\* it asks (finish, ITService._validate, FinanceService._validate).
THEOREM AnswersStayWithTheAsker == Spec => []AnswersReachTheAsker
<1>1. IInv => AnswersReachTheAsker
  <2> SUFFICES ASSUME IInv PROVE AnswersReachTheAsker
    OBVIOUS
  <2>1. \A i \in DOMAIN CallChain : ForSuppliers(CallChain[i].question) => funded
    <3>1. CASE CallChain = << >>
      BY <3>1
    <3>2. CASE collab.call # None /\ CallChain = <<collab.call>>
      BY <3>2 DEF IInv, FundsAgree
    <3>3. CASE collab.call # None /\ \E s \in Calls : Below(s) /\ CallChain = <<s, collab.call>>
      <4>1. collab.stack # << >>
        BY <3>3 DEF Below
      <4> QED
        BY <4>1 DEF IInv, FundsAgree
    <3> QED
      BY <3>1, <3>2, <3>3, ChainShapes
  <2>2. SuppliersFollowTheBudget
    BY <2>1 DEF IInv, FundsAgree, Honest, ForSuppliers, SuppliersFollowTheBudget
  <2>3. QuestionIsShown
    BY DEF IInv, QuestionAgrees
  <2> QED
    BY <2>2, <2>3 DEF IInv, AnswerAgrees, HistoryAgrees, OnceIn, AnswersReachTheAsker
<1> QED
  BY <1>1, WorkflowInvariant, PTL

\* A request that ends as completed has earned it: its risky result was reviewed, unless a
\* run stopped before the reviewer, and customer support's or finance's own record of it
\* is closed (department_execution_node, reviewer_node, persist_department_result).
THEOREM EndsAreEarned == Spec => []EndIsEarned
<1>1. IInv => EndIsEarned
  BY DEF IInv, RisksAgree, WorkDone, EndIsEarned, RiskyResultIsReviewed, RecordIsClosed
<1> QED
  BY <1>1, WorkflowInvariant, PTL
=============================================================================
