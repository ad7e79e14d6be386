-------------------------- MODULE DepartmentResults --------------------------
(***************************************************************************)
(* What the agent of a department may answer, which answers pass the       *)
(* department's own checks (departments/*/schemas.py, service.py), and     *)
(* what the workflow makes of one: the owner's result                      *)
(* (departments/contracts.py), or the reply of a department that was asked *)
(* by another one (departments/execution.py).                              *)
(***************************************************************************)
EXTENDS Collaboration

NextActions == {"execute_tool", "collaborate", "request_human_action",
                "wait_for_user_input", "complete_request", "fail_request"}
Ends == {"complete_request", "fail_request"}
Operations == {"lookup"}

\* What an answer asks for: the flags requires_... and their payloads.
Needs == {"question", "tool", "department", "person"}
ActionFor == [question |-> "wait_for_user_input", tool |-> "execute_tool",
              department |-> "collaborate", person |-> "request_human_action"]

\* The structured answer of a model: the action it names next, what it asks for and
\* of which department, whether it says the request is unsupported, the approval it
\* requires and has (approval_required, approval_status), what it says of the budget
\* (budget_sufficient) and of the department's own record.
Answering == {a \in [next : NextActions, needs : SUBSET Needs, asked : Questions \cup {None},
                     unsupported : BOOLEAN, approval : {"none", "required", "given"},
                     budget : {"unknown", "short", "enough"}, resolved : BOOLEAN,
                     risky : BOOLEAN] :
                (a.asked # None) <=> ("department" \in a.needs)}

\* DepartmentExecutionResult: the flags say what the action says.
Contract(d, a) ==
  /\ a.needs \ {"question"} = {n \in Needs \ {"question"} : ActionFor[n] = a.next}
  /\ a.asked # None => a.asked.from = d

\* should_trigger_review: a result is risky by its words, its data and its
\* department; one that asks a person always is.
Judged(a) == a.next = "request_human_action" => a.risky

Agents(d) == {a \in Answering : Contract(d, a) /\ Judged(a)}

-----------------------------------------------------------------------------
\* IT, Finance and Procurement ask for one thing, and the action follows from it.
OnePrimary(a) ==
  \/ \E n \in Needs : a.needs = {n} /\ a.next = ActionFor[n]
  \/ /\ a.needs = {}
     /\ a.next = IF a.unsupported THEN "fail_request" ELSE "complete_request"

SaysNothingOfMoney(a) == a.approval = "none" /\ a.budget = "unknown"

\* A resolved incident needs no technician.
ITAnswers == {a \in Agents("it") : /\ OnePrimary(a)
                                   /\ SaysNothingOfMoney(a)
                                   /\ a.resolved => "person" \notin a.needs}

\* Finance asks no department; what requires an approval is not complete without it.
FinanceAnswers == {a \in Agents("finance") :
                     /\ OnePrimary(a)
                     /\ "department" \notin a.needs
                     /\ a.approval = "required" => a.next # "complete_request"
                     /\ ~a.resolved}

ProcurementAnswers == {a \in Agents("procurement") : /\ OnePrimary(a)
                                                     /\ SaysNothingOfMoney(a)
                                                     /\ ~a.resolved}

\* HR's action needs its payload; a question may come with any action.
HRAnswers == {a \in Agents("hr") : /\ \A n \in Needs : a.next = ActionFor[n] => n \in a.needs
                                   /\ a.approval = "required" => a.next # "complete_request"
                                   /\ a.budget = "unknown"}

\* Customer support's action follows from its decision, whatever it asks for: it may
\* wait for the customer without a question.
SupportAnswers == {a \in Agents("customer_support") :
                     /\ "tool" \notin a.needs
                     /\ a.unsupported <=> a.next = "fail_request"
                     /\ SaysNothingOfMoney(a)}

\* The budget the backend found, if any: frozen; active, in its period, in the
\* currency and large enough; and the amount above the approval threshold.
Budgets == {f \in [frozen : BOOLEAN, covers : BOOLEAN, above : BOOLEAN] :
              f.frozen => ~f.covers} \cup {None}

\* FinanceService._validate: no budget is invented, an approval is not left out, and
\* what is said of the budget is what the backend computes, if it knows the amount.
Grounded(a, f, named) ==
  IF f = None THEN a.budget = "unknown"
  ELSE /\ f.frozen => a.approval # "none"
       /\ named => /\ f.above => a.approval # "none"
                   /\ a.budget # "unknown" => (a.budget = "enough" <=> f.covers)

-----------------------------------------------------------------------------
\* Whether the department's own record of the request is closed by an answer.
SupportCloses(a) == a.next \in Ends
FinanceCloses(a) == a.next \in Ends
ITCloses(a) == a.resolved
HRCloses(a) == a.resolved
ProcurementCloses(a) == a.next \in Ends

\* _to_department_result: the result of the workflow, and what goes into its sections.
Result(a, closes) ==
  [kind |-> a.next, risky |-> a.risky, question |-> a.asked,
   operation |-> IF "tool" \in a.needs THEN "lookup" ELSE None,
   asks |-> "question" \in a.needs, closes |-> closes]

ITResults == {Result(a, ITCloses(a)) : a \in ITAnswers}
FinanceResults ==
  {Result(a, FinanceCloses(a)) :
     a \in {b \in FinanceAnswers : \E f \in Budgets, named \in BOOLEAN : Grounded(b, f, named)}}
ProcurementResults == {Result(a, ProcurementCloses(a)) : a \in ProcurementAnswers}
HRResults == {Result(a, HRCloses(a)) : a \in HRAnswers}
SupportResults == {Result(a, SupportCloses(a)) : a \in SupportAnswers}

ResultsOf == [customer_support |-> SupportResults, it |-> ITResults, hr |-> HRResults,
              finance |-> FinanceResults, procurement |-> ProcurementResults]
Results == UNION {ResultsOf[d] : d \in Departments}
ASSUME ResultsAssumption == None \notin Results

-----------------------------------------------------------------------------
\* What becomes of the answer of a department that was asked: it answers, needs a
\* person, or asks in its turn.  Anything else raises.
Reply(outcome, funds) == [outcome |-> outcome, funds |-> funds]

\* IT may start neither a tool nor another call.
ITReplies ==
  {Reply(IF "person" \in a.needs THEN "pauses" ELSE "answers", "no") :
     a \in {b \in ITAnswers : b.needs \cap {"tool", "department"} = {}}}

\* Finance pauses whenever an approval is required, given or not; the asker reads
\* only whether the budget is said to be sufficient.
FinanceReply(a, f) ==
  CASE a.approval # "none"  -> Reply("pauses", "no")
    [] a.approval = "none" /\ a.budget # "enough" -> Reply("answers", "no")
    [] a.approval = "none" /\ a.budget = "enough" ->
         Reply("answers", IF f # None /\ f.covers THEN "covered" ELSE "claimed")
FinanceReplies(named) ==
  {FinanceReply(x[1], x[2]) : x \in {y \in FinanceAnswers \X Budgets : Grounded(y[1], y[2], named)}}

\* Procurement runs one tool and is asked again; a second one raises.
ProcurementReplies ==
  {Reply(IF "department" \in a.needs THEN "asks" ELSE "answers", "no") :
     a \in {b \in ProcurementAnswers : "tool" \notin b.needs}}

\* Finance reads the amount under the name IT gives it; Procurement's question calls
\* it otherwise.
NamesTheAmount(r) == r[1] = "it"

RepliesOn ==
  [r \in Routes |->
     CASE r[2] = "it"          -> ITReplies
       [] r[2] = "finance"     -> FinanceReplies(NamesTheAmount(r))
       [] r[2] = "procurement" -> ProcurementReplies]
=============================================================================
