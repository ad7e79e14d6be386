----------------------------- MODULE Procurement -----------------------------
(***************************************************************************)
(* The purchase a request is about (departments/procurement): its          *)
(* requirement, the suppliers' quotations, their scores, the shortlist and *)
(* the selection.  Managers enter and edit quotations at any time; a run   *)
(* of the workflow reads them, ends its transaction, asks the model, checks *)
(* the answer against what it read, and saves the answer in a later        *)
(* transaction, which scores the quotations it finds then.                 *)
(*                                                                         *)
(* The transactions that write take the lock of the requirement's row or   *)
(* of the quotations they write, and hold it to their end: each is a step. *)
(***************************************************************************)
EXTENDS Integers, FiniteSets

CONSTANTS Candidates,  \* supplier_candidates of the request, in the order of their ids
          Runs,        \* runs of the workflow that may overlap
          Offers,      \* of each, the quotations that may be entered
          Edits,       \* of each, the changes that may be made: a field and its new value
          Weights,     \* the weightings a requirement may state, in thousandths
          First,       \* what the first run has stated: a weighting, or None
          Stated,      \* what a run may go by: what IT's question says, else what the
                       \* request says, else the stored weighting; or None
          Sizes,       \* the sizes of shortlist the tool is asked for
          Modes,       \* "owner": procurement owns the request; "receiver": IT asks it
          RowsExpire,  \* a rollback expires the rows a run has read, as it does in a
                       \* real session (the tests' sessions keep them)
          MaxSaves,    \* bound on the results and shortlists saved; after the last only
                       \* edits are made and runs end
          MaxEdits,    \* bound on the edits of quotations
          None

Criteria == {"price", "quality", "delivery", "compliance"}

Days == Nat \cup {None}
Qualities == (0..100000) \cup {None}
Quotations == [unit : Nat, extra : Nat, total : Nat, days : Days, quality : Qualities,
               fit : BOOLEAN, currency : STRING, overall : Nat \cup {None},
               rank : Nat \cup {None}, short : BOOLEAN, chosen : BOOLEAN]

ASSUME CandidatesAssumption == Candidates \subseteq Nat /\ IsFiniteSet(Candidates)
ASSUME OffersAssumption ==
  \A c \in Candidates : Offers[c] \subseteq [unit : Nat, extra : Nat, days : Days,
                                           quality : Qualities, fit : BOOLEAN, currency : STRING]
ASSUME EditsAssumption ==
  \A c \in Candidates :
    Edits[c] \subseteq ({"unit", "extra"} \X Nat) \cup ({"days"} \X Days)
                       \cup ({"quality"} \X Qualities) \cup ({"fit"} \X BOOLEAN)
                       \cup ({"currency"} \X STRING)
ASSUME NoneAssumption == None \notin Nat \cup Quotations
ASSUME WeightsAssumption ==
  \A w \in Weights : /\ DOMAIN w = Criteria
                     /\ \A k \in Criteria : w[k] \in 0..1000
                     /\ w["price"] + w["quality"] + w["delivery"] + w["compliance"] = 1000
ASSUME FirstAssumption ==
  /\ First \subseteq Weights \cup {None} /\ Stated \subseteq Weights \cup {None}
  /\ Modes \subseteq {"owner", "receiver"} /\ RowsExpire \in BOOLEAN

VARIABLES need,   \* the procurement_requests row
          cand,   \* the supplier_candidates rows, None where there is none
          doc,    \* in the workflow's document: whose request it is, who has approved, and
                  \* the runs whose tool results have a shortlist
          run,    \* what each run is doing, and what it has read
          saves,  \* results and shortlists saved
          edits,  \* edits made
          raced,  \* history: quotations shortlisted from a reading they have outlived
          added   \* history: criteria that the last scoring answer weighed and its reading did not

vars == <<need, cand, doc, run, saves, edits, raced, added>>

\* The first run has stated the requirement: before that there are no quotations.
Idle == [pc |-> "idle"]
UsingTool == [pc |-> "tool"]
Init ==
  /\ need \in [weights : First, selected : {None}]
  /\ cand = [c \in Candidates |-> None]
  /\ doc \in [finance : {FALSE}, human : {FALSE}, listed : {{}}, mode : Modes]
  /\ run = [r \in Runs |-> Idle]
  /\ saves = 0 /\ edits = 0 /\ raced = {} /\ added = {}

-----------------------------------------------------------------------------
(* Scoring (scoring.py).  Scores are in thousandths.                       *)

RoundHalfUp(a, b) == (2 * a + b) \div (2 * b)

\* calculate_total_cost, of the quantity required.
TotalCost(q) == q.unit + q.extra

Eligible(q, w) ==
  /\ q.fit
  /\ q.total > 0
  /\ w["quality"] > 0 => q.quality # None
  /\ w["delivery"] > 0 => q.days # None

Least(S) == CHOOSE x \in S : \A y \in S : x <= y

EligibleIn(rows, w) == {c \in Candidates : rows[c] # None /\ Eligible(rows[c], w)}
Mixed(rows, w) == Cardinality({rows[c].currency : c \in EligibleIn(rows, w)}) > 1

PriceScore(rows, w, c) ==
  RoundHalfUp(Least({rows[d].total : d \in EligibleIn(rows, w)}) * 100000, rows[c].total)

\* A quotation without delivery days counts as one of no days, but not among the
\* fastest.
DaysCounted(q) == IF q.days = None THEN 0 ELSE q.days
DeliveryScore(rows, w, c) ==
  LET known == {rows[d].days : d \in EligibleIn(rows, w)} \ {None}
      fastest == IF known = {} THEN 0 ELSE Least(known)
  IN RoundHalfUp((fastest + 1) * 100000, DaysCounted(rows[c]) + 1)

OverallScore(rows, w, c) ==
  RoundHalfUp(PriceScore(rows, w, c) * w["price"]
                + (IF rows[c].quality = None THEN 0 ELSE rows[c].quality) * w["quality"]
                + DeliveryScore(rows, w, c) * w["delivery"]
                + 100000 * w["compliance"], 1000)

\* One without days counts as one of 2**31 days, more than the column holds.
Sooner(x, y) == x # None /\ (y = None \/ x < y)

\* The order of the ranks: the higher score, then the lower cost, the faster
\* delivery and the id.
Before(rows, w, c, d) ==
  LET p == OverallScore(rows, w, c)
      q == OverallScore(rows, w, d)
  IN \/ p > q
     \/ /\ p = q
        /\ \/ rows[c].total < rows[d].total
           \/ /\ rows[c].total = rows[d].total
              /\ \/ Sooner(rows[c].days, rows[d].days)
                 \/ rows[c].days = rows[d].days /\ c < d

Rank(rows, w, c) == 1 + Cardinality({d \in EligibleIn(rows, w) \ {c} : Before(rows, w, d, c)})

\* The check constraints of supplier_candidates on the scores.
InBounds(rows, w) == \A c \in EligibleIn(rows, w) : DeliveryScore(rows, w, c) <= 100000

\* evaluate_and_rank, written to the rows: the ineligible lose score and rank.
Evaluated(rows, w, short) ==
  [c \in Candidates |->
     IF rows[c] = None THEN None
     ELSE IF c \in EligibleIn(rows, w)
          THEN [rows[c] EXCEPT !.overall = OverallScore(rows, w, c),
                               !.rank = Rank(rows, w, c), !.short = c \in short]
          ELSE [rows[c] EXCEPT !.overall = None, !.rank = None, !.short = c \in short]]

-----------------------------------------------------------------------------
(* Quotations, entered by the Company or the manager of procurement.       *)

\* create_managed_candidate: under the lock of the requirement's row.
AddCandidate(c, q) ==
  /\ saves < MaxSaves
  /\ cand[c] = None
  /\ TotalCost(q) > 0
  /\ cand' = [cand EXCEPT ![c] =
                [unit |-> q.unit, extra |-> q.extra, total |-> TotalCost(q), days |-> q.days,
                 quality |-> q.quality, fit |-> q.fit, currency |-> q.currency,
                 overall |-> None, rank |-> None, short |-> FALSE, chosen |-> FALSE]]
  /\ UNCHANGED <<need, doc, run, saves, edits, raced, added>>

\* update_managed_candidate: a field gets a new value, the total follows, and
\* what was derived from the quotation is taken back.
Bug_KeepRank(q, f, v) == LET new == [q EXCEPT ![f] = v] IN [new EXCEPT !.total = TotalCost(new)]
Bug_StaysListed(q, f, v) ==
  LET new == [q EXCEPT ![f] = v] IN [new EXCEPT !.total = TotalCost(new), !.overall = None, !.rank = None]
Edited(q, f, v) ==
  LET new == [q EXCEPT ![f] = v]
  IN [new EXCEPT !.total = TotalCost(new), !.overall = None, !.rank = None, !.short = FALSE]

\* A chosen quotation is frozen.
EditCandidate(c, f, v) ==
  /\ edits < MaxEdits
  /\ cand[c] # None /\ ~cand[c].chosen
  /\ cand[c][f] # v
  /\ TotalCost([cand[c] EXCEPT ![f] = v]) > 0
  /\ cand' = [cand EXCEPT ![c] = Edited(@, f, v)]
  /\ edits' = edits + 1
  /\ run' = [r \in Runs |-> IF run[r].pc = "deciding" /\ c \in run[r].fit
                            THEN [run[r] EXCEPT !.stale = @ \cup {c}] ELSE run[r]]
  /\ raced' = raced \ {c}
  /\ UNCHANGED <<need, doc, saves, added>>

-----------------------------------------------------------------------------
(* The runs.                                                               *)

\* _build_input: what a run reads; mixed currencies end it here.  Validating the answer
\* looks at the rows again, after execute has rolled back: where that expires them,
\* looking at one raises.
Fit(w) == IF w = None THEN {} ELSE EligibleIn(cand, w)
Reads(w) == w # None => ~Mixed(cand, w)
Reading(w) ==
  [pc |-> "deciding", weights |-> w, fit |-> Fit(w),
   expired |-> RowsExpire /\ \E c \in Candidates : cand[c] # None,
   approved |-> doc.finance /\ doc.human, stale |-> {}, listed |-> FALSE]

Ask(r, w) ==
  /\ saves < MaxSaves
  /\ run[r] = Idle
  /\ Reads(w)
  /\ run' = [run EXCEPT ![r] = Reading(w)]
  /\ UNCHANGED <<need, cand, doc, saves, edits, raced, added>>

\* consistent_result: one next action, and a selection out of the answer's shortlist.
Consistent(a) == a.chosen # None => a.chosen \in a.short

\* _validate: the answers that are accepted from a run that has read x.  A shortlist
\* is of what was read as fit, and a selection needs that Finance and a person had
\* approved.  Nobody compares the weighting of an answer, with which it will be saved,
\* with the one its shortlist was validated with.
Answers(x) ==
  {a \in [next : {"tool", "finance", "done"}, short : SUBSET x.fit,
           chosen : x.fit \cup {None}, weights : Weights \cup {None}] :
     Consistent(a) /\ (a.chosen # None => x.approved)}

\* The flags of persist_result are flushed in the order of the ids, and the index
\* that allows one selected quotation is checked at each: it cannot move to a
\* smaller id.
Moves(chosen) ==
  \A c, d \in Candidates : cand[c] # None /\ cand[c].chosen /\ d < c => chosen # d

\* What the transaction of persist_result cannot store.
Storable(a) ==
  a.weights # None => /\ ~Mixed(cand, a.weights)
                      /\ InBounds(cand, a.weights)
                      /\ Moves(a.chosen)

Bug_OnlyTheChosen(a) ==
  [c \in Candidates |-> IF cand[c] = None THEN None
     ELSE [Evaluated(cand, a.weights, a.short)[c] EXCEPT !.chosen = @ \/ c = a.chosen]]
Flagged(a) ==
  [c \in Candidates |-> IF cand[c] = None THEN None
     ELSE [Evaluated(cand, a.weights, a.short)[c] EXCEPT !.chosen = c = a.chosen]]

\* Asking Finance clears the answer it gave before.
Asked(a) == IF a.next = "finance" THEN [doc EXCEPT !.finance = FALSE] ELSE doc

\* The criteria that an answer weighs and the reading did not.
Added(w, read) ==
  IF w = None \/ read = None THEN {} ELSE {k \in Criteria : w[k] > 0 /\ read[k] = 0}

\* persist_result in the transaction of the checkpoint.  An answer depends on nothing
\* but what was read, so it is chosen where it is saved.  A receiver saves only an
\* answer that asks nothing more.
Saved(r, a) ==
  /\ doc.mode = "receiver" => a.next = "done"
  /\ Storable(a)
  /\ need' = [weights |-> a.weights, selected |-> a.chosen]
  /\ IF a.weights = None
     THEN UNCHANGED <<cand, raced, added>>
     ELSE /\ cand' = Flagged(a)
          /\ raced' = a.short \cap run[r].stale
          /\ added' = Added(a.weights, run[r].weights)
  /\ doc' = Asked(a)
  /\ run' = [run EXCEPT ![r] = IF a.next = "tool" THEN UsingTool ELSE Idle]
  /\ saves' = saves + 1
  /\ UNCHANGED edits
Save(r) ==
  /\ saves < MaxSaves
  /\ run[r].pc = "deciding" /\ ~run[r].expired
  /\ \E a \in Answers(run[r]) : Saved(r, a)

\* A receiver's question to Finance is passed on, and the answer is not saved.
PassOn(r) ==
  /\ run[r].pc = "deciding" /\ doc.mode = "receiver" /\ ~run[r].expired
  /\ run' = [run EXCEPT ![r] = Idle]
  /\ doc' = [doc EXCEPT !.finance = FALSE]
  /\ UNCHANGED <<need, cand, saves, edits, raced, added>>

\* A run ends with nothing saved: its answer is refused or states no requirement,
\* its tool only reads, or its transaction cannot be stored and is rolled back.
Ends(r) ==
  /\ run[r] # Idle
  /\ run' = [run EXCEPT ![r] = Idle]
  /\ UNCHANGED <<need, cand, doc, saves, edits, raced, added>>

\* create_shortlist, of the weighting the model states: the first of the ranking.
Shortened(w, size) ==
  {c \in EligibleIn(cand, w) : Rank(cand, w, c) <= size}

\* The owner's tool node: once for each run, by the tool results it carries.
Shortlist(r, w, size) ==
  /\ saves < MaxSaves
  /\ run[r].pc = "tool" /\ r \notin doc.listed
  /\ ~Mixed(cand, w) /\ InBounds(cand, w)
  /\ cand' = Evaluated(cand, w, Shortened(w, size))
  /\ doc' = [doc EXCEPT !.listed = @ \cup {r}]
  /\ saves' = saves + 1 /\ raced' = {} /\ added' = {}
  /\ run' = [run EXCEPT ![r] = Idle]
  /\ UNCHANGED <<need, edits>>

\* The receiver's tool: what it wrote is rolled back, and the model is asked again
\* with a new reading of the rows, on the answers the run began with.
ReceiverTool(r) ==
  /\ run[r].pc = "deciding" /\ doc.mode = "receiver" /\ ~run[r].listed
  /\ ~run[r].expired
  /\ \E w \in Stated :
       /\ Reads(w)
       /\ run' = [run EXCEPT ![r] = [Reading(w) EXCEPT !.approved = run[r].approved, !.listed = TRUE]]
  /\ UNCHANGED <<need, cand, doc, saves, edits, raced, added>>

\* Finance and people approve; a refusal leaves things as they are.  Their parts are
\* in other modules; the answer of a person reaches the document only under an
\* executor that carries the updates of the nodes on, which today's is not.
FinanceApproves == /\ saves < MaxSaves /\ ~doc.finance
                   /\ doc' = [doc EXCEPT !.finance = TRUE]
                   /\ UNCHANGED <<need, cand, run, saves, edits, raced, added>>
HumanApproves == /\ saves < MaxSaves /\ ~doc.human
                 /\ doc' = [doc EXCEPT !.human = TRUE]
                 /\ UNCHANGED <<need, cand, run, saves, edits, raced, added>>

Next ==
  \/ \E c \in Candidates : \/ \E q \in Offers[c] : AddCandidate(c, q)
                           \/ \E e \in Edits[c] : EditCandidate(c, e[1], e[2])
  \/ \E r \in Runs :
       \/ \E w \in Stated : Ask(r, w)
       \/ Save(r) \/ PassOn(r) \/ Ends(r)
       \/ \E w \in Weights, n \in Sizes : Shortlist(r, w, n)
       \/ ReceiverTool(r)
  \/ FinanceApproves \/ HumanApproves

Spec == Init /\ [][Next]_vars

-----------------------------------------------------------------------------
(* What must hold.                                                         *)

\* The rows, the answers and the runs have their types, and a row the total of its
\* prices.
Deciding == [pc : {"deciding"}, weights : Weights \cup {None}, fit : SUBSET Candidates,
             expired : BOOLEAN, approved : BOOLEAN, stale : SUBSET Candidates, listed : BOOLEAN]
TypeOK ==
  /\ need \in [weights : Weights \cup {None}, selected : Candidates \cup {None}]
  /\ cand \in [Candidates -> Quotations \cup {None}]
  /\ \A c \in Candidates : cand[c] # None => cand[c].total > 0 /\ cand[c].total = TotalCost(cand[c])
  /\ doc \in [finance : BOOLEAN, human : BOOLEAN, listed : SUBSET Runs, mode : {"owner", "receiver"}]
  /\ run \in [Runs -> {Idle, UsingTool} \cup Deciding]
  /\ saves \in Nat /\ edits \in Nat /\ raced \subseteq Candidates /\ added \subseteq Criteria

\* A ranking is one order over quotations that can be bought: two stored ranks are
\* never equal, and a quotation that costs no more, comes no later and is no worse
\* than another (and is not equal to it in cost and delivery) is ranked before it,
\* whatever the weights, the roundings and the edits since.
Dominates(p, q) ==
  /\ p.total <= q.total
  /\ p.days # None /\ (q.days # None => p.days <= q.days)
  /\ q.quality # None => p.quality # None /\ p.quality >= q.quality
  /\ p.total < q.total \/ p.days # q.days
RankingIsSound ==
  \A c, d \in Candidates :
    (cand[c] # None /\ cand[d] # None /\ cand[c].rank # None) =>
       /\ cand[c].fit
       /\ (c # d /\ cand[d].rank # None) =>
            /\ cand[c].rank # cand[d].rank
            /\ Dominates(cand[c], cand[d]) => cand[c].rank < cand[d].rank

\* The requirement's selected candidate and the flag of the quotation, which freezes
\* it, say the same, while runs that overlap select, reselect and take back.
SelectionAgrees ==
  need.weights # None =>
     \A c \in Candidates : cand[c] # None => (cand[c].chosen <=> need.selected = c)

\* A quotation that is shortlisted but not ranked was edited between the reading and
\* the saving of one run, or it is fit but lacks the quality or the delivery that the
\* answer weighed and the reading did not (_validate goes by the one, persist_result
\* by the other).
Lacks(q, criteria) == \/ "quality" \in criteria /\ q.quality = None
                      \/ "delivery" \in criteria /\ q.days = None
UnfitShortlistIsExplained ==
  \A c \in Candidates :
    (cand[c] # None /\ cand[c].short /\ cand[c].rank = None) =>
      c \in raced \/ (cand[c].fit /\ Lacks(cand[c], added))

\* A selection is only ever made after a person has approved (Finance had, too, when
\* the run read, but may have been asked again since), and a selected quotation keeps
\* its price until it is no longer selected.
SelectionIsAuthorized ==
  /\ (need'.selected # None /\ need.selected # need'.selected)
       => doc.human
  /\ \A c \in Candidates : (cand[c] # None /\ cand[c].chosen /\ cand'[c].chosen)
                             => cand'[c].total = cand[c].total
SelectionStands == [][SelectionIsAuthorized]_vars

\* The rows have their types, the two records of the selection agree, and the
\* selection stands.
SelectionHolds == [](TypeOK /\ SelectionAgrees) /\ SelectionStands
=============================================================================
