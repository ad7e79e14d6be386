----------------------------- MODULE Company_proofs -----------------------------
(***************************************************************************)
(* Proofs about what a company administers.                                *)
(*                                                                         *)
(* Procurement: the ranking is one order that respects the quotations,     *)
(* whatever the weights and the roundings; the selection is authorized and *)
(* kept in two places that agree; and only a race shortlists a quotation   *)
(* that is not ranked.                                                     *)
(*                                                                         *)
(* Organization and Registers: every handler checks what plain reads       *)
(* return and writes later.  The inductive invariant OrgInv says of each   *)
(* call under way what its reads still guarantee unless a commit of one of *)
(* the kinds it names overtook it; a Frame says what a commit of each kind *)
(* leaves alone, and one lemma carries the calls of the others over it.    *)
(***************************************************************************)
EXTENDS Procurement, Registers, FiniteSetTheorems, WellFoundedInduction, TLAPS

-----------------------------------------------------------------------------
(* Arithmetic.                                                             *)

\* Integer division is the largest number of times.
LEMMA Division ==
  ASSUME NEW a \in Nat, NEW b \in Nat \ {0}
  PROVE  /\ a \div b \in Nat
         /\ (a \div b) * b <= a
         /\ a < (a \div b) * b + b
<1>1. a = b * (a \div b) + (a % b) /\ a % b \in 0..(b - 1) /\ a \div b \in Int
  OBVIOUS
<1> QED
  BY <1>1

\* It grows with the number divided.
LEMMA AtLeast ==
  ASSUME NEW a \in Nat, NEW b \in Nat \ {0}, NEW k \in Nat, k * b <= a
  PROVE  k <= a \div b
<1> DEFINE d == a \div b
<1>1. d \in Nat /\ a < d * b + b
  BY Division
<1> HIDE DEF d
<1>2. (d + 1) * b = d * b + b
  BY <1>1
<1>3. ASSUME d + 1 <= k  PROVE FALSE
  <2>1. (d + 1) * b <= k * b
    BY <1>1, <1>3
  <2> QED
    BY <1>1, <1>2, <2>1
<1>4. k <= d
  BY <1>1, <1>3
<1> QED
  BY <1>4 DEF d

\* A product grows with its first factor.
LEMMA Times ==
  ASSUME NEW a \in Nat, NEW b \in Nat, NEW n \in Nat, a <= b
  PROVE  a * n \in Nat /\ b * n \in Nat /\ a * n <= b * n
OBVIOUS

LEMMA RoundHalfUpType ==
  ASSUME NEW a \in Nat, NEW b \in Nat \ {0}
  PROVE  RoundHalfUp(a, b) \in Nat
BY Division DEF RoundHalfUp

\* Rounding keeps the order of numbers that are divided by the same.
LEMMA RoundHalfUpGrows ==
  ASSUME NEW a \in Nat, NEW c \in Nat, NEW b \in Nat \ {0}, a <= c
  PROVE  RoundHalfUp(a, b) <= RoundHalfUp(c, b)
<1> DEFINE k == (2 * a + b) \div (2 * b)
<1>1. 2 * a + b \in Nat /\ 2 * c + b \in Nat /\ 2 * b \in Nat \ {0} /\ 2 * a + b <= 2 * c + b
  OBVIOUS
<1>2. k \in Nat /\ k * (2 * b) <= 2 * a + b
  BY <1>1, Division
<1> HIDE DEF k
<1>3. k * (2 * b) <= 2 * c + b
  BY <1>1, <1>2
<1>4. k <= (2 * c + b) \div (2 * b)
  BY <1>1, <1>2, <1>3, AtLeast
<1> QED
  BY <1>4 DEF RoundHalfUp, k

\* A number divided by more is rounded to no more.
LEMMA RoundHalfUpShrinks ==
  ASSUME NEW a \in Nat, NEW b \in Nat \ {0}, NEW c \in Nat \ {0}, b <= c
  PROVE  RoundHalfUp(a, c) <= RoundHalfUp(a, b)
<1> DEFINE k == (2 * a + c) \div (2 * c)
<1>1. 2 * a + b \in Nat /\ 2 * a + c \in Nat /\ 2 * b \in Nat \ {0} /\ 2 * c \in Nat \ {0}
  OBVIOUS
<1>2. k \in Nat /\ k * (2 * c) <= 2 * a + c
  BY <1>1, Division
<1> HIDE DEF k
<1>3. k * (2 * b) <= 2 * a + b
  <2>1. CASE k = 0
    BY <2>1
  <2>2. CASE k # 0
    <3> DEFINE m == 2 * k - 1
    <3>1. m \in Nat
      BY <1>2, <2>2
    <3>2. k * (2 * c) = m * c + c /\ k * (2 * b) = m * b + b
      BY <1>2
    <3>3. b * m <= c * m
      BY <3>1, Times
    <3> HIDE DEF m
    <3>4. m * c <= 2 * a
      BY <1>2, <3>1, <3>2
    <3> QED
      BY <3>1, <3>2, <3>3, <3>4
  <2> QED
    BY <2>1, <2>2
<1>4. k <= (2 * a + b) \div (2 * b)
  BY <1>1, <1>2, <1>3, AtLeast
<1> QED
  BY <1>4 DEF RoundHalfUp, k

-----------------------------------------------------------------------------
(* The least of a set of numbers.                                          *)

Below(S, x) == {y \in S : y < x}

\* The numbers of a set below another one of its numbers are finitely many, and fewer
\* than those below that.
LEMMA BelowIsSmaller ==
  ASSUME NEW S, S \subseteq Nat, NEW x \in S
  PROVE  /\ Below(S, x) \in FiniteSubsetsOf(Nat)
         /\ \A y \in S : y < x => <<Below(S, y), Below(S, x)>> \in StrictSubsetOrdering(Nat)
<1>0. \A y \in S : y \in Nat
  OBVIOUS
<1>1. Below(S, x) \subseteq 0..x /\ Below(S, x) \subseteq Nat
  <2> SUFFICES ASSUME NEW y \in S, y < x
               PROVE  y \in 0..x /\ y \in Nat
    BY Zenon DEF Below
  <2> QED
    BY <1>0
<1>2. IsFiniteSet(0..x)
  BY FS_Interval
<1>3. IsFiniteSet(Below(S, x))
  BY <1>1, <1>2, FS_Subset
<1>4. ASSUME NEW y \in S, y < x
      PROVE  /\ Below(S, y) \subseteq Below(S, x) /\ Below(S, y) \subseteq Nat
             /\ y \in Below(S, x) /\ y \notin Below(S, y)
  <2> y \in Nat /\ x \in Nat /\ ~(y < y)
    BY <1>0
  <2>1. \A z \in S : z < y => z < x /\ z \in Nat
    BY <1>0, <1>4
  <2> QED
    BY <1>4, <2>1, Zenon DEF Below
<1>5. ASSUME NEW y \in S, y < x
      PROVE  <<Below(S, y), Below(S, x)>> \in StrictSubsetOrdering(Nat)
  BY <1>1, <1>4, <1>5 DEF StrictSubsetOrdering
<1> QED
  BY <1>1, <1>3, <1>5 DEF FiniteSubsetsOf

LEMMA LeastIsLeast ==
  ASSUME NEW S, S \subseteq Nat, S # {}
  PROVE  Least(S) \in S /\ \A y \in S : Least(S) <= y
<1> DEFINE T == {Below(S, x) : x \in S}
<1>1. T \subseteq FiniteSubsetsOf(Nat) /\ T # {}
  BY BelowIsSmaller
<1>2. \E U \in T : \A V \in T : <<V, U>> \notin StrictSubsetOrdering(Nat)
  <2> HIDE DEF T
  <2> QED
    BY <1>1, FS_StrictSubsetOrderingWellFounded, WFMin
<1>3. PICK e \in S : \A f \in S : <<Below(S, f), Below(S, e)>> \notin StrictSubsetOrdering(Nat)
  BY <1>2
<1>4. \A f \in S : ~(f < e)
  BY <1>3, BelowIsSmaller
<1>5. \A f \in S : e <= f
  BY <1>4
<1> QED
  BY <1>5 DEF Least

-----------------------------------------------------------------------------
(* The order of the ranks.  Rows are as they are stored.                   *)

Rows == {f \in [Candidates -> Quotations \cup {None}] :
           \A c \in Candidates : f[c] # None => f[c].total > 0}

\* A quotation that can be bought is a row with a cost, and has the quality and the
\* delivery that have a weight.
LEMMA EligibleRow ==
  ASSUME NEW rows \in Rows, NEW w \in Weights, NEW c \in EligibleIn(rows, w)
  PROVE  /\ c \in Candidates /\ rows[c] \in Quotations /\ rows[c] # None
         /\ rows[c].fit /\ rows[c].total \in Nat \ {0}
         /\ rows[c].days \in Nat \cup {None} /\ rows[c].quality \in Nat \cup {None}
         /\ w["delivery"] > 0 => rows[c].days # None
<1>1. c \in Candidates /\ rows[c] # None /\ Eligible(rows[c], w)
  BY DEF EligibleIn
<1>2. rows[c] \in Quotations
  BY <1>1 DEF Rows
<1>3. rows[c].fit /\ rows[c].total > 0 /\ (w["delivery"] > 0 => rows[c].days # None)
  BY <1>1, Zenon DEF Eligible
<1>4. /\ rows[c].total \in Nat /\ rows[c].days \in Nat \cup {None}
      /\ rows[c].quality \in Nat \cup {None}
  <2>1. rows[c].total \in Nat /\ rows[c].days \in Days /\ rows[c].quality \in Qualities
    BY <1>2 DEF Quotations
  <2>2. Days = Nat \cup {None} /\ Qualities \subseteq Nat \cup {None}
    BY DEF Days, Qualities
  <2> QED
    BY <2>1, <2>2
<1>5. rows[c].total \in Nat \ {0}
  BY <1>3, <1>4
<1> QED
  BY <1>1, <1>2, <1>3, <1>4, <1>5

\* The weights are numbers.
LEMMA WeightType ==
  ASSUME NEW w \in Weights
  PROVE  /\ w["price"] \in Nat /\ w["quality"] \in Nat
         /\ w["delivery"] \in Nat /\ w["compliance"] \in Nat
<1>1. \A k \in Criteria : w[k] \in 0..1000
  BY WeightsAssumption
<1>2. \A k \in Criteria : w[k] \in Nat
  BY <1>1
<1>3. /\ "price" \in Criteria /\ "quality" \in Criteria
      /\ "delivery" \in Criteria /\ "compliance" \in Criteria
  BY DEF Criteria
<1> QED
  BY <1>2, <1>3, Zenon

\* The lowest cost and the fewest days the scores are relative to are numbers.
LEMMA PriceScoreOf ==
  ASSUME NEW rows \in Rows, NEW w \in Weights, EligibleIn(rows, w) # {}
  PROVE  \E n \in Nat : \A c : PriceScore(rows, w, c) = RoundHalfUp(n, rows[c].total)
<1> DEFINE S == {rows[d].total : d \in EligibleIn(rows, w)}
<1>1. S \subseteq Nat /\ S # {}
  BY EligibleRow
<1>2. Least(S) \in Nat
  <2> HIDE DEF S
  <2> QED
    BY <1>1, LeastIsLeast
<1>3. Least(S) * 100000 \in Nat
  <2> HIDE DEF S
  <2> QED
    BY <1>2
<1>4. \A c : PriceScore(rows, w, c) = RoundHalfUp(Least(S) * 100000, rows[c].total)
  BY DEF PriceScore
<1> HIDE DEF S
<1> QED
  BY <1>3, <1>4

LEMMA DeliveryScoreOf ==
  ASSUME NEW rows \in Rows, NEW w \in Weights
  PROVE  \E n \in Nat : \A c : DeliveryScore(rows, w, c) = RoundHalfUp(n, DaysCounted(rows[c]) + 1)
<1> DEFINE S == {rows[d].days : d \in EligibleIn(rows, w)} \ {None}
           fastest == IF S = {} THEN 0 ELSE Least(S)
<1>1. S \subseteq Nat
  BY EligibleRow
<1>2. fastest \in Nat
  <2> HIDE DEF S
  <2> QED
    BY <1>1, LeastIsLeast
<1>3. (fastest + 1) * 100000 \in Nat
  <2> HIDE DEF fastest
  <2> QED
    BY <1>2
<1>4. \A c : DeliveryScore(rows, w, c)
              = RoundHalfUp((fastest + 1) * 100000, DaysCounted(rows[c]) + 1)
  BY DEF DeliveryScore
<1> HIDE DEF S, fastest
<1> QED
  BY <1>3, <1>4

\* The scores of quotations that can be bought are numbers.
LEMMA ScoreTypes ==
  ASSUME NEW rows \in Rows, NEW w \in Weights, NEW c \in EligibleIn(rows, w)
  PROVE  /\ PriceScore(rows, w, c) \in Nat
         /\ DaysCounted(rows[c]) \in Nat
         /\ DeliveryScore(rows, w, c) \in Nat
         /\ OverallScore(rows, w, c) \in Nat
<1> DEFINE p == PriceScore(rows, w, c)
           d == DeliveryScore(rows, w, c)
           q == IF rows[c].quality = None THEN 0 ELSE rows[c].quality
<1>1. p \in Nat
  BY PriceScoreOf, EligibleRow, RoundHalfUpType
<1>2. DaysCounted(rows[c]) \in Nat
  BY EligibleRow DEF DaysCounted
<1>3. d \in Nat
  BY <1>2, DeliveryScoreOf, RoundHalfUpType
<1>4. q \in Nat
  BY EligibleRow
<1> HIDE DEF p, d, q
<1>5. p * w["price"] + q * w["quality"] + d * w["delivery"] + 100000 * w["compliance"] \in Nat
  <2>1. /\ p * w["price"] \in Nat /\ q * w["quality"] \in Nat
        /\ d * w["delivery"] \in Nat /\ 100000 * w["compliance"] \in Nat
    BY <1>1, <1>3, <1>4, WeightType, Times
  <2> QED
    BY <2>1
<1>6. RoundHalfUp(p * w["price"] + q * w["quality"] + d * w["delivery"]
                    + 100000 * w["compliance"], 1000) \in Nat
  BY <1>5, RoundHalfUpType
<1> QED
  BY <1>1, <1>2, <1>3, <1>6 DEF OverallScore, p, q, d

\* A quotation that costs no more, comes no later and is no worse scores no less.
LEMMA DominatingScores ==
  ASSUME NEW rows \in Rows, NEW w \in Weights,
         NEW c \in EligibleIn(rows, w), NEW d \in EligibleIn(rows, w),
         Dominates(rows[c], rows[d])
  PROVE  OverallScore(rows, w, d) <= OverallScore(rows, w, c)
<1> DEFINE p(x) == PriceScore(rows, w, x)
           t(x) == DeliveryScore(rows, w, x)
           q(x) == IF rows[x].quality = None THEN 0 ELSE rows[x].quality
<1>1. /\ rows[c].total \in Nat \ {0} /\ rows[d].total \in Nat \ {0}
      /\ rows[c].days \in Nat \cup {None} /\ rows[d].days \in Nat \cup {None}
      /\ rows[c].quality \in Nat \cup {None} /\ rows[d].quality \in Nat \cup {None}
      /\ w["delivery"] > 0 => rows[d].days # None
  BY EligibleRow
<1>2. /\ p(c) \in Nat /\ p(d) \in Nat /\ t(c) \in Nat /\ t(d) \in Nat
      /\ DaysCounted(rows[c]) \in Nat /\ DaysCounted(rows[d]) \in Nat
  BY ScoreTypes
<1>3. p(d) <= p(c)
  BY <1>1, PriceScoreOf, RoundHalfUpShrinks DEF Dominates
<1>4. w["delivery"] > 0 => t(d) <= t(c)
  <2> SUFFICES ASSUME w["delivery"] > 0  PROVE t(d) <= t(c)
    OBVIOUS
  <2>1. DaysCounted(rows[c]) <= DaysCounted(rows[d])
    BY <1>1 DEF Dominates, DaysCounted
  <2> QED
    BY <1>2, <2>1, DeliveryScoreOf, RoundHalfUpShrinks
<1>5. q(c) \in Nat /\ q(d) \in Nat /\ q(d) <= q(c)
  BY <1>1, NoneAssumption DEF Dominates
<1> HIDE DEF p, t, q
<1> DEFINE sum(x) == p(x) * w["price"] + q(x) * w["quality"] + t(x) * w["delivery"]
                       + 100000 * w["compliance"]
<1>6. sum(c) \in Nat /\ sum(d) \in Nat /\ sum(d) <= sum(c)
  <2>1. /\ w["price"] \in Nat /\ w["quality"] \in Nat /\ w["delivery"] \in Nat
        /\ 100000 * w["compliance"] \in Nat
    BY WeightType, Times
  <2>2. /\ p(c) * w["price"] \in Nat /\ p(d) * w["price"] \in Nat
        /\ p(d) * w["price"] <= p(c) * w["price"]
    BY <1>2, <1>3, <2>1, Times DEF p
  <2>3. /\ q(c) * w["quality"] \in Nat /\ q(d) * w["quality"] \in Nat
        /\ q(d) * w["quality"] <= q(c) * w["quality"]
    BY <1>5, <2>1, Times
  <2>4. /\ t(c) * w["delivery"] \in Nat /\ t(d) * w["delivery"] \in Nat
        /\ t(d) * w["delivery"] <= t(c) * w["delivery"]
    <3>1. t(c) \in Nat /\ t(d) \in Nat
      BY <1>2 DEF t
    <3>2. CASE w["delivery"] > 0
      BY <1>4, <2>1, <3>1, <3>2, Times
    <3>3. CASE w["delivery"] = 0
      BY <3>1, <3>3
    <3> QED
      BY <2>1, <3>2, <3>3
  <2> QED
    BY <2>1, <2>2, <2>3, <2>4
<1> HIDE DEF sum
<1>7. RoundHalfUp(sum(d), 1000) <= RoundHalfUp(sum(c), 1000)
  BY <1>6, RoundHalfUpGrows
<1> QED
  BY <1>7 DEF OverallScore, sum, p, q, t

\* What the order compares of two quotations.
LEMMA BeforeMeans ==
  ASSUME NEW rows \in Rows, NEW w \in Weights,
         NEW c \in EligibleIn(rows, w), NEW d \in EligibleIn(rows, w)
  PROVE  Before(rows, w, c, d) <=>
           \/ OverallScore(rows, w, c) > OverallScore(rows, w, d)
           \/ /\ OverallScore(rows, w, c) = OverallScore(rows, w, d)
              /\ \/ rows[c].total < rows[d].total
                 \/ /\ rows[c].total = rows[d].total
                    /\ \/ Sooner(rows[c].days, rows[d].days)
                       \/ rows[c].days = rows[d].days /\ c < d
BY DEF Before

\* Earlier delivery is an order of days, and of none.
LEMMA SoonerOrders ==
  ASSUME NEW x \in Nat \cup {None}, NEW y \in Nat \cup {None}, NEW z \in Nat \cup {None}
  PROVE  /\ ~Sooner(x, x)
         /\ Sooner(x, y) /\ Sooner(y, z) => Sooner(x, z)
         /\ x # y => Sooner(x, y) \/ Sooner(y, x)
BY NoneAssumption DEF Sooner

\* The order of the ranks is a strict order of all quotations that can be bought.
LEMMA BeforeOrders ==
  ASSUME NEW rows \in Rows, NEW w \in Weights,
         NEW c \in EligibleIn(rows, w), NEW d \in EligibleIn(rows, w),
         NEW e \in EligibleIn(rows, w)
  PROVE  /\ ~Before(rows, w, c, c)
         /\ Before(rows, w, c, d) /\ Before(rows, w, d, e) => Before(rows, w, c, e)
         /\ c # d => Before(rows, w, c, d) \/ Before(rows, w, d, c)
<1> DEFINE s(x) == OverallScore(rows, w, x)
           t(x) == rows[x].total
           y(x) == rows[x].days
<1>1. /\ s(c) \in Nat /\ s(d) \in Nat /\ s(e) \in Nat
      /\ t(c) \in Nat /\ t(d) \in Nat /\ t(e) \in Nat
      /\ c \in Nat /\ d \in Nat /\ e \in Nat
      /\ y(c) \in Nat \cup {None} /\ y(d) \in Nat \cup {None} /\ y(e) \in Nat \cup {None}
  BY ScoreTypes, EligibleRow, CandidatesAssumption
<1>2. /\ ~Sooner(y(c), y(c))
      /\ Sooner(y(c), y(d)) /\ Sooner(y(d), y(e)) => Sooner(y(c), y(e))
      /\ y(c) # y(d) => Sooner(y(c), y(d)) \/ Sooner(y(d), y(c))
  <2>1. PICK i \in Nat \cup {None}, j \in Nat \cup {None}, k \in Nat \cup {None} :
          i = y(c) /\ j = y(d) /\ k = y(e)
    BY <1>1
  <2> HIDE DEF y
  <2>2. /\ ~Sooner(i, i)
        /\ Sooner(i, j) /\ Sooner(j, k) => Sooner(i, k)
        /\ i # j => Sooner(i, j) \/ Sooner(j, i)
    BY SoonerOrders
  <2> QED
    BY <2>1, <2>2
<1>3. \A i \in {c, d, e}, j \in {c, d, e} :
        Before(rows, w, i, j) <=>
          \/ s(i) > s(j)
          \/ /\ s(i) = s(j)
             /\ \/ t(i) < t(j)
                \/ /\ t(i) = t(j)
                   /\ Sooner(y(i), y(j)) \/ (y(i) = y(j) /\ i < j)
  BY BeforeMeans
<1> HIDE DEF s, t, y
<1>4. ~Before(rows, w, c, c)
  BY <1>1, <1>2, <1>3
<1>5. Before(rows, w, c, d) /\ Before(rows, w, d, e) => Before(rows, w, c, e)
  BY <1>1, <1>2, <1>3
<1>6. c # d => Before(rows, w, c, d) \/ Before(rows, w, d, c)
  BY <1>1, <1>2, <1>3
<1> QED
  BY <1>4, <1>5, <1>6

\* A quotation that is better in what matters comes before.
LEMMA DominatingComesBefore ==
  ASSUME NEW rows \in Rows, NEW w \in Weights,
         NEW c \in EligibleIn(rows, w), NEW d \in EligibleIn(rows, w),
         Dominates(rows[c], rows[d])
  PROVE  Before(rows, w, c, d)
<1>1. OverallScore(rows, w, d) <= OverallScore(rows, w, c)
  BY DominatingScores
<1>2. OverallScore(rows, w, c) \in Nat /\ OverallScore(rows, w, d) \in Nat
  BY ScoreTypes
<1>3. /\ rows[c].total \in Nat /\ rows[d].total \in Nat
      /\ rows[c].days \in Nat \cup {None} /\ rows[d].days \in Nat \cup {None}
  BY EligibleRow
<1>4. \/ rows[c].total < rows[d].total
      \/ rows[c].total = rows[d].total /\ Sooner(rows[c].days, rows[d].days)
  BY <1>3 DEF Dominates, Sooner
<1> QED
  BY <1>1, <1>2, <1>3, <1>4, BeforeMeans

\* A rank is a number, and of two quotations the one that comes before has the lower.
LEMMA RankFollowsOrder ==
  ASSUME NEW rows \in Rows, NEW w \in Weights,
         NEW c \in EligibleIn(rows, w), NEW d \in EligibleIn(rows, w)
  PROVE  /\ Rank(rows, w, c) \in Nat \ {0}
         /\ Before(rows, w, c, d) => Rank(rows, w, c) < Rank(rows, w, d)
<1> DEFINE E == EligibleIn(rows, w)
           ahead(x) == {e \in E \ {x} : Before(rows, w, e, x)}
<1>1. IsFiniteSet(E)
  <2>1. E \subseteq Candidates
    BY EligibleRow
  <2> QED
    BY <2>1, CandidatesAssumption, FS_Subset
<1>2. IsFiniteSet(ahead(c)) /\ IsFiniteSet(ahead(d))
  BY <1>1, FS_Subset
<1>3. /\ Cardinality(ahead(c)) \in Nat /\ Cardinality(ahead(d)) \in Nat
  BY <1>2, FS_CardinalityType
<1>4. Rank(rows, w, c) = 1 + Cardinality(ahead(c)) /\ Rank(rows, w, d) = 1 + Cardinality(ahead(d))
  BY DEF Rank
<1>5. ASSUME Before(rows, w, c, d)
      PROVE  Cardinality(ahead(c)) < Cardinality(ahead(d))
  <2>1. c \in ahead(d) /\ c \notin ahead(c)
    BY <1>5, BeforeOrders
  <2>2. ahead(c) \subseteq ahead(d)
    BY <1>5, BeforeOrders
  <2>3. /\ Cardinality(ahead(c)) <= Cardinality(ahead(d))
        /\ Cardinality(ahead(d)) = Cardinality(ahead(c)) => ahead(d) = ahead(c)
    BY <1>2, <2>2, FS_Subset
  <2> HIDE DEF ahead
  <2> QED
    BY <1>3, <2>1, <2>3
<1> HIDE DEF ahead
<1> QED
  BY <1>3, <1>4, <1>5

-----------------------------------------------------------------------------
(* Writing the scores.                                                     *)

\* What an evaluation writes to a row.
LEMMA EvaluatedRow ==
  ASSUME NEW rows \in Rows, NEW w \in Weights, NEW short \in SUBSET Candidates,
         NEW c \in Candidates
  PROVE  LET new == Evaluated(rows, w, short)[c] IN
         /\ rows[c] = None => new = None
         /\ rows[c] # None =>
              /\ new \in Quotations /\ new # None
              /\ new.unit = rows[c].unit /\ new.extra = rows[c].extra
              /\ new.total = rows[c].total /\ new.days = rows[c].days
              /\ new.quality = rows[c].quality /\ new.fit = rows[c].fit
              /\ new.chosen = rows[c].chosen
              /\ new.short = (c \in short)
              /\ new.rank = IF c \in EligibleIn(rows, w) THEN Rank(rows, w, c) ELSE None
<1> DEFINE row == rows[c]
           ranked == c \in EligibleIn(rows, w)
           listed == c \in short
           o == IF ranked THEN OverallScore(rows, w, c) ELSE None
           k == IF ranked THEN Rank(rows, w, c) ELSE None
           new == [row EXCEPT !.overall = o, !.rank = k, !.short = listed]
<1>1. o \in Nat \cup {None} /\ k \in Nat \cup {None} /\ listed \in BOOLEAN
  BY RankFollowsOrder, ScoreTypes
<1>2. row # None => row \in Quotations
  BY DEF Rows
<1>3. Evaluated(rows, w, short)[c] = IF row = None THEN None ELSE new
  BY DEF Evaluated
<1>4. None \notin Quotations
  BY NoneAssumption
<1>5. row # None => /\ new \in Quotations
                   /\ new.unit = row.unit /\ new.extra = row.extra
                   /\ new.total = row.total /\ new.days = row.days
                   /\ new.quality = row.quality /\ new.fit = row.fit
                   /\ new.chosen = row.chosen /\ new.short = listed /\ new.rank = k
  <2> HIDE DEF row, o, k, listed
  <2> QED
    BY <1>1, <1>2 DEF Quotations
<1> HIDE DEF new
<1> QED
  BY <1>3, <1>4, <1>5

\* What a saved result writes to a row.
LEMMA FlaggedRow ==
  ASSUME cand \in Rows, NEW x, x.weights \in Weights, x.short \in SUBSET Candidates,
         NEW c \in Candidates
  PROVE  LET new == Flagged(x)[c] IN
         /\ cand[c] = None => new = None
         /\ cand[c] # None =>
              /\ new \in Quotations /\ new # None
              /\ new.unit = cand[c].unit /\ new.extra = cand[c].extra
              /\ new.total = cand[c].total /\ new.days = cand[c].days
              /\ new.quality = cand[c].quality /\ new.fit = cand[c].fit
              /\ new.chosen = (c = x.chosen)
              /\ new.short = (c \in x.short)
              /\ new.rank = IF c \in EligibleIn(cand, x.weights)
                            THEN Rank(cand, x.weights, c) ELSE None
<1> DEFINE row == Evaluated(cand, x.weights, x.short)[c]
           picked == c = x.chosen
           new == [row EXCEPT !.chosen = picked]
<1>1. Flagged(x)[c] = IF cand[c] = None THEN None ELSE new
  BY DEF Flagged
<1>2. cand[c] # None =>
        /\ row \in Quotations
        /\ row.unit = cand[c].unit /\ row.extra = cand[c].extra
        /\ row.total = cand[c].total /\ row.days = cand[c].days
        /\ row.quality = cand[c].quality /\ row.fit = cand[c].fit
        /\ row.short = (c \in x.short)
        /\ row.rank = IF c \in EligibleIn(cand, x.weights)
                      THEN Rank(cand, x.weights, c) ELSE None
  BY EvaluatedRow
<1>3. picked \in BOOLEAN /\ None \notin Quotations
  BY NoneAssumption
<1>4. row \in Quotations =>
        /\ new \in Quotations
        /\ new.unit = row.unit /\ new.extra = row.extra
        /\ new.total = row.total /\ new.days = row.days
        /\ new.quality = row.quality /\ new.fit = row.fit
        /\ new.short = row.short /\ new.rank = row.rank /\ new.chosen = picked
  <2> HIDE DEF row, picked
  <2> QED
    BY <1>3 DEF Quotations
<1> HIDE DEF row, new
<1> QED
  BY <1>1, <1>2, <1>3, <1>4

\* An edit leaves a row with the total of its prices, without a score.
LEMMA EditedRow ==
  ASSUME NEW q \in Quotations, NEW c \in Candidates, NEW e \in Edits[c]
  PROVE  LET new == Edited(q, e[1], e[2]) IN
         /\ new \in Quotations
         /\ TotalCost([q EXCEPT ![e[1]] = e[2]]) = new.total
         /\ new.total = TotalCost(new)
         /\ new.rank = None /\ new.short = FALSE /\ new.chosen = q.chosen
<1>1. PICK f, v : e[1] = f /\ e[2] = v
  OBVIOUS
<1>2. \/ f \in {"unit", "extra"} /\ v \in Nat
      \/ f = "days" /\ v \in Days
      \/ f = "quality" /\ v \in Qualities
      \/ f = "fit" /\ v \in BOOLEAN
      \/ f = "currency" /\ v \in STRING
  BY <1>1, EditsAssumption
<1> DEFINE p == [q EXCEPT ![f] = v]
<1>3. p \in Quotations /\ p.chosen = q.chosen
  BY <1>2 DEF Quotations
<1> HIDE DEF p
<1>4. p.unit \in Nat /\ p.extra \in Nat /\ TotalCost(p) \in Nat /\ TotalCost(p) = p.unit + p.extra
  BY <1>3 DEF Quotations, TotalCost
<1> DEFINE t == TotalCost(p)
           n == [p EXCEPT !.total = t, !.overall = None, !.rank = None, !.short = FALSE]
<1>5. /\ n \in Quotations /\ n.total = t /\ n.unit = p.unit /\ n.extra = p.extra
      /\ n.rank = None /\ n.short = FALSE /\ n.chosen = p.chosen
  <2>1. t \in Nat
    BY <1>4
  <2> HIDE DEF t
  <2> QED
    BY <1>3, <2>1 DEF Quotations
<1>6. n = Edited(q, f, v)
  BY DEF Edited, p
<1> HIDE DEF n
<1>7. n.total = TotalCost(n)
  BY <1>4, <1>5 DEF TotalCost
<1> QED
  BY <1>1, <1>3, <1>5, <1>6, <1>7 DEF p

-----------------------------------------------------------------------------
(* The inductive invariant.                                                *)

\* A selected quotation is one of those that were entered.
SelectionExists ==
  need.weights # None /\ need.selected # None => cand[need.selected] # None

\* What a run may select, a person has approved.
SelectionIsApproved ==
  \A r \in Runs : run[r].pc = "deciding" /\ run[r].approved => doc.human

\* What a run has read of a quotation that nobody has edited since still holds.
ReadingsHold ==
  \A r \in Runs, c \in Candidates :
    run[r].pc = "deciding" /\ c \in run[r].fit =>
      /\ cand[c] # None
      /\ c \notin run[r].stale => run[r].weights # None /\ Eligible(cand[c], run[r].weights)

IInv ==
  /\ TypeOK
  /\ SelectionAgrees
  /\ SelectionExists
  /\ SelectionIsApproved
  /\ ReadingsHold
  /\ RankingIsSound
  /\ UnfitShortlistIsExplained

RunStates == {Idle, UsingTool} \cup Deciding
Documents == [finance : BOOLEAN, human : BOOLEAN, listed : SUBSET Runs, mode : {"owner", "receiver"}]

\* The rows are rows with a cost.
LEMMA RowsAreStored ==
  ASSUME TypeOK
  PROVE  cand \in Rows
BY DEF TypeOK, Rows

\* What a run is doing tells what it has read.
LEMMA RunKinds ==
  ASSUME NEW x \in RunStates
  PROVE  /\ x.pc = "deciding" => x \in Deciding
         /\ x.pc \in {"idle", "deciding", "tool"}
BY DEF RunStates, Deciding, UsingTool, Idle

\* A run with another quotation to distrust is in the same state.
LEMMA Distrusting ==
  ASSUME NEW x \in Deciding, NEW c \in Candidates
  PROVE  LET new == [x EXCEPT !.stale = @ \cup {c}] IN
         /\ new \in Deciding /\ new.pc = "deciding" /\ new.weights = x.weights
         /\ new.stale = x.stale \cup {c} /\ new.fit = x.fit /\ new.approved = x.approved
BY DEF Deciding

-----------------------------------------------------------------------------
(* Steps of one run that leave the rows alone.                             *)

\* A run goes on to a state that a person has approved as far as it selects, and
\* whose reading holds.
LEMMA RunStep ==
  ASSUME IInv, NEW r \in Runs, NEW x \in RunStates,
         run' = [run EXCEPT ![r] = x], UNCHANGED <<need, cand, saves, edits, raced, added>>,
         doc' \in Documents, doc.human => doc'.human,
         x.pc = "deciding" /\ x.approved => doc'.human,
         \A c \in Candidates : x.pc = "deciding" /\ c \in x.fit =>
            /\ cand[c] # None
            /\ c \notin x.stale => x.weights # None /\ Eligible(cand[c], x.weights)
  PROVE  IInv'
<1>1. run \in [Runs -> RunStates]
  BY DEF IInv, TypeOK, RunStates
<1>2. run'[r] = x /\ \A s \in Runs \ {r} : run'[s] = run[s]
  BY <1>1
<1>3. TypeOK'
  <2>1. run' \in [Runs -> RunStates]
    BY <1>1
  <2> QED
    BY <2>1 DEF IInv, TypeOK, RunStates, Documents
<1>4. SelectionAgrees' /\ SelectionExists' /\ RankingIsSound' /\ UnfitShortlistIsExplained'
  BY DEF IInv, SelectionAgrees, SelectionExists, RankingIsSound, UnfitShortlistIsExplained
<1>5. SelectionIsApproved'
  BY <1>2 DEF IInv, SelectionIsApproved
<1>6. ReadingsHold'
  BY <1>2 DEF IInv, ReadingsHold
<1> QED
  BY <1>3, <1>4, <1>5, <1>6 DEF IInv

\* What a run reads of each quotation is what the row says, and a person has approved
\* what the document says is approved.
LEMMA ReadingIsTrue ==
  ASSUME IInv, NEW w \in Stated
  PROVE  LET x == Reading(w) IN
         /\ x \in Deciding /\ x.pc = "deciding" /\ x.weights = w /\ x.stale = {}
         /\ x.approved => doc.human
         /\ \A c \in x.fit : cand[c] # None /\ w # None /\ Eligible(cand[c], w)
<1> DEFINE fits == Fit(w)
           ok == doc.finance /\ doc.human
           old == RowsExpire /\ \E c \in Candidates : cand[c] # None
           x == [pc |-> "deciding", weights |-> w, fit |-> fits, expired |-> old,
                 approved |-> ok, stale |-> {}, listed |-> FALSE]
<1>1. w \in Weights \cup {None} /\ RowsExpire \in BOOLEAN
  BY FirstAssumption
<1>2. fits \in SUBSET Candidates /\ \A c \in fits : cand[c] # None /\ w # None /\ Eligible(cand[c], w)
  BY DEF Fit, EligibleIn
<1>3. ok \in BOOLEAN /\ old \in BOOLEAN /\ (ok => doc.human)
  BY <1>1 DEF IInv, TypeOK
<1>4. Reading(w) = x
  BY DEF Reading
<1> HIDE DEF fits, ok, old
<1>5. /\ x \in Deciding /\ x.pc = "deciding" /\ x.weights = w /\ x.stale = {}
      /\ x.approved = ok /\ x.fit = fits
  BY <1>1, <1>2, <1>3 DEF Deciding
<1> HIDE DEF x
<1> QED
  BY <1>2, <1>3, <1>4, <1>5

LEMMA AskStep ==
  ASSUME IInv, NEW r \in Runs, NEW w \in Stated, Ask(r, w)
  PROVE  IInv'
<1> DEFINE x == Reading(w)
<1>1. doc \in Documents /\ doc' = doc
  BY DEF IInv, TypeOK, Documents, Ask
<1>2. /\ x \in Deciding /\ x.pc = "deciding" /\ x.weights = w /\ x.stale = {}
      /\ x.approved => doc.human
      /\ \A c \in x.fit : cand[c] # None /\ w # None /\ Eligible(cand[c], w)
  BY ReadingIsTrue
<1>3. x \in RunStates
  BY <1>2 DEF RunStates
<1>4. run' = [run EXCEPT ![r] = x] /\ UNCHANGED <<need, cand, saves, edits, raced, added>>
  BY DEF Ask
<1> HIDE DEF x
<1> QED
  BY <1>1, <1>2, <1>3, <1>4, RunStep

\* A run that ends, or passes a question on, leaves no reading.
LEMMA EndsStep ==
  ASSUME IInv, NEW r \in Runs, Ends(r) \/ PassOn(r)
  PROVE  IInv'
<1>1. Idle \in RunStates /\ Idle.pc = "idle"
  BY DEF RunStates, Idle
<1>2. doc \in Documents
  BY DEF IInv, TypeOK, Documents
<1>3. doc' \in Documents /\ doc'.human = doc.human
  BY <1>2 DEF Ends, PassOn, Documents
<1>4. run' = [run EXCEPT ![r] = Idle] /\ UNCHANGED <<need, cand, saves, edits, raced, added>>
  BY DEF Ends, PassOn
<1> QED
  BY <1>1, <1>3, <1>4, RunStep

LEMMA ReceiverToolStep ==
  ASSUME IInv, NEW r \in Runs, ReceiverTool(r)
  PROVE  IInv'
<1>1. run \in [Runs -> RunStates] /\ doc \in Documents
  BY DEF IInv, TypeOK, RunStates, Documents
<1>2. run[r] \in Deciding /\ (run[r].approved => doc.human)
  <2>1. run[r].pc = "deciding"
    BY DEF ReceiverTool
  <2>2. run[r].approved => doc.human
    BY <2>1 DEF IInv, SelectionIsApproved
  <2> QED
    BY <1>1, <2>1, <2>2, RunKinds
<1>3. PICK w \in Stated :
        run' = [run EXCEPT ![r] = [Reading(w) EXCEPT !.approved = run[r].approved, !.listed = TRUE]]
  BY Zenon DEF ReceiverTool
<1> DEFINE y == Reading(w)
           x == [y EXCEPT !.approved = run[r].approved, !.listed = TRUE]
<1>4. /\ y \in Deciding /\ y.weights = w /\ y.stale = {}
      /\ \A c \in y.fit : cand[c] # None /\ w # None /\ Eligible(cand[c], w)
  BY ReadingIsTrue
<1>5. run' = [run EXCEPT ![r] = x] /\ UNCHANGED <<need, cand, doc, saves, edits, raced, added>>
  BY <1>3 DEF ReceiverTool
<1> HIDE DEF y
<1>6. /\ x \in Deciding /\ x.pc = "deciding" /\ x.weights = w /\ x.stale = {} /\ x.fit = y.fit
      /\ x.approved = run[r].approved
  BY <1>2, <1>4 DEF Deciding
<1>7. x \in RunStates
  BY <1>6 DEF RunStates
<1> HIDE DEF x
<1> QED
  BY <1>1, <1>2, <1>4, <1>5, <1>6, <1>7, RunStep

\* An approval only adds to what is approved.
LEMMA ApprovalStep ==
  ASSUME IInv, FinanceApproves \/ HumanApproves
  PROVE  IInv'
<1>1. /\ UNCHANGED <<need, cand, run, saves, edits, raced, added>>
      /\ doc' \in Documents
      /\ doc.human => doc'.human
  BY DEF IInv, TypeOK, Documents, FinanceApproves, HumanApproves
<1>2. TypeOK'
  BY <1>1 DEF IInv, TypeOK, Documents
<1>3. /\ SelectionAgrees' /\ SelectionExists' /\ RankingIsSound' /\ UnfitShortlistIsExplained'
      /\ ReadingsHold'
  BY <1>1 DEF IInv, SelectionAgrees, SelectionExists, RankingIsSound,
              UnfitShortlistIsExplained, Lacks, ReadingsHold
<1>4. SelectionIsApproved'
  BY <1>1 DEF IInv, SelectionIsApproved
<1> QED
  BY <1>2, <1>3, <1>4 DEF IInv

-----------------------------------------------------------------------------
(* Steps that write the rows.                                              *)

LEMMA AddStep ==
  ASSUME IInv, NEW c \in Candidates, NEW q \in Offers[c], AddCandidate(c, q)
  PROVE  IInv'
<1> DEFINE new == [unit |-> q.unit, extra |-> q.extra, total |-> TotalCost(q), days |-> q.days,
                   quality |-> q.quality, fit |-> q.fit, currency |-> q.currency,
                   overall |-> None, rank |-> None, short |-> FALSE, chosen |-> FALSE]
<1>1. /\ cand[c] = None /\ TotalCost(q) > 0 /\ cand' = [cand EXCEPT ![c] = new]
      /\ UNCHANGED <<need, doc, run, saves, edits, raced, added>>
  BY DEF AddCandidate
<1>2. /\ q.unit \in Nat /\ q.extra \in Nat /\ q.days \in Days /\ q.quality \in Qualities
      /\ q.fit \in BOOLEAN /\ q.currency \in STRING
  BY OffersAssumption
<1>3. TotalCost(q) \in Nat
  BY <1>2 DEF TotalCost
<1>4. /\ new \in Quotations /\ new.total = TotalCost(new) /\ new.total > 0
      /\ new.rank = None /\ new.short = FALSE /\ new.chosen = FALSE
  BY <1>1, <1>2, <1>3 DEF Quotations, TotalCost
<1> HIDE DEF new
<1>5. cand \in [Candidates -> Quotations \cup {None}]
  BY DEF IInv, TypeOK
<1>6. cand'[c] = new /\ \A d \in Candidates \ {c} : cand'[d] = cand[d]
  BY <1>1, <1>5
<1>7. TypeOK'
  <2>1. cand' \in [Candidates -> Quotations \cup {None}]
    BY <1>1, <1>4, <1>5
  <2>2. \A d \in Candidates : cand'[d] # None => cand'[d].total > 0 /\ cand'[d].total = TotalCost(cand'[d])
    BY <1>4, <1>6 DEF IInv, TypeOK
  <2> QED
    BY <1>1, <2>1, <2>2 DEF IInv, TypeOK
<1>8. c # None
  BY CandidatesAssumption, NoneAssumption
<1>9. SelectionAgrees' /\ SelectionExists'
  <2>1. need.weights # None => need.selected # c
    BY <1>1, <1>8 DEF IInv, SelectionExists
  <2>2. need.selected \in Candidates \cup {None}
    BY DEF IInv, TypeOK
  <2> QED
    BY <1>1, <1>4, <1>6, <2>1, <2>2 DEF IInv, SelectionAgrees, SelectionExists
<1>10. SelectionIsApproved'
  BY <1>1 DEF IInv, SelectionIsApproved
<1>11. ReadingsHold'
  <2>1. \A r \in Runs : run[r].pc = "deciding" => c \notin run[r].fit
    BY <1>1 DEF IInv, ReadingsHold
  <2> QED
    BY <1>1, <1>6, <2>1 DEF IInv, ReadingsHold
<1>12. RankingIsSound'
  BY <1>4, <1>6 DEF IInv, RankingIsSound
<1>13. UnfitShortlistIsExplained'
  BY <1>1, <1>4, <1>6 DEF IInv, UnfitShortlistIsExplained
<1> QED
  BY <1>7, <1>9, <1>10, <1>11, <1>12, <1>13 DEF IInv

LEMMA EditStep ==
  ASSUME IInv, NEW c \in Candidates, NEW e \in Edits[c], EditCandidate(c, e[1], e[2])
  PROVE  IInv'
<1>1. PICK new : new = Edited(cand[c], e[1], e[2])
  OBVIOUS
<1>2. /\ cand[c] # None /\ cand[c].chosen = FALSE
      /\ TotalCost([cand[c] EXCEPT ![e[1]] = e[2]]) > 0
      /\ cand' = [cand EXCEPT ![c] = new]
      /\ edits' = edits + 1
      /\ run' = [r \in Runs |-> IF run[r].pc = "deciding" /\ c \in run[r].fit
                                THEN [run[r] EXCEPT !.stale = @ \cup {c}] ELSE run[r]]
      /\ raced' = raced \ {c}
      /\ UNCHANGED <<need, doc, saves, added>>
  <2>1. cand[c] # None /\ ~cand[c].chosen
    BY DEF EditCandidate
  <2>2. cand[c].chosen \in BOOLEAN
    BY <2>1 DEF IInv, TypeOK, Quotations
  <2> QED
    BY <1>1, <2>1, <2>2 DEF EditCandidate
<1>3. cand \in [Candidates -> Quotations \cup {None}] /\ run \in [Runs -> RunStates]
  BY DEF IInv, TypeOK, RunStates
<1>4. /\ new \in Quotations /\ new # None /\ new.total = TotalCost(new) /\ new.total > 0
      /\ new.rank = None /\ new.short = FALSE /\ new.chosen = FALSE
  <2>1. cand[c] \in Quotations
    BY <1>2, <1>3
  <2> QED
    BY <1>1, <1>2, <2>1, EditedRow, NoneAssumption
<1>5. cand'[c] = new /\ \A d \in Candidates \ {c} : cand'[d] = cand[d]
  BY <1>2, <1>3
<1>6. ASSUME NEW r \in Runs
      PROVE  /\ run'[r] \in RunStates /\ run'[r].pc = run[r].pc
             /\ run[r].pc = "deciding" =>
                  /\ run'[r].weights = run[r].weights /\ run'[r].fit = run[r].fit
                  /\ run'[r].approved = run[r].approved
                  /\ run[r].stale \subseteq run'[r].stale
                  /\ c \in run[r].fit => c \in run'[r].stale
  <2>1. CASE run[r].pc = "deciding" /\ c \in run[r].fit
    <3>1. run[r] \in Deciding /\ run'[r] = [run[r] EXCEPT !.stale = @ \cup {c}]
      BY <1>2, <1>3, <2>1, RunKinds
    <3> QED
      BY <2>1, <3>1, Distrusting DEF RunStates
  <2>2. CASE ~(run[r].pc = "deciding" /\ c \in run[r].fit)
    BY <1>2, <1>3, <2>2
  <2> QED
    BY <2>1, <2>2
<1>7. TypeOK'
  <2>1. cand' \in [Candidates -> Quotations \cup {None}]
    BY <1>2, <1>3, <1>4
  <2>2. \A d \in Candidates : cand'[d] # None => cand'[d].total > 0 /\ cand'[d].total = TotalCost(cand'[d])
    BY <1>4, <1>5 DEF IInv, TypeOK
  <2>3. run' \in [Runs -> RunStates]
    BY <1>2, <1>6
  <2> QED
    BY <1>2, <2>1, <2>2, <2>3 DEF IInv, TypeOK, RunStates
<1>8. SelectionAgrees' /\ SelectionExists'
  BY <1>2, <1>4, <1>5 DEF IInv, SelectionAgrees, SelectionExists, TypeOK
<1>9. SelectionIsApproved'
  BY <1>2, <1>6 DEF IInv, SelectionIsApproved
<1>10. ReadingsHold'
  <2> SUFFICES ASSUME NEW r \in Runs, NEW d \in Candidates,
                      run'[r].pc = "deciding", d \in run'[r].fit
      PROVE  /\ cand'[d] # None
             /\ d \notin run'[r].stale =>
                  run'[r].weights # None /\ Eligible(cand'[d], run'[r].weights)
    BY DEF ReadingsHold
  <2>1. CASE d = c
    BY <1>4, <1>5, <1>6, <2>1
  <2>2. CASE d # c
    BY <1>5, <1>6, <2>2 DEF IInv, ReadingsHold
  <2> QED
    BY <2>1, <2>2
<1>11. RankingIsSound'
  BY <1>4, <1>5 DEF IInv, RankingIsSound
<1>12. UnfitShortlistIsExplained'
  BY <1>2, <1>4, <1>5 DEF IInv, UnfitShortlistIsExplained
<1> QED
  BY <1>7, <1>8, <1>9, <1>10, <1>11, <1>12 DEF IInv

\* A row is evaluated with a weighting and marked as shortlisted or not.
RowScored(c, w, short) ==
  /\ cand[c] = None => cand'[c] = None
  /\ cand[c] # None =>
       /\ cand'[c] \in Quotations /\ cand'[c] # None
       /\ cand'[c].unit = cand[c].unit /\ cand'[c].extra = cand[c].extra
       /\ cand'[c].total = cand[c].total /\ cand'[c].days = cand[c].days
       /\ cand'[c].quality = cand[c].quality /\ cand'[c].fit = cand[c].fit
       /\ cand'[c].short = (c \in short)
       /\ cand'[c].rank = IF c \in EligibleIn(cand, w) THEN Rank(cand, w, c) ELSE None

\* An evaluation of all rows is a sound ranking, leaves what was bought as it was, and
\* leaves a shortlisted quotation without a rank only if it cannot be bought.
LEMMA ScoredRows ==
  ASSUME TypeOK, NEW w \in Weights, NEW short \in SUBSET Candidates,
         cand' \in [Candidates -> Quotations \cup {None}],
         \A c \in Candidates : RowScored(c, w, short)
  PROVE  /\ \A c \in Candidates : cand'[c] # None =>
                cand'[c].total > 0 /\ cand'[c].total = TotalCost(cand'[c])
         /\ \A c \in Candidates : cand'[c] # None <=> cand[c] # None
         /\ \A c \in Candidates, v \in Weights :
                cand[c] # None => (Eligible(cand'[c], v) <=> Eligible(cand[c], v))
         /\ RankingIsSound'
         /\ \A c \in Candidates : (cand'[c] # None /\ cand'[c].short /\ cand'[c].rank = None)
                => c \in short /\ c \notin EligibleIn(cand, w)
<1> DEFINE E == EligibleIn(cand, w)
<1>0. cand \in Rows
  BY RowsAreStored
<1>1. \A c \in E : cand[c] # None /\ cand[c].fit /\ Rank(cand, w, c) \in Nat /\ Rank(cand, w, c) # None
  BY <1>0, EligibleRow, RankFollowsOrder, NoneAssumption
<1>2. \A c \in Candidates : cand'[c] # None =>
        cand'[c].total > 0 /\ cand'[c].total = TotalCost(cand'[c])
  BY DEF RowScored, TypeOK, TotalCost
<1>3. \A c \in Candidates : cand'[c] # None <=> cand[c] # None
  BY DEF RowScored
<1>4. ASSUME NEW c \in Candidates, NEW v \in Weights, cand[c] # None
      PROVE  Eligible(cand'[c], v) <=> Eligible(cand[c], v)
  <2>1. /\ cand'[c].total = cand[c].total /\ cand'[c].days = cand[c].days
        /\ cand'[c].quality = cand[c].quality /\ cand'[c].fit = cand[c].fit
    BY <1>4 DEF RowScored
  <2> QED
    BY <2>1 DEF Eligible
<1>5. RankingIsSound'
  <2> SUFFICES ASSUME NEW c \in Candidates, NEW d \in Candidates,
                      cand'[c] # None, cand'[d] # None, cand'[c].rank # None
               PROVE  /\ cand'[c].fit
                      /\ (c # d /\ cand'[d].rank # None) =>
                           /\ cand'[c].rank # cand'[d].rank
                           /\ Dominates(cand'[c], cand'[d]) => cand'[c].rank < cand'[d].rank
    BY DEF RankingIsSound
  <2>1. c \in E /\ cand'[c].rank = Rank(cand, w, c) /\ cand'[c].fit
    BY <1>1 DEF RowScored
  <2>2. ASSUME c # d, cand'[d].rank # None
        PROVE  /\ cand'[c].rank # cand'[d].rank
               /\ Dominates(cand'[c], cand'[d]) => cand'[c].rank < cand'[d].rank
    <3>1. d \in E /\ cand'[d].rank = Rank(cand, w, d)
      BY <2>2 DEF RowScored
    <3>2. /\ Rank(cand, w, c) \in Nat /\ Rank(cand, w, d) \in Nat
          /\ Before(cand, w, c, d) => Rank(cand, w, c) < Rank(cand, w, d)
          /\ Before(cand, w, d, c) => Rank(cand, w, d) < Rank(cand, w, c)
      BY <1>0, <2>1, <3>1, RankFollowsOrder
    <3>3. Before(cand, w, c, d) \/ Before(cand, w, d, c)
      BY <1>0, <2>1, <2>2, <3>1, BeforeOrders
    <3>4. Dominates(cand'[c], cand'[d]) => Dominates(cand[c], cand[d])
      <4>1. /\ cand'[c].total = cand[c].total /\ cand'[c].days = cand[c].days
            /\ cand'[c].quality = cand[c].quality
            /\ cand'[d].total = cand[d].total /\ cand'[d].days = cand[d].days
            /\ cand'[d].quality = cand[d].quality
        BY <1>3 DEF RowScored
      <4> QED
        BY <4>1 DEF Dominates
    <3>5. Dominates(cand[c], cand[d]) => Before(cand, w, c, d)
      BY <1>0, <2>1, <3>1, DominatingComesBefore
    <3> HIDE DEF E
    <3> QED
      BY <2>1, <3>1, <3>2, <3>3, <3>4, <3>5
  <2> QED
    BY <2>1, <2>2
<1>6. ASSUME NEW c \in Candidates, cand'[c] # None, cand'[c].short, cand'[c].rank = None
      PROVE  c \in short /\ c \notin E
  <2>1. cand'[c].short = (c \in short) /\ cand[c] # None
    BY <1>3, <1>6 DEF RowScored
  <2>2. c \notin E
    BY <1>1, <1>6, <2>1 DEF RowScored
  <2> QED
    BY <1>6, <2>1, <2>2
<1> QED
  BY <1>2, <1>3, <1>4, <1>5, <1>6

\* After the rows are evaluated, and a run has ended or goes on to its tool, what the
\* runs have read holds as before.
LEMMA ReadingsAfterScores ==
  ASSUME IInv, NEW w \in Weights, NEW short \in SUBSET Candidates,
         cand' \in [Candidates -> Quotations \cup {None}],
         \A c \in Candidates : RowScored(c, w, short),
         NEW r \in Runs, NEW x \in RunStates, x.pc \in {"idle", "tool"},
         run' = [run EXCEPT ![r] = x]
  PROVE  ReadingsHold'
<1> SUFFICES ASSUME NEW s \in Runs, NEW c \in Candidates,
                    run'[s].pc = "deciding", c \in run'[s].fit
    PROVE  /\ cand'[c] # None
           /\ c \notin run'[s].stale =>
                run'[s].weights # None /\ Eligible(cand'[c], run'[s].weights)
  BY DEF ReadingsHold
<1>1. run \in [Runs -> RunStates]
  BY DEF IInv, TypeOK, RunStates
<1>2. CASE s = r
  BY <1>1, <1>2
<1>3. CASE s # r
  <2>1. run'[s] = run[s]
    BY <1>1, <1>3
  <2>2. run[s].weights \in Weights \cup {None}
    BY <1>1, <2>1, RunKinds DEF Deciding
  <2>3. /\ cand'[c] # None <=> cand[c] # None
        /\ \A v \in Weights : cand[c] # None => (Eligible(cand'[c], v) <=> Eligible(cand[c], v))
    BY ScoredRows DEF IInv
  <2> QED
    BY <2>1, <2>2, <2>3 DEF IInv, ReadingsHold
<1> QED
  BY <1>2, <1>3

\* What an accepted answer consists of.
LEMMA AnswerParts ==
  ASSUME NEW x \in Deciding, NEW a \in Answers(x)
  PROVE  /\ a.next \in {"tool", "finance", "done"}
         /\ a.short \in SUBSET Candidates /\ a.short \subseteq x.fit
         /\ a.chosen \in Candidates \cup {None} /\ a.weights \in Weights \cup {None}
         /\ a.chosen # None => x.approved /\ a.chosen \in a.short
BY DEF Answers, Consistent, Deciding

\* What a run that saves leaves of itself.
LEMMA SavedRun ==
  ASSUME NEW r \in Runs, NEW a, Saved(r, a)
  PROVE  \E x \in RunStates : x.pc \in {"idle", "tool"} /\ run' = [run EXCEPT ![r] = x]
<1>1. Idle \in RunStates /\ Idle.pc = "idle" /\ UsingTool \in RunStates /\ UsingTool.pc = "tool"
  BY DEF RunStates, Idle, UsingTool
<1>2. run' = [run EXCEPT ![r] = UsingTool] \/ run' = [run EXCEPT ![r] = Idle]
  BY DEF Saved
<1> QED
  BY <1>1, <1>2

\* A quotation that could be bought by the weighting that was read, and cannot by the
\* one of the answer, lacks what only the answer weighs.
LEMMA UnfitByTheAnswer ==
  ASSUME NEW v \in Weights, NEW w \in Weights, v # None, w # None,
         NEW q, Eligible(q, v), ~Eligible(q, w)
  PROVE  q.fit /\ Lacks(q, Added(w, v))
<1>1. \A k \in Criteria : v[k] \in 0..1000 /\ w[k] \in 0..1000
  BY WeightsAssumption
<1>2. "quality" \in Criteria /\ "delivery" \in Criteria
  BY DEF Criteria
<1>3. \A k \in Criteria : w[k] > 0 /\ ~(v[k] > 0) => k \in Added(w, v)
  BY <1>1 DEF Added
<1> QED
  BY <1>2, <1>3 DEF Eligible, Lacks

LEMMA SavedStep ==
  ASSUME IInv, NEW r \in Runs, run[r].pc = "deciding", NEW a \in Answers(run[r]), Saved(r, a)
  PROVE  IInv'
<1>1. PICK y : y = run[r]
  OBVIOUS
<1>2. run \in [Runs -> RunStates] /\ doc \in Documents
  BY DEF IInv, TypeOK, RunStates, Documents
<1>3. /\ y \in Deciding /\ y.stale \in SUBSET Candidates /\ y.weights \in Weights \cup {None}
  BY <1>1, <1>2, RunKinds DEF Deciding
<1>4. PICK x \in RunStates : x.pc \in {"idle", "tool"} /\ run' = [run EXCEPT ![r] = x]
  BY SavedRun
<1>5. /\ a.short \in SUBSET Candidates /\ a.short \subseteq y.fit
      /\ a.chosen \in Candidates \cup {None} /\ a.weights \in Weights \cup {None}
      /\ a.chosen # None => y.approved /\ a.chosen \in a.short
  BY <1>1, <1>3, AnswerParts
<1>6. doc' \in Documents /\ doc'.human = doc.human
  BY <1>2 DEF Saved, Asked, Documents
<1>7. /\ need' = [weights |-> a.weights, selected |-> a.chosen]
      /\ need' \in [weights : Weights \cup {None}, selected : Candidates \cup {None}]
      /\ need'.weights = a.weights /\ need'.selected = a.chosen
      /\ saves' = saves + 1 /\ edits' = edits
  BY <1>5 DEF Saved
<1>8. run' \in [Runs -> RunStates] /\ run'[r] = x /\ \A s \in Runs \ {r} : run'[s] = run[s]
  BY <1>2, <1>4
<1>9. SelectionIsApproved'
  BY <1>4, <1>6, <1>8 DEF IInv, SelectionIsApproved
<1>10. \A c \in a.short :
         /\ cand[c] # None
         /\ c \notin y.stale =>
              y.weights \in Weights /\ y.weights # None /\ Eligible(cand[c], y.weights)
  BY <1>1, <1>3, <1>5 DEF IInv, ReadingsHold
<1>11. CASE a.weights = None
  <2>1. cand' = cand /\ raced' = raced /\ added' = added
    BY <1>11 DEF Saved
  <2>2. TypeOK'
    BY <1>6, <1>7, <1>8, <2>1 DEF IInv, TypeOK, RunStates, Documents
  <2>3. SelectionAgrees' /\ SelectionExists'
    BY <1>7, <1>11 DEF SelectionAgrees, SelectionExists
  <2>4. ReadingsHold'
    BY <1>4, <1>8, <2>1 DEF IInv, ReadingsHold
  <2>5. RankingIsSound' /\ UnfitShortlistIsExplained'
    BY <2>1 DEF IInv, RankingIsSound, UnfitShortlistIsExplained
  <2> QED
    BY <1>9, <2>2, <2>3, <2>4, <2>5 DEF IInv
<1>12. CASE a.weights # None
  <2>1. /\ a.weights \in Weights /\ cand' = Flagged(a) /\ cand \in Rows
        /\ raced' = a.short \cap y.stale /\ added' = Added(a.weights, y.weights)
    BY <1>1, <1>5, <1>12, RowsAreStored DEF Saved, IInv
  <2>2. \A c \in Candidates : RowScored(c, a.weights, a.short)
    BY <1>5, <2>1, FlaggedRow DEF RowScored
  <2>3. \A c \in Candidates : cand[c] # None => cand'[c].chosen = (c = a.chosen)
    BY <1>5, <2>1, FlaggedRow
  <2>4. cand' \in [Candidates -> Quotations \cup {None}]
    <3>1. cand' = [c \in Candidates |-> cand'[c]]
      BY <2>1 DEF Flagged
    <3>2. \A c \in Candidates : cand'[c] \in Quotations \cup {None}
      BY <2>2 DEF RowScored
    <3> QED
      BY <3>1, <3>2
  <2>5. /\ \A c \in Candidates : cand'[c] # None =>
                cand'[c].total > 0 /\ cand'[c].total = TotalCost(cand'[c])
        /\ \A c \in Candidates : cand'[c] # None <=> cand[c] # None
        /\ RankingIsSound'
        /\ \A c \in Candidates : (cand'[c] # None /\ cand'[c].short /\ cand'[c].rank = None)
                => c \in a.short /\ c \notin EligibleIn(cand, a.weights)
    BY <1>5, <2>1, <2>2, <2>4, ScoredRows DEF IInv
  <2>6. TypeOK'
    <3>1. raced' \subseteq Candidates /\ added' \subseteq Criteria
      BY <1>5, <2>1 DEF Added
    <3> QED
      BY <1>6, <1>7, <1>8, <2>4, <2>5, <3>1 DEF IInv, TypeOK, RunStates, Documents
  <2>7. SelectionAgrees'
    BY <1>7, <2>3, <2>5 DEF SelectionAgrees
  <2>8. SelectionExists'
    BY <1>5, <1>7, <1>10, <2>5 DEF SelectionExists
  <2>9. ReadingsHold'
    BY <1>4, <1>5, <2>1, <2>2, <2>4, ReadingsAfterScores
  <2>10. UnfitShortlistIsExplained'
    <3> SUFFICES ASSUME NEW c \in Candidates, cand'[c] # None, cand'[c].short,
                        cand'[c].rank = None, c \notin y.stale
                 PROVE  cand'[c].fit /\ Lacks(cand'[c], Added(a.weights, y.weights))
      <4>1. \A c \in Candidates : (cand'[c] # None /\ cand'[c].short /\ cand'[c].rank = None)
              => c \in a.short
        BY <2>5
      <4> QED
        BY <2>1, <4>1 DEF UnfitShortlistIsExplained
    <3>1. c \in a.short /\ c \notin EligibleIn(cand, a.weights) /\ cand[c] # None
      BY <2>5
    <3>2. y.weights \in Weights /\ y.weights # None /\ Eligible(cand[c], y.weights)
      BY <1>10, <3>1
    <3>3. ~Eligible(cand[c], a.weights)
      BY <3>1 DEF EligibleIn
    <3>4. cand[c].fit /\ Lacks(cand[c], Added(a.weights, y.weights))
      BY <1>12, <2>1, <3>2, <3>3, UnfitByTheAnswer
    <3>5. /\ cand'[c].fit = cand[c].fit /\ cand'[c].days = cand[c].days
          /\ cand'[c].quality = cand[c].quality
      BY <2>2, <3>1 DEF RowScored
    <3> QED
      BY <3>4, <3>5 DEF Lacks
  <2> QED
    BY <1>9, <2>5, <2>6, <2>7, <2>8, <2>9, <2>10 DEF IInv
<1> QED
  BY <1>11, <1>12

LEMMA SaveStep ==
  ASSUME IInv, NEW r \in Runs, Save(r)
  PROVE  IInv'
BY SavedStep DEF Save

LEMMA ShortlistStep ==
  ASSUME IInv, NEW r \in Runs, NEW w \in Weights, NEW size \in Sizes, Shortlist(r, w, size)
  PROVE  IInv'
<1>1. PICK short : short = Shortened(w, size)
  OBVIOUS
<1>2. short \in SUBSET Candidates /\ short \subseteq EligibleIn(cand, w)
  BY <1>1 DEF Shortened, EligibleIn
<1>0. cand' = Evaluated(cand, w, short)
  BY <1>1 DEF Shortlist
<1>3. /\ saves' = saves + 1 /\ raced' = {} /\ added' = {}
      /\ run' = [run EXCEPT ![r] = Idle]
      /\ UNCHANGED <<need, edits>>
  BY DEF Shortlist
<1>4. run \in [Runs -> RunStates] /\ doc \in Documents /\ cand \in Rows
  BY RowsAreStored DEF IInv, TypeOK, RunStates, Documents
<1>5. Idle \in RunStates /\ Idle.pc = "idle"
  BY DEF RunStates, Idle
<1>6. run' \in [Runs -> RunStates] /\ run'[r] = Idle /\ \A s \in Runs \ {r} : run'[s] = run[s]
  BY <1>3, <1>4, <1>5
<1>7. doc' \in Documents /\ doc'.human = doc.human
  <2>1. doc.listed \cup {r} \in SUBSET Runs
    BY <1>4 DEF Documents
  <2>2. doc' = [doc EXCEPT !.listed = doc.listed \cup {r}]
    BY DEF Shortlist
  <2> QED
    BY <1>4, <2>1, <2>2 DEF Documents
<1>8. \A c \in Candidates : RowScored(c, w, short)
  BY <1>0, <1>2, <1>4, EvaluatedRow DEF RowScored
<1>9. \A c \in Candidates : cand[c] # None => cand'[c].chosen = cand[c].chosen
  BY <1>0, <1>2, <1>4, EvaluatedRow
<1>10. cand' \in [Candidates -> Quotations \cup {None}]
  <2>1. cand' = [c \in Candidates |-> cand'[c]]
    BY <1>0, Zenon DEF Evaluated
  <2>2. \A c \in Candidates : cand'[c] \in Quotations \cup {None}
    BY <1>8 DEF RowScored
  <2> QED
    BY <2>1, <2>2
<1>11. /\ \A c \in Candidates : cand'[c] # None =>
              cand'[c].total > 0 /\ cand'[c].total = TotalCost(cand'[c])
       /\ \A c \in Candidates : cand'[c] # None <=> cand[c] # None
       /\ RankingIsSound'
       /\ \A c \in Candidates : (cand'[c] # None /\ cand'[c].short /\ cand'[c].rank = None)
              => c \in short /\ c \notin EligibleIn(cand, w)
  BY <1>2, <1>8, <1>10, ScoredRows DEF IInv
<1>12. TypeOK'
  BY <1>3, <1>6, <1>7, <1>10, <1>11 DEF IInv, TypeOK, RunStates, Documents
<1>13. SelectionAgrees' /\ SelectionExists'
  BY <1>3, <1>9, <1>11 DEF IInv, SelectionAgrees, SelectionExists, TypeOK
<1>14. SelectionIsApproved'
  BY <1>5, <1>6, <1>7 DEF IInv, SelectionIsApproved
<1>15. ReadingsHold'
  BY <1>2, <1>3, <1>5, <1>8, <1>10, ReadingsAfterScores
<1>16. UnfitShortlistIsExplained'
  BY <1>2, <1>11 DEF UnfitShortlistIsExplained
<1> QED
  BY <1>11, <1>12, <1>13, <1>14, <1>15, <1>16 DEF IInv

-----------------------------------------------------------------------------
(* The theorems.                                                           *)

\* The invariant holds before there are quotations.
LEMMA InitIInv == Init => IInv
<1> SUFFICES ASSUME Init  PROVE IInv
  OBVIOUS
<1>1. /\ need.weights \in Weights \cup {None} /\ need.selected = None
      /\ need \in [weights : Weights \cup {None}, selected : Candidates \cup {None}]
  BY FirstAssumption DEF Init
<1>2. doc \in Documents
  BY FirstAssumption DEF Init, Documents
<1>3. \A r \in Runs : run[r] = Idle /\ run[r].pc = "idle"
  BY DEF Init, Idle
<1>4. TypeOK
  BY <1>1, <1>2 DEF Init, TypeOK, Documents
<1>5. \A c \in Candidates : cand[c] = None
  BY DEF Init
<1>6. SelectionAgrees /\ SelectionExists /\ RankingIsSound /\ UnfitShortlistIsExplained
  BY <1>1, <1>5 DEF SelectionAgrees, SelectionExists, RankingIsSound, UnfitShortlistIsExplained
<1>7. SelectionIsApproved /\ ReadingsHold
  BY <1>3 DEF SelectionIsApproved, ReadingsHold
<1> QED
  BY <1>4, <1>6, <1>7 DEF IInv

\* What a step of the system is.
LEMMA NextCases ==
  ASSUME [Next]_vars
  PROVE  \/ UNCHANGED vars
         \/ \E c \in Candidates : \E q \in Offers[c] : AddCandidate(c, q)
         \/ \E c \in Candidates : \E e \in Edits[c] : EditCandidate(c, e[1], e[2])
         \/ \E r \in Runs, w \in Stated : Ask(r, w)
         \/ \E r \in Runs : Save(r) \/ (Ends(r) \/ PassOn(r)) \/ ReceiverTool(r)
         \/ \E r \in Runs, w \in Weights, n \in Sizes : Shortlist(r, w, n)
         \/ FinanceApproves \/ HumanApproves
BY Zenon DEF Next

\* Every step keeps it.
LEMMA NextIInv == IInv /\ [Next]_vars => IInv'
<1> SUFFICES ASSUME IInv, [Next]_vars  PROVE IInv'
  OBVIOUS
<1>1. CASE UNCHANGED vars
  <2>1. TypeOK' /\ SelectionAgrees' /\ SelectionExists' /\ RankingIsSound'
    BY <1>1 DEF vars, IInv, TypeOK, SelectionAgrees, SelectionExists, RankingIsSound
  <2>2. SelectionIsApproved' /\ ReadingsHold' /\ UnfitShortlistIsExplained'
    BY <1>1 DEF vars, IInv, SelectionIsApproved, ReadingsHold, UnfitShortlistIsExplained
  <2> QED
    BY <2>1, <2>2 DEF IInv
<1> QED
  BY <1>1, NextCases, AddStep, EditStep, AskStep, SaveStep, EndsStep,
     ReceiverToolStep, ShortlistStep, ApprovalStep

\* A selection is made by a save, which saves what its run was allowed to select, and
\* an edit leaves a selected quotation alone.
LEMMA StepIsAuthorized == IInv /\ [Next]_vars => SelectionIsAuthorized \/ UNCHANGED vars
<1> SUFFICES ASSUME IInv, [Next]_vars, ~UNCHANGED vars
             PROVE  SelectionIsAuthorized
  OBVIOUS
<1>1. ASSUME UNCHANGED need, \A c \in Candidates : cand[c] # None => cand'[c] = cand[c]
      PROVE  SelectionIsAuthorized
  BY <1>1 DEF SelectionIsAuthorized
<1>2. ASSUME NEW c \in Candidates, NEW q \in Offers[c], AddCandidate(c, q)
      PROVE  SelectionIsAuthorized
  <2>1. UNCHANGED need /\ \A d \in Candidates : cand[d] # None => cand'[d] = cand[d]
    BY <1>2 DEF AddCandidate, IInv, TypeOK
  <2> QED
    BY <1>1, <2>1
<1>3. ASSUME NEW c \in Candidates, NEW e \in Edits[c], EditCandidate(c, e[1], e[2])
      PROVE  SelectionIsAuthorized
  <2>1. UNCHANGED need /\ ~cand[c].chosen /\ \A d \in Candidates \ {c} : cand'[d] = cand[d]
    BY <1>3 DEF EditCandidate, IInv, TypeOK
  <2> QED
    BY <2>1 DEF SelectionIsAuthorized
<1>4. ASSUME NEW r \in Runs, Save(r)
      PROVE  SelectionIsAuthorized
  <2>1. PICK a \in Answers(run[r]) : Saved(r, a)
    BY <1>4 DEF Save
  <2>2. run[r].pc = "deciding" /\ run[r] \in Deciding
    BY <1>4, RunKinds DEF IInv, TypeOK, RunStates, Save
  <2>3. /\ need'.selected = a.chosen /\ a.short \in SUBSET Candidates
        /\ a.weights \in Weights \cup {None} /\ (a.chosen # None => run[r].approved)
    BY <2>1, <2>2, AnswerParts DEF Saved
  <2>4. a.chosen # None => doc.human
    BY <2>2, <2>3 DEF IInv, SelectionIsApproved
  <2>5. \A c \in Candidates : cand[c] # None => cand'[c].total = cand[c].total
    <3>1. CASE a.weights = None
      BY <2>1, <3>1 DEF Saved
    <3>2. CASE a.weights # None
      <4>1. a.weights \in Weights /\ cand' = Flagged(a) /\ cand \in Rows
        BY <2>1, <2>3, <3>2, RowsAreStored DEF Saved, IInv
      <4> QED
        BY <2>3, <4>1, FlaggedRow
    <3> QED
      BY <3>1, <3>2
  <2> QED
    BY <2>3, <2>4, <2>5 DEF SelectionIsAuthorized
<1>5. ASSUME NEW r \in Runs, NEW w \in Weights, NEW n \in Sizes, Shortlist(r, w, n)
      PROVE  SelectionIsAuthorized
  <2>1. UNCHANGED need /\ cand' = Evaluated(cand, w, Shortened(w, n)) /\ cand \in Rows
        /\ Shortened(w, n) \in SUBSET Candidates
    <3>1. UNCHANGED need /\ cand' = Evaluated(cand, w, Shortened(w, n)) /\ cand \in Rows
      BY <1>5, RowsAreStored DEF Shortlist, IInv
    <3> QED
      BY <3>1 DEF Shortened, EligibleIn
  <2>2. \A c \in Candidates : cand[c] # None => cand'[c].total = cand[c].total
    BY <2>1, EvaluatedRow
  <2> QED
    BY <2>1, <2>2 DEF SelectionIsAuthorized
<1>6. ASSUME NEW r \in Runs, NEW w, Ask(r, w)  PROVE SelectionIsAuthorized
  BY <1>1, <1>6 DEF Ask
<1>7. ASSUME NEW r \in Runs, Ends(r) \/ PassOn(r) \/ ReceiverTool(r)
      PROVE  SelectionIsAuthorized
  <2>1. UNCHANGED <<need, cand>>
    BY <1>7, Zenon DEF Ends, PassOn, ReceiverTool
  <2> QED
    BY <1>1, <2>1
<1>8. ASSUME FinanceApproves \/ HumanApproves  PROVE SelectionIsAuthorized
  BY <1>1, <1>8 DEF FinanceApproves, HumanApproves
<1> QED
  BY <1>2, <1>3, <1>4, <1>5, <1>6, <1>7, <1>8, NextCases

\* Quotations, requirement and runs keep the invariant.
THEOREM PurchaseInvariant == Spec => []IInv
<1> QED
  BY InitIInv, NextIInv, PTL DEF Spec

\* For any quotations, weightings and runs: stored ranks are one order, which ranks a
\* quotation before those it is better than, whatever the roundings and the edits.
THEOREM RankingStaysSound == Spec => []RankingIsSound
<1>1. IInv => RankingIsSound
  BY DEF IInv
<1> QED
  BY <1>1, PurchaseInvariant, PTL

\* For any number of runs and any weightings, in whatever the answers of the model
\* carry: a quotation that is shortlisted and not ranked was edited between the
\* reading and the saving of the run that shortlisted it, or is fit and lacks the
\* quality or the delivery days that the answer weighs and the reading did not.
THEOREM UnfitShortlistsAreExplained == Spec => []UnfitShortlistIsExplained
<1>1. IInv => UnfitShortlistIsExplained
  BY DEF IInv
<1> QED
  BY <1>1, PurchaseInvariant, PTL

\* For any number of runs: the rows have their types, the two records of the selection
\* agree, and a selection is made only after a person has approved and then keeps its
\* price.
THEOREM SelectionsHold == Spec => SelectionHolds
<1>1. IInv => TypeOK /\ SelectionAgrees
  BY DEF IInv
<1>2. IInv /\ [Next]_vars => [SelectionIsAuthorized]_vars
  BY StepIsAuthorized
<1> QED
  BY <1>1, <1>2, PurchaseInvariant, PTL DEF Spec, SelectionHolds, SelectionStands


-----------------------------------------------------------------------------
(* The administration: the inductive invariant.                            *)

Untouched(c, kinds) == c.since \cap kinds = {}

\* Nobody is half in the directory, and whoever is named as manager is in it.
People ==
  /\ staff \in [Employees -> StaffRow]
  /\ \A e \in Employees : staff[e].status = "absent" => staff[e] = Absent
  /\ \A e \in Present : staff[e].manager \in Present \cup {Nil}

AssetRow == [status : AssetStatus, holder : Employees \cup {Nil}, version : Nat \ {0}]
KeptRow == [key : Keys, active : BOOLEAN, version : Nat \ {0}]

Kept ==
  /\ asset \in [Assets -> AssetRow] /\ AssignedHasHolder
  /\ register \in [Kinds -> [Entries -> {Missing} \cup KeptRow]]
  /\ enabled \in [Departments -> BOOLEAN] /\ active \in BOOLEAN
  /\ action \in [status : {"none", "pending", "resolved"}, assignee : Employees \cup {Nil},
                 answer : Employees \cup {Company, Nil}]
  /\ job \in [Jobs -> ImportJobStatus] /\ stops \in 0..MaxStops
  /\ \A j \in Jobs : job[j] \in {"ready", "processing"} => ManagersKnown

\* Each call moves one version at most, when it ends.
Busy == {s \in Sessions : calls[s] # AtRest}
VersionsBounded ==
  /\ made \in 0..MaxCalls /\ Cardinality(Busy) <= made
  /\ \A x \in Assets : asset[x].version + Cardinality(Busy) <= made + 1
  /\ \A k \in Kinds, i \in Entries : register[k][i].version + Cardinality(Busy) <= made + 1

\* What a call under way has read still holds unless it was overtaken.
HireOk(c) == c.op = "hire" =>
  /\ c.at = "write" /\ c.args.e \in Employees /\ c.args.dept \in Departments \cup {Nil}
  /\ c.args.manager \in Present \cup {Nil}

\* A reporting line that leads from m to the top and leaves e out.
Line(U, e, m) ==
  /\ U \subseteq Present /\ m \in U /\ e \notin U
  /\ \A x \in U : staff[x].manager \in U \cup {Nil}

EditOk(c) == c.op = "edit" =>
  /\ c.at = "write" /\ c.args.e \in Present /\ c.args.change \in Changes
  /\ "manager" \in DOMAIN c.args.change /\ Untouched(c, {"edit"}) =>
       \E U \in SUBSET Employees : Line(U, c.args.e, c.args.change.manager)

DeactivateOk(c) == c.op = "deactivate" =>
  /\ c.at = "write" /\ c.args.e \in Present
  /\ Untouched(c, {"assign", "confirm"}) => staff[c.args.e].role # "department_manager"
  /\ Untouched(c, {"asset"}) => AssignedTo(c.args.e) = {}

DepartmentOk(c) == c.op = "department" =>
  c.at = "write" /\ c.args.e \in Departments /\ c.args.on \in BOOLEAN

ValidChange ==
  {[holder |-> h, status |-> "assigned"] : h \in Employees}
  \cup {[holder |-> Nil, status |-> st] : st \in AssetStatus \ {"assigned"}}
  \cup [{"status"} -> AssetStatus \ {"assigned"}]

AssetOk(c) == c.op = "asset" =>
  /\ c.at = "write" /\ c.args.e \in Assets /\ c.args.change \in ValidChange
  /\ c.args.version \in 1..asset[c.args.e].version
  /\ c.args.change.status = "assigned" => c.args.change.holder \in Present
  /\ c.args.change.status = "assigned" /\ Untouched(c, {"deactivate"}) =>
       staff[c.args.change.holder].status # "terminated"
  /\ c.args.version = asset[c.args.e].version /\ Untouched(c, {"retire"}) =>
       asset[c.args.e].status # "retired"

RetireOk(c) == c.op = "retire" => c.at = "write" /\ c.args.e \in Assets

AssignOk(c) == c.op = "assign" =>
  /\ c.at \in {"demote", "lock", "promote"} /\ c.args.e \in Present
  /\ c.args = [e |-> c.args.e, dept |-> c.args.dept, held |-> c.args.held]
  /\ c.args.dept \in Departments /\ c.args.held \subseteq Present
  /\ Untouched(c, {"edit"}) => \A x \in {c.args.e} \cup c.args.held : staff[x].dept = c.args.dept
  /\ c.at # "demote" /\ Untouched(c, {"assign", "confirm", "edit"}) => c.args.held = Managers(c.args.dept)
  /\ c.at = "promote" => \A x \in c.args.held : staff[x].role = "department_manager"

ActivateOk(c) == c.op = "activate" =>
  c.at = "write" /\ (Untouched(c, {"edit", "deactivate", "department", "assign"}) => Ready)

ConfirmOk(c) == c.op = "confirm" =>
  c.at \in {"start", "rows"} /\ c.args.e \in Jobs /\ ManagersKnown

AnswerOk(c) == c.op = "answer" => c.at = "write" /\ c.args.e \in Employees \cup {Company}

WriterOk(c) ==
  /\ c.at = "write" /\ c.args.kind \in Kinds
  /\ c.args.by # Company /\ Untouched(c, {"edit", "assign", "deactivate", "confirm"}) =>
       c.args.by \in Writers(c.args.kind)

CreateOk(c) == c.op = "create" =>
  /\ WriterOk(c) /\ c.args.e = Nil /\ c.args.change \in [{"key"} -> Keys]
  /\ c.args.kind = "supplier" /\ Untouched(c, {"create", "amend"}) =>
       SupplierMatches(c.args.change.key) = {}

RowChange == [{"key"} -> Keys] \cup [{"active"} -> BOOLEAN] \cup [{} -> Keys]

AmendOk(c) == c.op = "amend" =>
  /\ WriterOk(c) /\ c.args.e \in Entries /\ c.args.change \in RowChange
  /\ c.args.kind # "holiday" => c.args.e \in In(c.args.kind)
  /\ c.args.version \in Nat
  /\ c.args.kind = "supplier" /\ Untouched(c, {"create", "amend"}) => MayRename(c.args.e, c.args.change)

RemoveOk(c) == c.op = "remove" =>
  /\ WriterOk(c) /\ c.args.e \in Entries
  /\ c.args.kind # "holiday" => c.args.e \in In(c.args.kind)
  /\ c.args.change = [active |-> FALSE]

CallShape(c) ==
  /\ c = [op |-> c.op, at |-> c.at, since |-> c.since, args |-> c.args]
  /\ c.op \in Operations \cup {"none"} /\ c.since \subseteq Operations
  /\ c.op = "none" => c = AtRest

CallOk(c) ==
  /\ CallShape(c)
  /\ HireOk(c) /\ EditOk(c) /\ DeactivateOk(c) /\ DepartmentOk(c)
  /\ AssetOk(c) /\ RetireOk(c) /\ AssignOk(c) /\ ActivateOk(c)
  /\ ConfirmOk(c) /\ AnswerOk(c) /\ CreateOk(c) /\ AmendOk(c) /\ RemoveOk(c)

UnderWay == calls = [s \in Sessions |-> calls[s]] /\ \A s \in Sessions : CallOk(calls[s])

\* No two appointments hold one row.
HeldApart ==
  \A s, t \in Sessions :
    s # t /\ At(s, "assign", "promote") /\ At(t, "assign", "promote") =>
      Args(s).held \cap Args(t).held = {}

OrgInv == /\ People /\ Kept /\ VersionsBounded /\ UnderWay /\ HeldApart
          /\ ImportIsAllOrNothing /\ ProcessingIsHeld

-----------------------------------------------------------------------------
(* What a commit leaves to the calls that have read before it.             *)

StaffFrame(o) ==
  /\ Present \subseteq Present'
  /\ o # "edit" => \A e \in Present : /\ staff'[e].dept = staff[e].dept
                                      /\ staff'[e].manager = staff[e].manager
  /\ o \notin {"assign", "confirm"} =>
       \A e \in Present : staff'[e].role = "department_manager" => staff[e].role = "department_manager"
  /\ o # "assign" =>
       \A e \in Present : staff[e].role = "department_manager" => staff'[e].role = "department_manager"
  /\ o # "deactivate" =>
       \A e \in Present : /\ staff'[e].account = staff[e].account
                          /\ staff'[e].status = "terminated" => staff[e].status = "terminated"
  /\ o # "confirm" => \A e \in Present' \ Present : staff'[e].role # "department_manager"

AssetFrame(o) ==
  /\ \A x \in Assets : asset[x].version <= asset'[x].version
  /\ o # "asset" => \A x \in Assets : /\ asset'[x].holder = asset[x].holder
                                      /\ asset'[x].status = "assigned" => asset[x].status = "assigned"
  /\ o # "retire" => \A x \in Assets : asset'[x] = asset[x] \/ asset[x].version < asset'[x].version

RegisterFrame(o) ==
  /\ \A k \in Kinds \ {"holiday"} : In(k) \subseteq In(k)'
  /\ o \notin {"create", "amend"} =>
       /\ In("supplier")' = In("supplier")
       /\ \A i \in Entries : register'["supplier"][i].key = register["supplier"][i].key

Frame(o) ==
  /\ StaffFrame(o) /\ AssetFrame(o) /\ RegisterFrame(o)
  /\ o # "department" => enabled' = enabled

\* A call that was overtaken by a commit of kind o.
Overtaken(c, o) == [c EXCEPT !.since = @ \cup {o}]

LEMMA OvertakenShape ==
  ASSUME NEW c, CallShape(c), c # AtRest, NEW o \in Operations
  PROVE  /\ Overtaken(c, o) = [op |-> c.op, at |-> c.at, since |-> c.since \cup {o}, args |-> c.args]
         /\ CallShape(Overtaken(c, o)) /\ Overtaken(c, o) # AtRest /\ CallShape(Overtaken(c, o))'
<1>1. c = [op |-> c.op, at |-> c.at, since |-> c.since, args |-> c.args]
  BY DEF CallShape
<1>2. Overtaken(c, o) = [op |-> c.op, at |-> c.at, since |-> c.since \cup {o}, args |-> c.args]
  <2>1. PICK p, q, r, t : p = c.op /\ q = c.at /\ r = c.since /\ t = c.args
    OBVIOUS
  <2>2. PICK z : z = [op |-> p, at |-> q, since |-> r, args |-> t]
    OBVIOUS
  <2>3. c = z
    BY <1>1, <2>1, <2>2
  <2>4. [z EXCEPT !.since = r \cup {o}] = [op |-> p, at |-> q, since |-> r \cup {o}, args |-> t]
    BY <2>2
  <2>. QED  BY <2>1, <2>3, <2>4 DEF Overtaken
<1>3. PICK d : d = Overtaken(c, o)
  OBVIOUS
<1>4. d.op = c.op /\ d.at = c.at /\ d.since = c.since \cup {o} /\ d.args = c.args
  BY <1>2, <1>3
<1>5. d # AtRest /\ c.op # "none"
  BY <1>4 DEF CallShape, AtRest
<1>6. CallShape(d)
  BY <1>2, <1>3, <1>4, <1>5 DEF CallShape
<1>7. CallShape(d)'
  BY <1>6 DEF CallShape, AtRest
<1>. QED  BY <1>2, <1>3, <1>5, <1>6, <1>7

\* The managers of a department change with appointments, imports and edits.
LEMMA SameManagers ==
  ASSUME NEW o \in Operations, StaffFrame(o), o \notin {"assign", "confirm", "edit"}
  PROVE  \A d : Managers(d)' = Managers(d)
<1>1. /\ Present \subseteq Present'
      /\ \A e \in Present : staff'[e].dept = staff[e].dept
      /\ \A e \in Present : staff'[e].role = "department_manager" <=> staff[e].role = "department_manager"
      /\ \A e \in Present' \ Present : staff'[e].role # "department_manager"
  BY DEF StaffFrame
<1>2. \A d : \A e : e \in Managers(d)' <=> e \in Managers(d)
  BY <1>1 DEF Managers
<1>. QED  BY <1>2

LEMMA PeopleCallsKept ==
  ASSUME People, NEW o \in Operations, Frame(o), NEW c, CallOk(c), c # AtRest,
         c.op = "assign" /\ c.at = "promote" =>
           \A x \in c.args.held : staff'[x].role = "department_manager",
         NEW d, d.op = c.op, d.at = c.at, d.since = c.since \cup {o}, d.args = c.args
  PROVE  HireOk(d)' /\ EditOk(d)' /\ AssignOk(d)' /\ ActivateOk(d)' /\ ConfirmOk(d)'
<1>1. Present \subseteq Present' /\ StaffFrame(o)
  BY DEF Frame, StaffFrame
<1>2. HireOk(d)'
  BY <1>1 DEF CallOk, HireOk
<1>3. EditOk(d)'
  <2>1. SUFFICES ASSUME d.op = "edit" PROVE EditOk(d)'
    BY DEF EditOk
  <2>2. /\ c.at = "write" /\ c.args.e \in Present /\ c.args.change \in Changes
        /\ "manager" \in DOMAIN c.args.change /\ Untouched(c, {"edit"}) =>
             \E U \in SUBSET Employees : Line(U, c.args.e, c.args.change.manager)
    BY <2>1 DEF CallOk, EditOk
  <2>3. c.args.change \in Changes'
    <3>1. [{"manager"} -> Present] \subseteq [{"manager"} -> Present']
      BY <1>1
    <3>. QED  BY <2>2, <3>1 DEF Changes
  <2>4. ASSUME "manager" \in DOMAIN c.args.change, Untouched(d, {"edit"})
        PROVE  \E U \in SUBSET Employees : Line(U, c.args.e, c.args.change.manager)'
    <3>1. Untouched(c, {"edit"}) /\ o # "edit"
      BY <2>4 DEF Untouched
    <3>2. PICK U \in SUBSET Employees : Line(U, c.args.e, c.args.change.manager)
      BY <2>2, <2>4, <3>1
    <3>3. \A x \in U : staff'[x].manager = staff[x].manager
      BY <1>1, <3>1, <3>2 DEF Line, StaffFrame
    <3>4. Line(U, c.args.e, c.args.change.manager)'
      BY <1>1, <3>2, <3>3 DEF Line
    <3>. QED  BY <3>4
  <2>5. Untouched(d, {"edit"})' <=> Untouched(d, {"edit"})
    BY DEF Untouched
  <2>. QED  BY <1>1, <2>2, <2>3, <2>4, <2>5 DEF EditOk
<1>4. AssignOk(d)'
  <2>1. SUFFICES ASSUME d.op = "assign" PROVE AssignOk(d)'
    BY DEF AssignOk
  <2>2. /\ c.at \in {"demote", "lock", "promote"} /\ c.args.e \in Present
        /\ c.args = [e |-> c.args.e, dept |-> c.args.dept, held |-> c.args.held]
        /\ c.args.dept \in Departments /\ c.args.held \subseteq Present
        /\ Untouched(c, {"edit"}) => \A x \in {c.args.e} \cup c.args.held : staff[x].dept = c.args.dept
        /\ c.at # "demote" /\ Untouched(c, {"assign", "confirm", "edit"}) =>
             c.args.held = Managers(c.args.dept)
    BY <2>1 DEF CallOk, AssignOk
  <2>3. Untouched(d, {"edit"}) => \A x \in {c.args.e} \cup c.args.held : staff'[x].dept = c.args.dept
    BY <1>1, <2>2 DEF Untouched, StaffFrame
  <2>4. c.at # "demote" /\ Untouched(d, {"assign", "confirm", "edit"}) =>
          c.args.held = Managers(c.args.dept)'
    <3>1. Untouched(d, {"assign", "confirm", "edit"}) =>
            Untouched(c, {"assign", "confirm", "edit"}) /\ o \notin {"assign", "confirm", "edit"}
      BY DEF Untouched
    <3>. QED  BY <1>1, <2>2, <3>1, SameManagers
  <2>5. c.at = "promote" => \A x \in c.args.held : staff'[x].role = "department_manager"
    BY <2>1
  <2>6. \A K : Untouched(d, K)' <=> Untouched(d, K)
    BY DEF Untouched
  <2>. QED  BY <1>1, <2>2, <2>3, <2>4, <2>5, <2>6 DEF AssignOk
<1>5. ActivateOk(d)'
  <2>5. d.op = "activate" => d.at = "write"
    BY DEF CallOk, ActivateOk
  <2>6. \A K : Untouched(d, K)' <=> Untouched(d, K)
    BY DEF Untouched
  <2>1. SUFFICES ASSUME d.op = "activate", Untouched(d, {"edit", "deactivate", "department", "assign"})
                 PROVE  Ready'
    BY <2>5, <2>6 DEF ActivateOk
  <2>2. Ready /\ o \notin {"edit", "deactivate", "department", "assign"}
    BY <2>1 DEF CallOk, ActivateOk, Untouched
  <2>3. enabled' = enabled
    BY <2>2 DEF Frame
  <2>4. \A p : ActiveManagers(p) \subseteq ActiveManagers(p)'
    BY <1>1, <2>2 DEF ActiveManagers, Managers, StaffFrame
  <2>. QED  BY <1>1, <2>2, <2>3, <2>4 DEF Ready
<1>6. ConfirmOk(d)'
  BY <1>1 DEF CallOk, ConfirmOk, ManagersKnown
<1>. QED  BY <1>2, <1>3, <1>4, <1>5, <1>6

LEMMA AssetCallsKept ==
  ASSUME People, Kept, NEW o \in Operations, Frame(o), NEW c, CallOk(c), c # AtRest,
         asset' \in [Assets -> AssetRow],
         NEW d, d.op = c.op, d.at = c.at, d.since = c.since \cup {o}, d.args = c.args
  PROVE  DeactivateOk(d)' /\ DepartmentOk(d)' /\ AssetOk(d)' /\ RetireOk(d)' /\ AnswerOk(d)'
<1>1. Present \subseteq Present' /\ StaffFrame(o) /\ AssetFrame(o)
  BY DEF Frame, StaffFrame
<1>2. \A K : Untouched(d, K)' <=> Untouched(d, K)
  BY DEF Untouched
<1>3. DeactivateOk(d)'
  <2>1. SUFFICES ASSUME d.op = "deactivate" PROVE DeactivateOk(d)'
    BY DEF DeactivateOk
  <2>2. /\ c.at = "write" /\ c.args.e \in Present
        /\ Untouched(c, {"assign", "confirm"}) => staff[c.args.e].role # "department_manager"
        /\ Untouched(c, {"asset"}) => AssignedTo(c.args.e) = {}
    BY <2>1 DEF CallOk, DeactivateOk
  <2>3. Untouched(d, {"assign", "confirm"}) => staff'[c.args.e].role # "department_manager"
    BY <1>1, <2>2 DEF Untouched, StaffFrame
  <2>4. Untouched(d, {"asset"}) => AssignedTo(c.args.e)' = {}
    <3>1. SUFFICES ASSUME Untouched(d, {"asset"}) PROVE AssignedTo(c.args.e)' = {}
      OBVIOUS
    <3>2. o # "asset" /\ AssignedTo(c.args.e) = {}
      BY <2>2, <3>1 DEF Untouched
    <3>3. \A x \in Assets : asset'[x].holder = asset[x].holder
                            /\ (asset'[x].status = "assigned" => asset[x].status = "assigned")
      BY <1>1, <3>2 DEF AssetFrame
    <3>. QED  BY <3>2, <3>3 DEF AssignedTo
  <2>. QED  BY <1>1, <1>2, <2>2, <2>3, <2>4 DEF DeactivateOk
<1>4. DepartmentOk(d)' /\ RetireOk(d)' /\ AnswerOk(d)'
  BY DEF CallOk, DepartmentOk, RetireOk, AnswerOk
<1>5. AssetOk(d)'
  <2>1. SUFFICES ASSUME d.op = "asset" PROVE AssetOk(d)'
    BY DEF AssetOk
  <2>2. /\ c.at = "write" /\ c.args.e \in Assets /\ c.args.change \in ValidChange
        /\ c.args.version \in 1..asset[c.args.e].version
        /\ c.args.change.status = "assigned" => c.args.change.holder \in Present
        /\ c.args.change.status = "assigned" /\ Untouched(c, {"deactivate"}) =>
             staff[c.args.change.holder].status # "terminated"
        /\ c.args.version = asset[c.args.e].version /\ Untouched(c, {"retire"}) =>
             asset[c.args.e].status # "retired"
    BY <2>1 DEF CallOk, AssetOk
  <2>3. PICK x \in Assets : x = c.args.e
    BY <2>2
  <2>4. asset[x].version \in Nat /\ asset'[x].version \in Nat /\ asset[x].version <= asset'[x].version
    BY <1>1 DEF Kept, AssetRow, AssetFrame
  <2>5. c.args.version \in 1..asset'[x].version
    BY <2>2, <2>3, <2>4
  <2>6. c.args.change.status = "assigned" /\ Untouched(d, {"deactivate"}) =>
             staff'[c.args.change.holder].status # "terminated"
    <3>1. SUFFICES ASSUME c.args.change.status = "assigned", Untouched(d, {"deactivate"})
                   PROVE  staff'[c.args.change.holder].status # "terminated"
      OBVIOUS
    <3>2. o # "deactivate" /\ staff[c.args.change.holder].status # "terminated"
      BY <2>2, <3>1 DEF Untouched
    <3>3. PICK h \in Present : h = c.args.change.holder
      BY <2>2, <3>1
    <3>. QED  BY <1>1, <3>2, <3>3 DEF StaffFrame
  <2>7. c.args.version = asset'[x].version /\ Untouched(d, {"retire"}) => asset'[x].status # "retired"
    <3>1. SUFFICES ASSUME c.args.version = asset'[x].version, Untouched(d, {"retire"})
                   PROVE  asset'[x].status # "retired"
      OBVIOUS
    <3>2. o # "retire" /\ Untouched(c, {"retire"})
      BY <3>1 DEF Untouched
    <3>3. c.args.version = asset[x].version
      BY <2>2, <2>3, <2>4, <3>1
    <3>4. asset'[x].version = asset[x].version /\ ~(asset[x].version < asset'[x].version)
      BY <2>4, <3>1, <3>3
    <3>5. asset'[x] = asset[x]
      BY <1>1, <3>2, <3>4 DEF AssetFrame
    <3>. QED  BY <2>2, <2>3, <3>2, <3>3, <3>5
  <2>. QED  BY <1>1, <1>2, <2>2, <2>3, <2>5, <2>6, <2>7 DEF AssetOk
<1>. QED  BY <1>3, <1>4, <1>5

LEMMA RegisterCallsKept ==
  ASSUME People, Kept, NEW o \in Operations, Frame(o), NEW c, CallOk(c), c # AtRest,
         NEW d, d.op = c.op, d.at = c.at, d.since = c.since \cup {o}, d.args = c.args
  PROVE  CreateOk(d)' /\ AmendOk(d)' /\ RemoveOk(d)'
<1>1. Present \subseteq Present' /\ StaffFrame(o) /\ RegisterFrame(o)
  BY DEF Frame, StaffFrame
<1>2. \A K : Untouched(d, K)' <=> Untouched(d, K)
  BY DEF Untouched
<1>3. WriterOk(c) => WriterOk(d)'
  <2>1. SUFFICES ASSUME WriterOk(c), c.args.by # Company,
                        Untouched(d, {"edit", "assign", "deactivate", "confirm"})
                 PROVE  c.args.by \in Writers(c.args.kind)'
    BY <1>2 DEF WriterOk
  <2>2. /\ o \notin {"edit", "assign", "deactivate", "confirm"}
        /\ c.args.by \in Writers(c.args.kind)
    BY <2>1 DEF WriterOk, Untouched
  <2>3. PICK p \in Present : /\ p = c.args.by /\ staff[p].account
                             /\ staff[p].role = "department_manager"
                             /\ staff[p].dept # Nil /\ c.args.kind \in Holds[staff[p].dept]
    BY <2>1, <2>2 DEF Writers
  <2>4. /\ p \in Present' /\ staff'[p].account /\ staff'[p].role = "department_manager"
        /\ staff'[p].dept = staff[p].dept
    BY <1>1, <2>2, <2>3 DEF StaffFrame
  <2>. QED  BY <2>3, <2>4 DEF Writers
<1>4. o \notin {"create", "amend"} => \A key : SupplierMatches(key)' = SupplierMatches(key)
  <2>1. SUFFICES ASSUME o \notin {"create", "amend"}, NEW key
                 PROVE  SupplierMatches(key)' = SupplierMatches(key)
    OBVIOUS
  <2>2. /\ In("supplier")' = In("supplier") /\ In("supplier") \subseteq Entries
        /\ \A i \in Entries : register'["supplier"][i].key = register["supplier"][i].key
    BY <1>1, <2>1 DEF RegisterFrame, In
  <2>. QED  BY <2>2 DEF SupplierMatches
<1>5. \A k \in Kinds \ {"holiday"} : In(k) \subseteq In(k)'
  BY <1>1 DEF RegisterFrame
<1>6. Untouched(d, {"create", "amend"}) => Untouched(c, {"create", "amend"}) /\ o \notin {"create", "amend"}
  BY DEF Untouched
<1>7. CreateOk(d)'
  <2>1. SUFFICES ASSUME d.op = "create" PROVE CreateOk(d)'
    BY DEF CreateOk
  <2>2. /\ WriterOk(c) /\ c.args.e = Nil /\ c.args.change \in [{"key"} -> Keys]
        /\ c.args.kind = "supplier" /\ Untouched(c, {"create", "amend"}) =>
             SupplierMatches(c.args.change.key) = {}
    BY <2>1 DEF CallOk, CreateOk
  <2>3. d.args.kind = "supplier" /\ Untouched(d, {"create", "amend"}) =>
             SupplierMatches(d.args.change.key)' = {}
    BY <1>4, <1>6, <2>2
  <2>. QED  BY <1>2, <1>3, <2>2, <2>3 DEF CreateOk
<1>8. AmendOk(d)'
  <2>1. SUFFICES ASSUME d.op = "amend" PROVE AmendOk(d)'
    BY DEF AmendOk
  <2>2. /\ WriterOk(c) /\ c.args.e \in Entries /\ c.args.change \in RowChange
        /\ c.args.kind # "holiday" => c.args.e \in In(c.args.kind)
        /\ c.args.version \in Nat
        /\ c.args.kind = "supplier" /\ Untouched(c, {"create", "amend"}) => MayRename(c.args.e, c.args.change)
    BY <2>1 DEF CallOk, AmendOk
  <2>3. d.args.kind = "supplier" /\ Untouched(d, {"create", "amend"}) => MayRename(d.args.e, d.args.change)'
    BY <1>4, <1>6, <2>2 DEF MayRename
  <2>4. d.args.kind # "holiday" => d.args.e \in In(d.args.kind)'
    BY <1>5, <2>2 DEF WriterOk
  <2>. QED  BY <1>2, <1>3, <2>2, <2>3, <2>4 DEF AmendOk, RowChange
<1>9. RemoveOk(d)'
  BY <1>3, <1>5 DEF CallOk, RemoveOk, WriterOk
<1>. QED  BY <1>7, <1>8, <1>9

\* Every call that was overtaken is still one that holds what it has read, save
\* what that commit may change.
LEMMA CallKept ==
  ASSUME People, Kept, NEW o \in Operations, Frame(o), NEW c, CallOk(c), c # AtRest,
         asset' \in [Assets -> AssetRow],
         c.op = "assign" /\ c.at = "promote" =>
           \A x \in c.args.held : staff'[x].role = "department_manager"
  PROVE  CallOk(Overtaken(c, o))' /\ Overtaken(c, o) # AtRest
<1>1. PICK d : d = Overtaken(c, o)
  OBVIOUS
<1>2. CallShape(c)
  BY DEF CallOk
<1>3. d = [op |-> c.op, at |-> c.at, since |-> c.since \cup {o}, args |-> c.args]
  BY <1>1, <1>2, OvertakenShape
<1>4. d.op = c.op /\ d.at = c.at /\ d.since = c.since \cup {o} /\ d.args = c.args
  BY <1>3
<1>5. CallShape(d)' /\ d # AtRest
  BY <1>1, <1>2, OvertakenShape
<1>6. HireOk(d)' /\ EditOk(d)' /\ AssignOk(d)' /\ ActivateOk(d)' /\ ConfirmOk(d)'
  BY <1>4, PeopleCallsKept
<1>7. DeactivateOk(d)' /\ DepartmentOk(d)' /\ AssetOk(d)' /\ RetireOk(d)' /\ AnswerOk(d)'
  BY <1>4, AssetCallsKept
<1>8. CreateOk(d)' /\ AmendOk(d)' /\ RemoveOk(d)'
  BY <1>4, RegisterCallsKept
<1>9. CallOk(d)'
  BY <1>5, <1>6, <1>7, <1>8 DEF CallOk
<1>. QED  BY <1>1, <1>5, <1>9


-----------------------------------------------------------------------------
(* How a call begins and ends, whatever it does.                           *)

\* What calls have read is a matter of four variables.
LEMMA SameReads ==
  ASSUME UNCHANGED <<staff, enabled, asset, register>>, NEW c, CallOk(c)
  PROVE  CallOk(c)'
<1>1. CallShape(c)' /\ \A K : Untouched(c, K)' <=> Untouched(c, K)
  BY DEF CallOk, CallShape, Untouched, AtRest
<1>2. Present' = Present
  BY DEF Present
<1>3. HireOk(c)' /\ DepartmentOk(c)' /\ RetireOk(c)' /\ AnswerOk(c)'
  BY <1>2 DEF CallOk, HireOk, DepartmentOk, RetireOk, AnswerOk
<1>4. EditOk(c)'
  <2>1. Changes' = Changes /\ \A U, e, m : Line(U, e, m)' <=> Line(U, e, m)
    BY <1>2 DEF Changes, Line
  <2>. QED  BY <1>1, <1>2, <2>1 DEF CallOk, EditOk
<1>5. DeactivateOk(c)'
  BY <1>1, <1>2 DEF CallOk, DeactivateOk, AssignedTo
<1>6. AssetOk(c)'
  BY <1>1, <1>2 DEF CallOk, AssetOk
<1>7. \A d : Managers(d)' = Managers(d) /\ ActiveManagers(d)' = ActiveManagers(d)
  BY <1>2 DEF Managers, ActiveManagers
<1>8. AssignOk(c)'
  BY <1>1, <1>2, <1>7 DEF CallOk, AssignOk
<1>9. ActivateOk(c)' /\ ConfirmOk(c)'
  <2>1. (Ready' <=> Ready) /\ (ManagersKnown' <=> ManagersKnown)
    BY <1>2, <1>7 DEF Ready, ManagersKnown
  <2>. QED  BY <1>1, <2>1 DEF CallOk, ActivateOk, ConfirmOk
<1>10. (\A k : In(k)' = In(k) /\ Writers(k)' = Writers(k)) /\ (\A key : SupplierMatches(key)' = SupplierMatches(key))
  BY <1>2 DEF In, Writers, SupplierMatches
<1>11. WriterOk(c)' <=> WriterOk(c)
  BY <1>1, <1>10 DEF WriterOk
<1>12. CreateOk(c)' /\ RemoveOk(c)'
  BY <1>1, <1>10, <1>11 DEF CallOk, CreateOk, RemoveOk
<1>13. AmendOk(c)'
  BY <1>1, <1>10, <1>11 DEF CallOk, AmendOk, MayRename, RowChange
<1>. QED  BY <1>1, <1>3, <1>4, <1>5, <1>6, <1>8, <1>9, <1>12, <1>13 DEF CallOk

LEMMA RestIsOk == CallOk(AtRest) /\ CallOk(AtRest)'
BY DEF CallOk, CallShape, AtRest, HireOk, EditOk, DeactivateOk, DepartmentOk, AssetOk, RetireOk,
       AssignOk, ActivateOk, ConfirmOk, AnswerOk, CreateOk, AmendOk, RemoveOk

LEMMA OneLess ==
  ASSUME NEW B, IsFiniteSet(B), NEW s \in B
  PROVE  Cardinality(B \ {s}) \in Nat /\ Cardinality(B) = Cardinality(B \ {s}) + 1
<1>1. IsFiniteSet(B \ {s}) /\ s \notin B \ {s} /\ (B \ {s}) \cup {s} = B
  BY FS_RemoveElement
<1>2. Cardinality(B) = Cardinality(B \ {s}) + 1
  BY <1>1, FS_AddElement
<1>. QED  BY <1>1, <1>2, FS_CardinalityType

LEMMA BusyFinite ==
  IsFiniteSet(Busy) /\ Cardinality(Busy) \in Nat /\ IsFiniteSet(Busy') /\ Cardinality(Busy') \in Nat
<1>1. IsFiniteSet(Sessions)
  BY OrganizationAssumption
<1>2. Busy \subseteq Sessions /\ Busy' \subseteq Sessions
  BY DEF Busy
<1>. QED  BY <1>1, <1>2, FS_Subset, FS_CardinalityType

\* A version that may be counted once for the call that ends.
LEMMA VersionsAfterEnd ==
  ASSUME Kept, Kept', VersionsBounded, NEW s \in Busy, Busy' = Busy \ {s}, made' = made,
         \A x \in Assets : asset'[x].version <= asset[x].version + 1,
         \A k \in Kinds, i \in Entries : register'[k][i].version <= register[k][i].version + 1
  PROVE  VersionsBounded'
<1>1. PICK n : n = Cardinality(Busy)
  OBVIOUS
<1>2. PICK b : b = Cardinality(Busy')
  OBVIOUS
<1>3. b \in Nat /\ n = b + 1
  BY <1>1, <1>2, BusyFinite, OneLess
<1>4. \A x \in Assets : asset[x].version \in Nat /\ asset'[x].version \in Nat
  BY DEF Kept, AssetRow
<1>5. \A k \in Kinds, i \in Entries : register[k][i].version \in Nat /\ register'[k][i].version \in Nat
  BY DEF Kept, KeptRow, Missing
<1>6. made \in 0..MaxCalls /\ n <= made
  BY <1>1 DEF VersionsBounded
<1>7. \A x \in Assets : asset'[x].version + b <= made + 1
  BY <1>1, <1>3, <1>4, <1>6 DEF VersionsBounded
<1>8. \A k \in Kinds, i \in Entries : register'[k][i].version + b <= made + 1
  BY <1>1, <1>3, <1>5, <1>6 DEF VersionsBounded
<1>9. MaxCalls \in Nat
  BY OrganizationAssumption
<1>10. b <= made
  BY <1>3, <1>6, <1>9
<1>. QED  BY <1>2, <1>6, <1>7, <1>8, <1>10 DEF VersionsBounded

LEMMA VersionsAfterBegin ==
  ASSUME Kept, VersionsBounded, NEW s \in Busy', Busy = Busy' \ {s}, made' = made + 1, made < MaxCalls,
         UNCHANGED <<asset, register>>
  PROVE  VersionsBounded'
<1>1. PICK n : n = Cardinality(Busy)
  OBVIOUS
<1>2. PICK b : b = Cardinality(Busy')
  OBVIOUS
<1>3. n \in Nat /\ b = n + 1
  BY <1>1, <1>2, BusyFinite, OneLess
<1>4. \A x \in Assets : asset[x].version \in Nat
  BY DEF Kept, AssetRow
<1>5. \A k \in Kinds, i \in Entries : register[k][i].version \in Nat
  BY DEF Kept, KeptRow, Missing
<1>6. made \in 0..MaxCalls /\ n <= made /\ MaxCalls \in Nat
  BY <1>1, OrganizationAssumption DEF VersionsBounded
<1>7. \A x \in Assets : asset'[x].version + b <= made' + 1
  BY <1>1, <1>3, <1>4, <1>6 DEF VersionsBounded
<1>8. ASSUME NEW k \in Kinds, NEW i \in Entries PROVE register'[k][i].version + b <= made' + 1
  <2>1. PICK v : v = register[k][i].version
    OBVIOUS
  <2>2. v \in Nat /\ v + n <= made + 1
    BY <1>1, <1>5, <2>1 DEF VersionsBounded
  <2>3. register' = register /\ made' = made + 1
    OBVIOUS
  <2>. QED  BY <1>3, <1>6, <2>1, <2>2, <2>3
<1>9. b <= made' /\ made' \in 0..MaxCalls
  BY <1>3, <1>6
<1>. QED  BY <1>2, <1>7, <1>8, <1>9 DEF VersionsBounded

\* The records are what they were.
LEMMA SameRecords ==
  ASSUME People, Kept, ImportIsAllOrNothing, stops' \in 0..MaxStops,
         UNCHANGED <<staff, asset, register, enabled, active, action, job>>
  PROVE  People' /\ Kept' /\ ImportIsAllOrNothing'
<1>1. Present' = Present
  BY DEF Present
<1>2. People'
  BY <1>1 DEF People
<1>3. ImportIsAllOrNothing'
  BY DEF ImportIsAllOrNothing
<1>4. AssignedHasHolder' /\ (ManagersKnown' <=> ManagersKnown)
  BY <1>1 DEF Kept, AssignedHasHolder, ManagersKnown
<1>5. \A j \in Jobs : job'[j] \in {"ready", "processing"} => ManagersKnown'
  BY <1>4 DEF Kept
<1>6. Kept'
  BY <1>4, <1>5 DEF Kept
<1>. QED  BY <1>2, <1>3, <1>6

\* One call is replaced by another that is in order.
LEMMA OneCallKept ==
  ASSUME UnderWay, UNCHANGED <<staff, enabled, asset, register>>, NEW s \in Sessions,
         NEW n, CallOk(n)', calls' = [calls EXCEPT ![s] = n]
  PROVE  UnderWay' /\ \A t \in Sessions : calls'[t] = IF t = s THEN n ELSE calls[t]
<1>1. calls' = [t \in Sessions |-> IF t = s THEN n ELSE calls[t]]
  BY DEF UnderWay
<1>2. \A t \in Sessions : calls'[t] = IF t = s THEN n ELSE calls[t]
  BY <1>1
<1>3. ASSUME NEW t \in Sessions PROVE CallOk(calls[t])'
  <2>1. PICK c : c = calls[t]
    OBVIOUS
  <2>2. CallOk(c)
    BY <2>1 DEF UnderWay
  <2>3. CallOk(c)'
    BY <2>2, SameReads
  <2>4. calls'[t] = n \/ calls'[t] = c
    BY <1>2, <2>1
  <2>. QED  BY <2>3, <2>4
<1>. QED  BY <1>1, <1>2, <1>3 DEF UnderWay

LEMMA CallBegan ==
  ASSUME OrgInv, NEW s \in Sessions, Free(s), NEW op \in Operations, NEW step,
         UNCHANGED <<staff, enabled, asset, action, job, active, stops, register>>,
         op # "assign" \/ step # "promote", made' = made + 1,
         NEW n, CallOk(n), n.op = op, n.at = step, calls' = [calls EXCEPT ![s] = n]
  PROVE  OrgInv'
<1>2. n.op = op /\ n.at = step /\ n # AtRest
  BY DEF Operations, AtRest
<1>3. /\ UNCHANGED <<staff, enabled, asset, action, job, active, stops, register>>
      /\ calls' = [calls EXCEPT ![s] = n] /\ made' = made + 1
  OBVIOUS
<1>4. CallOk(n)'
  BY <1>3, SameReads
<1>5. UnderWay' /\ \A t \in Sessions : calls'[t] = IF t = s THEN n ELSE calls[t]
  <2>1. UnderWay /\ UNCHANGED <<staff, enabled, asset, register>> /\ calls' = [calls EXCEPT ![s] = n]
    BY <1>3 DEF OrgInv
  <2>. QED  BY <1>4, <2>1, OneCallKept
<1>6. People' /\ Kept' /\ ImportIsAllOrNothing'
  BY <1>3, SameRecords DEF OrgInv, Kept
<1>7. VersionsBounded'
  <2>1. calls[s] = AtRest /\ made < MaxCalls
    BY DEF Free
  <2>2. s \in Busy' /\ Busy = Busy' \ {s}
    BY <1>2, <1>5, <2>1 DEF Busy
  <2>. QED  BY <1>3, <2>1, <2>2, VersionsAfterBegin DEF OrgInv
<1>8. HeldApart'
  <2>1. ~At(s, "assign", "promote")'
    BY <1>2, <1>5 DEF At
  <2>. QED  BY <1>5, <2>1 DEF OrgInv, HeldApart, At, Args
<1>9. ProcessingIsHeld'
  <2>1. ~At(s, "confirm", "rows")
    BY DEF Free, At, AtRest
  <2>. QED  BY <1>3, <1>5, <2>1 DEF OrgInv, ProcessingIsHeld, At, Args
<1>. QED  BY <1>5, <1>6, <1>7, <1>8, <1>9 DEF OrgInv

LEMMA Began ==
  ASSUME OrgInv, NEW s \in Sessions, Free(s), NEW op \in Operations, NEW step, NEW args,
         Begin(s, op, step, args), UNCHANGED register, op # "assign" \/ step # "promote",
         NEW n, n = [op |-> op, at |-> step, since |-> {}, args |-> args], CallOk(n)
  PROVE  OrgInv'
<1>1. n.op = op /\ n.at = step
  OBVIOUS
<1>2. /\ UNCHANGED <<staff, enabled, asset, action, job, active, stops, register>>
      /\ calls' = [calls EXCEPT ![s] = n] /\ made' = made + 1
  BY DEF Begin
<1>. QED  BY <1>1, <1>2, CallBegan

LEMMA Refused ==
  ASSUME OrgInv, NEW s \in Sessions, calls[s] # AtRest, ~At(s, "confirm", "rows"),
         Refuse(s), UNCHANGED register
  PROVE  OrgInv'
<1>1. /\ UNCHANGED <<staff, enabled, asset, action, job, active, made, stops, register>>
      /\ calls' = [calls EXCEPT ![s] = AtRest]
  BY DEF Refuse
<1>2. UnderWay' /\ \A t \in Sessions : calls'[t] = IF t = s THEN AtRest ELSE calls[t]
  BY <1>1, RestIsOk, OneCallKept DEF OrgInv
<1>3. People' /\ Kept' /\ ImportIsAllOrNothing'
  BY <1>1, SameRecords DEF OrgInv, Kept
<1>4. VersionsBounded'
  <2>1. s \in Busy /\ Busy' = Busy \ {s}
    BY <1>2 DEF Busy
  <2>2. /\ \A x \in Assets : asset[x].version \in Nat
        /\ \A k \in Kinds, i \in Entries : register[k][i].version \in Nat
    BY DEF OrgInv, Kept, AssetRow, KeptRow, Missing
  <2>3. /\ \A x \in Assets : asset'[x].version <= asset[x].version + 1
        /\ \A k \in Kinds, i \in Entries : register'[k][i].version <= register[k][i].version + 1
    BY <1>1, <2>2
  <2>. QED  BY <1>1, <1>3, <2>1, <2>3, VersionsAfterEnd DEF OrgInv
<1>5. HeldApart'
  BY <1>2 DEF OrgInv, HeldApart, At, Args, AtRest
<1>6. ProcessingIsHeld'
  BY <1>1, <1>2 DEF OrgInv, ProcessingIsHeld, At, Args
<1>. QED  BY <1>2, <1>3, <1>4, <1>5, <1>6 DEF OrgInv

\* What a commit leaves: the call is over and the others have been overtaken.
LEMMA Overtook ==
  ASSUME UnderWay, People, Kept, asset' \in [Assets -> AssetRow],
         NEW s \in Sessions, calls[s] # AtRest, NEW o \in Operations, calls[s].op = o, Frame(o),
         \A t \in Sessions \ {s} : At(t, "assign", "promote") =>
           \A x \in Args(t).held : staff'[x].role = "department_manager",
         NEW n, CallOk(n)', Overtake(s, n)
  PROVE  /\ UnderWay' /\ calls'[s] = n
         /\ \A t \in Sessions \ {s} : /\ calls[t] = AtRest <=> calls'[t] = AtRest
                                      /\ \A op, step : At(t, op, step)' <=> At(t, op, step)
                                      /\ Args(t)' = Args(t)
<1>1. calls' = [t \in Sessions |-> IF t = s THEN n ELSE IF calls[t] = AtRest THEN AtRest
                                   ELSE Overtaken(calls[t], o)]
  BY DEF Overtake, Overtaken
<1>2. ASSUME NEW t \in Sessions, t # s
      PROVE  /\ CallOk(calls[t])' /\ (calls[t] = AtRest <=> calls'[t] = AtRest)
             /\ calls'[t].op = calls[t].op /\ calls'[t].at = calls[t].at /\ calls'[t].args = calls[t].args
  <2>1. PICK c : c = calls[t]
    OBVIOUS
  <2>2. CallOk(c) /\ CallShape(c)
    BY <2>1 DEF UnderWay, CallOk
  <2>3. CASE c = AtRest
    <3>1. calls'[t] = AtRest
      BY <1>1, <1>2, <2>1, <2>3
    <3>. QED  BY <2>1, <2>3, <3>1, RestIsOk
  <2>4. CASE c # AtRest
    <3>1. calls'[t] = Overtaken(c, o)
      BY <1>1, <1>2, <2>1, <2>4
    <3>2. c.op = "assign" /\ c.at = "promote" =>
            \A x \in c.args.held : staff'[x].role = "department_manager"
      BY <1>2, <2>1 DEF At, Args
    <3>3. PICK d : d = Overtaken(c, o)
      OBVIOUS
    <3>4. CallOk(d)' /\ d # AtRest
      BY <2>2, <2>4, <3>2, <3>3, CallKept
    <3>5. d.op = c.op /\ d.at = c.at /\ d.args = c.args
      BY <2>2, <2>4, <3>3, OvertakenShape
    <3>. QED  BY <2>1, <2>4, <3>1, <3>3, <3>4, <3>5
  <2>. QED  BY <2>3, <2>4
<1>3. calls'[s] = n /\ calls' = [t \in Sessions |-> calls'[t]]
  BY <1>1
<1>4. CallOk(calls[s])'
  BY <1>3
<1>5. \A t \in Sessions : CallOk(calls[t])'
  BY <1>2, <1>4
<1>6. UnderWay'
  BY <1>3, <1>5 DEF UnderWay
<1>7. \A t \in Sessions \ {s} : /\ calls[t] = AtRest <=> calls'[t] = AtRest
                                /\ \A op, step : At(t, op, step)' <=> At(t, op, step)
                                /\ Args(t)' = Args(t)
  BY <1>2 DEF At, Args
<1>. QED  BY <1>3, <1>6, <1>7

LEMMA Committed ==
  ASSUME OrgInv, NEW s \in Sessions, calls[s] # AtRest, NEW o \in Operations, calls[s].op = o,
         Commit(s), Frame(o), People', Kept', ImportIsAllOrNothing',
         \A t \in Sessions \ {s} : At(t, "assign", "promote") =>
           \A x \in Args(t).held : staff'[x].role = "department_manager",
         \A x \in Assets : asset'[x].version <= asset[x].version + 1,
         \A k \in Kinds, i \in Entries : register'[k][i].version <= register[k][i].version + 1,
         \A j \in Jobs : job'[j] = "processing" =>
           job[j] = "processing" /\ ~(At(s, "confirm", "rows") /\ Args(s).e = j)
  PROVE  OrgInv'
<1>1. Overtake(s, AtRest) /\ made' = made /\ stops' = stops
  BY DEF Commit
<1>2. /\ UnderWay' /\ calls'[s] = AtRest
      /\ \A t \in Sessions \ {s} : /\ calls[t] = AtRest <=> calls'[t] = AtRest
                                   /\ \A op, step : At(t, op, step)' <=> At(t, op, step)
                                   /\ Args(t)' = Args(t)
  <2>1. UnderWay /\ People /\ Kept /\ asset' \in [Assets -> AssetRow] /\ CallOk(AtRest)'
    BY RestIsOk DEF OrgInv, Kept
  <2>. QED  BY <1>1, <2>1, Overtook
<1>3. VersionsBounded'
  <2>1. s \in Busy /\ Busy' = Busy \ {s}
    BY <1>2 DEF Busy
  <2>. QED  BY <1>1, <2>1, VersionsAfterEnd DEF OrgInv
<1>4. ~At(s, "assign", "promote")'
  BY <1>2 DEF At, AtRest
<1>5. HeldApart'
  BY <1>2, <1>4 DEF OrgInv, HeldApart
<1>6. ProcessingIsHeld'
  BY <1>1, <1>2 DEF OrgInv, ProcessingIsHeld
<1>. QED  BY <1>2, <1>3, <1>5, <1>6 DEF OrgInv

-----------------------------------------------------------------------------
(* The walk up a reporting line.                                           *)

\* The first k people of the walk from m.
Walks(f, m, k) ==
  /\ f \in [0..k -> Employees \cup {Nil}] /\ f[0] = m
  /\ \A n \in 1..k : f[n] = IF f[n - 1] = Nil THEN Nil ELSE staff[f[n - 1]].manager

LEMMA WalksExist ==
  ASSUME People, NEW m \in Employees, NEW N \in Nat
  PROVE  \E f : Walks(f, m, N)
<1> DEFINE Bad == {k \in Nat : ~\E f : Walks(f, m, k)}
<1>1. SUFFICES ASSUME Bad # {} PROVE FALSE
  OBVIOUS
<1>2. PICK k \in Bad : \A j \in Bad : k <= j
  BY <1>1, LeastIsLeast
<1>3. k # 0
  <2>1. PICK f : f = [n \in 0..0 |-> m]
    OBVIOUS
  <2>2. Walks(f, m, 0)
    BY <2>1 DEF Walks
  <2>. QED  BY <1>2, <2>2
<1>4. k \in Nat /\ k - 1 \in Nat /\ k - 1 \notin Bad
  BY <1>2, <1>3
<1>5. PICK f : Walks(f, m, k - 1)
  BY <1>4
<1>6. PICK w : w = IF f[k - 1] = Nil THEN Nil ELSE staff[f[k - 1]].manager
  OBVIOUS
<1>7. w \in Employees \cup {Nil}
  <2>1. f[k - 1] \in Employees \cup {Nil}
    BY <1>4, <1>5 DEF Walks
  <2>2. \A e \in Employees : staff[e].manager \in Employees \cup {Nil}
    BY DEF People, StaffRow
  <2>. QED  BY <1>6, <2>1, <2>2
<1>8. PICK g : g = [n \in 0..k |-> IF n = k THEN w ELSE f[n]]
  OBVIOUS
<1>9. Walks(g, m, k)
  <2>1. \A n \in 0..(k - 1) : g[n] = f[n] /\ f[n] \in Employees \cup {Nil}
    BY <1>4, <1>5, <1>8 DEF Walks
  <2>2. g[k] = w
    BY <1>4, <1>8
  <2>3. g \in [0..k -> Employees \cup {Nil}]
    <3>1. \A n \in 0..k : n = k \/ n \in 0..(k - 1)
      BY <1>4
    <3>2. \A n \in 0..k : g[n] \in Employees \cup {Nil}
      BY <1>7, <2>1, <2>2, <3>1
    <3>. QED  BY <1>8, <3>2
  <2>4. g[0] = m
    BY <1>4, <1>5, <2>1 DEF Walks
  <2>5. ASSUME NEW n \in 1..k
        PROVE  g[n] = IF g[n - 1] = Nil THEN Nil ELSE staff[g[n - 1]].manager
    <3>1. n - 1 \in 0..(k - 1) /\ g[n - 1] = f[n - 1]
      BY <1>4, <2>1
    <3>2. CASE n = k
      BY <1>6, <2>2, <3>1, <3>2
    <3>3. CASE n # k
      <4>1. n \in 0..(k - 1) /\ n \in 1..(k - 1)
        BY <1>4, <3>3
      <4>2. f[n] = IF f[n - 1] = Nil THEN Nil ELSE staff[f[n - 1]].manager
        BY <1>5, <4>1 DEF Walks
      <4>. QED  BY <2>1, <3>1, <4>1, <4>2
    <3>. QED  BY <3>2, <3>3
  <2>. QED  BY <2>3, <2>4, <2>5 DEF Walks
<1>. QED  BY <1>2, <1>9

\* The walk that the code takes is one of those.
LEMMA AboveWalks ==
  ASSUME People, NEW m \in Employees, NEW N \in Nat, N = Cardinality(Employees)
  PROVE  Walks(Above(m), m, N)
<1> DEFINE Next1(u) == [n \in 0..Cardinality(Employees) |->
             IF n = 0 THEN m ELSE IF u[n - 1] = Nil THEN Nil ELSE staff[u[n - 1]].manager]
<1>1. PICK f : Walks(f, m, N)
  BY WalksExist
<1>2. f = Next1(f)
  <2>1. f \in [0..N -> Employees \cup {Nil}]
    BY <1>1 DEF Walks
  <2>2. \A n \in 0..N :
           f[n] = IF n = 0 THEN m ELSE IF f[n - 1] = Nil THEN Nil ELSE staff[f[n - 1]].manager
    <3>1. \A n \in 0..N : n = 0 \/ n \in 1..N
      OBVIOUS
    <3>. QED  BY <1>1, <3>1 DEF Walks
  <2>. QED  BY <2>1, <2>2
<1>3. Above(m) = CHOOSE u : u = Next1(u)
  BY DEF Above
<1>4. Above(m) = Next1(Above(m))
  <2> HIDE DEF Next1
  <2>. QED  BY <1>2, <1>3
<1>5. PICK u : u = Above(m)
  OBVIOUS
<1>6. u = [n \in 0..N |-> IF n = 0 THEN m ELSE IF u[n - 1] = Nil THEN Nil ELSE staff[u[n - 1]].manager]
  BY <1>4, <1>5
<1>7. u[0] = m
  BY <1>6
<1>8. \A n \in 1..N : n \in 0..N /\ n # 0
  OBVIOUS
<1>9. \A n \in 1..N : u[n] = IF u[n - 1] = Nil THEN Nil ELSE staff[u[n - 1]].manager
  BY <1>6, <1>8
<1>10. \A n \in 0..N : u[n] \in Employees \cup {Nil}
  <2> DEFINE Off == {n \in 0..N : u[n] \notin Employees \cup {Nil}}
  <2>1. SUFFICES ASSUME Off # {} PROVE FALSE
    OBVIOUS
  <2>0. Off \subseteq Nat
    OBVIOUS
  <2>2. PICK k \in Off : \A j \in Off : k <= j
    <3> HIDE DEF Off
    <3>. QED  BY <2>0, <2>1, LeastIsLeast
  <2>3. k # 0 /\ k \in 1..N /\ k - 1 \in 0..N /\ k - 1 \notin Off
    BY <1>7, <2>2
  <2>4. u[k - 1] \in Employees \cup {Nil}
    BY <2>3
  <2>5. \A e \in Employees : staff[e].manager \in Employees \cup {Nil}
    BY DEF People, StaffRow
  <2>6. u[k] \in Employees \cup {Nil}
    BY <1>9, <2>3, <2>4, <2>5
  <2>. QED  BY <2>2, <2>6
<1>. QED  BY <1>5, <1>6, <1>7, <1>9, <1>10 DEF Walks

LEMMA WalkGivesLine ==
  ASSUME People, NEW e \in Present, NEW m \in Present, WalkEnds(e, m)
  PROVE  \E U \in SUBSET Employees : Line(U, e, m)
<1>1. PICK N : N = Cardinality(Employees)
  OBVIOUS
<1>2. N \in Nat
  BY <1>1, OrganizationAssumption, FS_CardinalityType
<1>3. PICK u : u = Above(m)
  OBVIOUS
<1>4. m \in Employees
  BY DEF Present
<1>5. Walks(u, m, N)
  BY <1>1, <1>2, <1>3, <1>4, AboveWalks
<1>6. DOMAIN u = 0..N
  BY <1>5 DEF Walks
<1>7. PICK n \in 0..N : u[n] = Nil /\ \A i \in 0..(n - 1) : u[i] # e
  BY <1>3, <1>6 DEF WalkEnds
<1> DEFINE U == {x \in Employees : \E i \in 0..(n - 1) : u[i] = x}
<1>8. Nil \notin Employees
  BY OrganizationAssumption
<1>9. n # 0 /\ u[0] = m
  BY <1>4, <1>5, <1>7, <1>8 DEF Walks
<1>10. m \in U
  BY <1>2, <1>4, <1>7, <1>9
<1>11. e \notin U
  BY <1>7
<1>12. \A x \in U : staff[x].manager \in U \cup {Nil}
  <2>1. SUFFICES ASSUME NEW i \in 0..(n - 1), u[i] \in Employees
                 PROVE  staff[u[i]].manager \in U \cup {Nil}
    OBVIOUS
  <2>2. i + 1 \in 1..N /\ (i + 1) - 1 = i /\ i + 1 \in 0..N
    BY <1>2, <1>7, <2>1
  <2>3. u[i + 1] = staff[u[i]].manager
    BY <1>5, <1>8, <2>1, <2>2 DEF Walks
  <2>4. u[i + 1] \in Employees \cup {Nil}
    BY <1>5, <2>2 DEF Walks
  <2>5. i + 1 = n \/ i + 1 \in 0..(n - 1)
    BY <1>2, <1>7, <2>1
  <2>. QED  BY <1>7, <2>3, <2>4, <2>5
<1>13. U \subseteq Present
  <2>1. SUFFICES ASSUME NEW x \in U PROVE x \in Present
    OBVIOUS
  <2>2. PICK i \in 0..(n - 1) : u[i] = x
    OBVIOUS
  <2>3. CASE i = 0
    BY <1>9, <2>2, <2>3
  <2>4. CASE i # 0
    <3>1. i \in 1..N /\ i - 1 \in 0..N
      BY <1>2, <1>7, <2>2, <2>4
    <3>2. x = IF u[i - 1] = Nil THEN Nil ELSE staff[u[i - 1]].manager
      BY <1>5, <2>2, <3>1 DEF Walks
    <3>3. x \in Employees /\ u[i - 1] \in Employees \cup {Nil}
      BY <1>5, <2>1, <3>1 DEF Walks
    <3>4. u[i - 1] \in Employees /\ x = staff[u[i - 1]].manager
      BY <1>8, <3>2, <3>3
    <3>5. u[i - 1] \in Present
      BY <1>8, <3>3, <3>4 DEF People, Absent, Present
    <3>. QED  BY <1>8, <3>3, <3>4, <3>5 DEF People
  <2>. QED  BY <2>3, <2>4
<1>14. Line(U, e, m)
  BY <1>10, <1>11, <1>12, <1>13 DEF Line
<1>. QED  BY <1>14

-----------------------------------------------------------------------------
(* The reads: a call begins with what its checks have seen.                *)

LEMMA OtherKinds ==
  ASSUME NEW c
  PROVE  /\ (c.op # "hire" => HireOk(c)) /\ (c.op # "edit" => EditOk(c))
         /\ (c.op # "deactivate" => DeactivateOk(c)) /\ (c.op # "department" => DepartmentOk(c))
         /\ (c.op # "asset" => AssetOk(c)) /\ (c.op # "retire" => RetireOk(c))
         /\ (c.op # "assign" => AssignOk(c)) /\ (c.op # "activate" => ActivateOk(c))
         /\ (c.op # "confirm" => ConfirmOk(c)) /\ (c.op # "answer" => AnswerOk(c))
         /\ (c.op # "create" => CreateOk(c)) /\ (c.op # "amend" => AmendOk(c))
         /\ (c.op # "remove" => RemoveOk(c))
BY DEF HireOk, EditOk, DeactivateOk, DepartmentOk, AssetOk, RetireOk, AssignOk, ActivateOk, ConfirmOk,
       AnswerOk, CreateOk, AmendOk, RemoveOk

LEMMA FreshShape ==
  ASSUME NEW op \in Operations, NEW step, NEW args, NEW n,
         n = [op |-> op, at |-> step, since |-> {}, args |-> args]
  PROVE  /\ n.op = op /\ n.at = step /\ n.since = {} /\ n.args = args
         /\ CallShape(n) /\ \A K : Untouched(n, K)
BY DEF CallShape, Untouched, Operations

LEMMA HireReads ==
  ASSUME OrgInv, NEW s \in Sessions, Free(s), HireRead(s), UNCHANGED register
  PROVE  OrgInv'
<1>1. PICK e \in Employees, d \in Departments \cup {Nil}, m \in Present \cup {Nil} :
        Begin(s, "hire", "write", [e |-> e, dept |-> d, manager |-> m])
  BY DEF HireRead
<1>2. PICK n : n = [op |-> "hire", at |-> "write", since |-> {},
                    args |-> [e |-> e, dept |-> d, manager |-> m]]
  OBVIOUS
<1>0. "hire" \in Operations
  BY DEF Operations
<1>3. HireOk(n)
  BY <1>2 DEF HireOk
<1>4. CallOk(n)
  BY <1>0, <1>2, <1>3, FreshShape, OtherKinds DEF CallOk
<1>. QED  BY <1>0, <1>1, <1>2, <1>4, Began

LEMMA EditReads ==
  ASSUME OrgInv, NEW s \in Sessions, Free(s), EditRead(s), UNCHANGED register
  PROVE  OrgInv'
<1>1. PICK e \in Present, change \in Changes :
        MayEdit(e, change) /\ Begin(s, "edit", "write", [e |-> e, change |-> change])
  BY DEF EditRead
<1>2. PICK n : n = [op |-> "edit", at |-> "write", since |-> {}, args |-> [e |-> e, change |-> change]]
  OBVIOUS
<1>0. "edit" \in Operations
  BY DEF Operations
<1>3. "manager" \in DOMAIN change => \E U \in SUBSET Employees : Line(U, e, change.manager)
  <2>1. SUFFICES ASSUME "manager" \in DOMAIN change
                 PROVE  \E U \in SUBSET Employees : Line(U, e, change.manager)
    OBVIOUS
  <2>2. change \in [{"manager"} -> Present]
    BY <1>1, <2>1 DEF Changes
  <2>3. change.manager \in Present /\ WalkEnds(e, change.manager)
    BY <1>1, <2>1, <2>2 DEF MayEdit
  <2>. QED  BY <1>1, <2>3, WalkGivesLine DEF OrgInv
<1>4. EditOk(n)
  BY <1>1, <1>2, <1>3 DEF EditOk
<1>5. CallOk(n)
  BY <1>0, <1>2, <1>4, FreshShape, OtherKinds DEF CallOk
<1>. QED  BY <1>0, <1>1, <1>2, <1>5, Began

LEMMA DeactivateReads ==
  ASSUME OrgInv, NEW s \in Sessions, Free(s), DeactivateRead(s), UNCHANGED register
  PROVE  OrgInv'
<1>1. PICK e \in Present : MayDeactivate(e) /\ Begin(s, "deactivate", "write", [e |-> e])
  BY DEF DeactivateRead
<1>2. PICK n : n = [op |-> "deactivate", at |-> "write", since |-> {}, args |-> [e |-> e]]
  OBVIOUS
<1>0. "deactivate" \in Operations
  BY DEF Operations
<1>3. DeactivateOk(n)
  BY <1>1, <1>2 DEF DeactivateOk, MayDeactivate
<1>4. CallOk(n)
  BY <1>0, <1>2, <1>3, FreshShape, OtherKinds DEF CallOk
<1>. QED  BY <1>0, <1>1, <1>2, <1>4, Began

LEMMA DepartmentReads ==
  ASSUME OrgInv, NEW s \in Sessions, Free(s), DepartmentRead(s), UNCHANGED register
  PROVE  OrgInv'
<1>1. PICK d \in Departments, on \in BOOLEAN : Begin(s, "department", "write", [e |-> d, on |-> on])
  BY DEF DepartmentRead
<1>2. PICK n : n = [op |-> "department", at |-> "write", since |-> {}, args |-> [e |-> d, on |-> on]]
  OBVIOUS
<1>0. "department" \in Operations
  BY DEF Operations
<1>3. DepartmentOk(n)
  BY <1>1, <1>2 DEF DepartmentOk
<1>4. CallOk(n)
  BY <1>0, <1>2, <1>3, FreshShape, OtherKinds DEF CallOk
<1>. QED  BY <1>0, <1>1, <1>2, <1>4, Began

\* What the checks of an asset make of the fields that are given.
LEMMA ChangeIsValid ==
  ASSUME NEW change \in AssetChanges, NEW x \in Assets, MayChange(x, change)
  PROVE  /\ Validated(change) \in ValidChange
         /\ Validated(change).status = "assigned" =>
              /\ Validated(change).holder \in Present
              /\ staff[Validated(change).holder].status # "terminated"
<1>1. Nil \notin Present
  BY OrganizationAssumption DEF Present
<1>2. CASE change \in [{"holder"} -> Present \cup {Nil}]
  <2>1. DOMAIN change = {"holder"} /\ change.holder \in Present \cup {Nil}
    BY <1>2
  <2>2. CASE change.holder # Nil
    <3>1. Validated(change) = [holder |-> change.holder, status |-> "assigned"]
      BY <2>1, <2>2 DEF Validated
    <3>2. staff[change.holder].status = "active"
      BY <2>1, <2>2 DEF MayChange
    <3>. QED  BY <2>1, <2>2, <3>1, <3>2 DEF ValidChange, Present
  <2>3. CASE change.holder = Nil
    <3>1. Validated(change) = [holder |-> Nil, status |-> "available"]
      BY <2>1, <2>3 DEF Validated
    <3>. QED  BY <3>1 DEF ValidChange, AssetStatus
  <2>. QED  BY <2>2, <2>3
<1>3. CASE change \in [{"status"} -> AssetStatus \ {"assigned"}]
  <2>1. DOMAIN change = {"status"} /\ change.status # "assigned"
    BY <1>3
  <2>2. Validated(change) = change
    BY <2>1 DEF Validated
  <2>. QED  BY <1>3, <2>1, <2>2 DEF ValidChange
<1>4. CASE change \in {[holder |-> Nil, status |-> st] : st \in AssetStatus \ {"assigned"}}
  <2>1. PICK st \in AssetStatus \ {"assigned"} : change = [holder |-> Nil, status |-> st]
    BY <1>4
  <2>2. Validated(change) = change /\ change.status = st
    BY <2>1 DEF Validated
  <2>. QED  BY <2>1, <2>2 DEF ValidChange
<1>. QED  BY <1>2, <1>3, <1>4 DEF AssetChanges

LEMMA AssetReads ==
  ASSUME OrgInv, NEW s \in Sessions, Free(s), AssetRead(s), UNCHANGED register
  PROVE  OrgInv'
<1>1. PICK x \in Assets, change \in AssetChanges :
        /\ MayChange(x, change)
        /\ \E v \in 1..asset[x].version :
              Begin(s, "asset", "write", [e |-> x, change |-> Validated(change), version |-> v])
  BY DEF AssetRead
<1>2. PICK v \in 1..asset[x].version :
        Begin(s, "asset", "write", [e |-> x, change |-> Validated(change), version |-> v])
  BY <1>1
<1>3. PICK w : w = Validated(change)
  OBVIOUS
<1>4. w \in ValidChange /\ (w.status = "assigned" => w.holder \in Present /\ staff[w.holder].status # "terminated")
  BY <1>1, <1>3, ChangeIsValid
<1>5. PICK n : n = [op |-> "asset", at |-> "write", since |-> {},
                    args |-> [e |-> x, change |-> w, version |-> v]]
  OBVIOUS
<1>0. "asset" \in Operations
  BY DEF Operations
<1>6. asset[x].status # "retired"
  BY <1>1 DEF MayChange
<1>7. AssetOk(n)
  BY <1>2, <1>4, <1>5, <1>6 DEF AssetOk
<1>8. CallOk(n)
  BY <1>0, <1>5, <1>7, FreshShape, OtherKinds DEF CallOk
<1>9. Begin(s, "asset", "write", [e |-> x, change |-> w, version |-> v])
  BY <1>2, <1>3
<1>. QED  BY <1>0, <1>5, <1>8, <1>9, Began

LEMMA RetireReads ==
  ASSUME OrgInv, NEW s \in Sessions, Free(s), RetireRead(s), UNCHANGED register
  PROVE  OrgInv'
<1>1. PICK x \in Assets : Begin(s, "retire", "write", [e |-> x])
  BY DEF RetireRead
<1>2. PICK n : n = [op |-> "retire", at |-> "write", since |-> {}, args |-> [e |-> x]]
  OBVIOUS
<1>0. "retire" \in Operations
  BY DEF Operations
<1>3. RetireOk(n)
  BY <1>1, <1>2 DEF RetireOk
<1>4. CallOk(n)
  BY <1>0, <1>2, <1>3, FreshShape, OtherKinds DEF CallOk
<1>. QED  BY <1>0, <1>1, <1>2, <1>4, Began

LEMMA AppointReads ==
  ASSUME OrgInv, NEW s \in Sessions, Free(s), AppointRead(s), UNCHANGED register
  PROVE  OrgInv'
<1>1. PICK d \in Departments, e \in Present :
        MayAppoint(d, e) /\ Begin(s, "assign", "demote", [e |-> e, dept |-> d, held |-> {}])
  BY DEF AppointRead
<1>2. PICK n : n = [op |-> "assign", at |-> "demote", since |-> {},
                    args |-> [e |-> e, dept |-> d, held |-> {}]]
  OBVIOUS
<1>0. "assign" \in Operations
  BY DEF Operations
<1>3. AssignOk(n)
  BY <1>1, <1>2 DEF AssignOk, MayAppoint
<1>4. CallOk(n)
  BY <1>0, <1>2, <1>3, FreshShape, OtherKinds DEF CallOk
<1>. QED  BY <1>0, <1>1, <1>2, <1>4, Began

LEMMA ActivateReads ==
  ASSUME OrgInv, NEW s \in Sessions, Free(s), ActivateRead(s), UNCHANGED register
  PROVE  OrgInv'
<1>1. Ready /\ Begin(s, "activate", "write", [e |-> Nil])
  BY DEF ActivateRead, MayActivate
<1>2. PICK n : n = [op |-> "activate", at |-> "write", since |-> {}, args |-> [e |-> Nil]]
  OBVIOUS
<1>0. "activate" \in Operations
  BY DEF Operations
<1>3. ActivateOk(n)
  BY <1>1, <1>2 DEF ActivateOk
<1>4. CallOk(n)
  BY <1>0, <1>2, <1>3, FreshShape, OtherKinds DEF CallOk
<1>. QED  BY <1>0, <1>1, <1>2, <1>4, Began

LEMMA ConfirmReads ==
  ASSUME OrgInv, NEW s \in Sessions, Free(s), ConfirmRead(s), UNCHANGED register
  PROVE  OrgInv'
<1>1. PICK j \in Jobs : MayConfirm(j) /\ Begin(s, "confirm", "start", [e |-> j])
  BY DEF ConfirmRead
<1>2. PICK n : n = [op |-> "confirm", at |-> "start", since |-> {}, args |-> [e |-> j]]
  OBVIOUS
<1>0. "confirm" \in Operations
  BY DEF Operations
<1>3. ManagersKnown
  BY <1>1 DEF OrgInv, Kept, MayConfirm
<1>4. ConfirmOk(n)
  BY <1>1, <1>2, <1>3 DEF ConfirmOk
<1>5. CallOk(n)
  BY <1>0, <1>2, <1>4, FreshShape, OtherKinds DEF CallOk
<1>. QED  BY <1>0, <1>1, <1>2, <1>5, Began

LEMMA AnswerReads ==
  ASSUME OrgInv, NEW s \in Sessions, Free(s), AnswerRead(s), UNCHANGED register
  PROVE  OrgInv'
<1>1. PICK p \in Employees \cup {Company} : Begin(s, "answer", "write", [e |-> p])
  BY DEF AnswerRead
<1>2. PICK n : n = [op |-> "answer", at |-> "write", since |-> {}, args |-> [e |-> p]]
  OBVIOUS
<1>0. "answer" \in Operations
  BY DEF Operations
<1>3. AnswerOk(n)
  BY <1>1, <1>2 DEF AnswerOk
<1>4. CallOk(n)
  BY <1>0, <1>2, <1>3, FreshShape, OtherKinds DEF CallOk
<1>. QED  BY <1>0, <1>1, <1>2, <1>4, Began

LEMMA Opened ==
  ASSUME OrgInv, NEW s \in Sessions, Free(s), NEW op \in {"create", "amend", "remove"}, NEW k \in Kinds,
         NEW i, NEW change, NEW v, Open(s, op, k, i, change, v),
         \A c : c.op = op /\ c.args.kind = k /\ c.args.e = i /\ c.args.change = change
                /\ c.args.version = v /\ WriterOk(c)
                => CreateOk(c) /\ AmendOk(c) /\ RemoveOk(c)
  PROVE  OrgInv'
<1>1. PICK p \in Writers(k) :
        Begin(s, op, "write", [e |-> i, kind |-> k, by |-> p, change |-> change, version |-> v])
  BY DEF Open
<1>2. PICK args : args = [e |-> i, kind |-> k, by |-> p, change |-> change, version |-> v]
  OBVIOUS
<1>3. PICK n : n = [op |-> op, at |-> "write", since |-> {}, args |-> args]
  OBVIOUS
<1>4. op \in Operations /\ UNCHANGED register
  BY DEF Operations, Open
<1>5. WriterOk(n)
  BY <1>1, <1>2, <1>3 DEF WriterOk
<1>6. CreateOk(n) /\ AmendOk(n) /\ RemoveOk(n)
  BY <1>2, <1>3, <1>5
<1>7. CallOk(n)
  BY <1>3, <1>4, <1>6, FreshShape, OtherKinds DEF CallOk
<1>. QED  BY <1>1, <1>2, <1>3, <1>4, <1>7, Began

LEMMA RegisterReads ==
  ASSUME OrgInv, NEW s \in Sessions, RegisterRead(s)
  PROVE  OrgInv'
<1>0. Free(s)
  BY DEF RegisterRead
<1>1. \A key \in Keys : [key |-> key] \in [{"key"} -> Keys] /\ [key |-> key].key = key
  OBVIOUS
<1>2. \A k : In(k) \subseteq Entries
  BY DEF In
<1>3. CASE CreateSupplier(s)
  <2>1. PICK key \in Keys : SupplierMatches(key) = {} /\ Open(s, "create", "supplier", Nil, [key |-> key], 1)
    BY <1>3 DEF CreateSupplier
  <2>2. PICK ch : ch = [key |-> key]
    OBVIOUS
  <2>. QED  BY <1>0, <1>1, <2>1, <2>2, Opened DEF Kinds, CreateOk, AmendOk, RemoveOk
<1>4. CASE EditSupplier(s)
  <2>1. PICK i \in In("supplier"), ch \in SupplierChanges :
          MayRename(i, ch) /\ Open(s, "amend", "supplier", i, ch, 1)
    BY <1>4 DEF EditSupplier
  <2>. QED  BY <1>0, <1>2, <2>1, Opened DEF Kinds, CreateOk, AmendOk, RemoveOk, RowChange, SupplierChanges
<1>5. CASE RemoveSupplier(s)
  <2>1. PICK i \in In("supplier") : Open(s, "remove", "supplier", i, [active |-> FALSE], 1)
    BY <1>5 DEF RemoveSupplier
  <2>. QED  BY <1>0, <1>2, <2>1, Opened DEF Kinds, CreateOk, AmendOk, RemoveOk
<1>6. CASE CreateSoftware(s)
  <2>1. PICK key \in Keys : Open(s, "create", "software", Nil, [key |-> key], 1)
    BY <1>6 DEF CreateSoftware
  <2>. QED  BY <1>0, <1>1, <2>1, Opened DEF Kinds, CreateOk, AmendOk, RemoveOk
<1>7. CASE EditSoftware(s)
  <2>1. PICK i \in In("software"), ch \in SoftwareChanges :
          \E v \in 1..register["software"][i].version : Open(s, "amend", "software", i, ch, v)
    BY <1>7 DEF EditSoftware
  <2>2. PICK v \in 1..register["software"][i].version : Open(s, "amend", "software", i, ch, v)
    BY <2>1
  <2>3. v \in Nat
    <3>1. register["software"][i].version \in Nat
      BY <1>2, <2>1 DEF OrgInv, Kept, Kinds, KeptRow, Missing
    <3>. QED  BY <2>2, <3>1
  <2>. QED  BY <1>0, <1>2, <2>1, <2>2, <2>3, Opened DEF Kinds, CreateOk, AmendOk, RemoveOk, RowChange, SoftwareChanges
<1>8. CASE RemoveSoftware(s)
  <2>1. PICK i \in In("software") : Open(s, "remove", "software", i, [active |-> FALSE], 1)
    BY <1>8 DEF RemoveSoftware
  <2>. QED  BY <1>0, <1>2, <2>1, Opened DEF Kinds, CreateOk, AmendOk, RemoveOk
<1>9. CASE CreateHoliday(s)
  <2>1. PICK key \in Keys : Open(s, "create", "holiday", Nil, [key |-> key], 1)
    BY <1>9 DEF CreateHoliday
  <2>. QED  BY <1>0, <1>1, <2>1, Opened DEF Kinds, CreateOk, AmendOk, RemoveOk
<1>10. CASE EditHoliday(s)
  <2>1. PICK i \in In("holiday"), ch \in HolidayChanges : Open(s, "amend", "holiday", i, ch, 1)
    BY <1>10 DEF EditHoliday
  <2>. QED  BY <1>0, <1>2, <2>1, Opened DEF Kinds, CreateOk, AmendOk, RemoveOk, RowChange, HolidayChanges
<1>11. CASE RemoveHoliday(s)
  <2>1. PICK i \in In("holiday") : Open(s, "remove", "holiday", i, [active |-> FALSE], 1)
    BY <1>11 DEF RemoveHoliday
  <2>. QED  BY <1>0, <1>2, <2>1, Opened DEF Kinds, CreateOk, AmendOk, RemoveOk
<1>12. CASE CreateBalance(s)
  <2>1. PICK key \in Keys : Open(s, "create", "balance", Nil, [key |-> key], 1)
    BY <1>12 DEF CreateBalance
  <2>. QED  BY <1>0, <1>1, <2>1, Opened DEF Kinds, CreateOk, AmendOk, RemoveOk
<1>13. CASE RemoveBalance(s)
  <2>1. PICK i \in In("balance") : Open(s, "remove", "balance", i, [active |-> FALSE], 1)
    BY <1>13 DEF RemoveBalance
  <2>. QED  BY <1>0, <1>2, <2>1, Opened DEF Kinds, CreateOk, AmendOk, RemoveOk
<1>. QED  BY <1>3, <1>4, <1>5, <1>6, <1>7, <1>8, <1>9, <1>10, <1>11, <1>12, <1>13 DEF RegisterRead

-----------------------------------------------------------------------------
(* The writes: what a commit changes and what it leaves alone.             *)

LEMMA StaffStays ==
  ASSUME People, Kept, ImportIsAllOrNothing, staff' = staff, NEW o
  PROVE  /\ People' /\ StaffFrame(o) /\ Present' = Present
         /\ (job' = job \/ \A j \in Jobs : job'[j] = "completed" => job[j] = "completed")
              => ImportIsAllOrNothing'
<1>1. Present' = Present
  BY DEF Present
<1>2. People' /\ StaffFrame(o)
  BY <1>1 DEF People, StaffFrame
<1>3. (\A j \in Jobs : job'[j] = "completed" => job[j] = "completed") => ImportIsAllOrNothing'
  BY DEF ImportIsAllOrNothing
<1>. QED  BY <1>1, <1>2, <1>3

LEMMA AssetStays ==
  ASSUME Kept, asset' = asset, NEW o
  PROVE  /\ AssetFrame(o) /\ asset' \in [Assets -> AssetRow] /\ AssignedHasHolder'
         /\ \A x \in Assets : asset'[x].version <= asset[x].version + 1
<1>1. \A x \in Assets : asset[x].version \in Nat
  BY DEF Kept, AssetRow
<1>2. \A x \in Assets : asset[x].version <= asset'[x].version /\ asset'[x].version <= asset[x].version + 1
  BY <1>1
<1>3. AssetFrame(o)
  BY <1>2 DEF AssetFrame
<1>. QED  BY <1>2, <1>3 DEF Kept, AssignedHasHolder

LEMMA RegisterStays ==
  ASSUME Kept, register' = register, NEW o
  PROVE  /\ RegisterFrame(o)
         /\ \A k \in Kinds, i \in Entries : register'[k][i].version <= register[k][i].version + 1
<1>1. \A k \in Kinds, i \in Entries : register[k][i].version \in Nat
  BY DEF Kept, KeptRow, Missing
<1>2. \A k \in Kinds, i \in Entries : register'[k][i].version <= register[k][i].version + 1
  BY <1>1
<1>3. RegisterFrame(o)
  BY DEF RegisterFrame, In
<1>. QED  BY <1>2, <1>3

LEMMA KeptOn ==
  ASSUME Kept, Present \subseteq Present', asset' \in [Assets -> AssetRow], AssignedHasHolder',
         register' \in [Kinds -> [Entries -> {Missing} \cup KeptRow]],
         enabled' \in [Departments -> BOOLEAN], active' \in BOOLEAN,
         action' \in [status : {"none", "pending", "resolved"}, assignee : Employees \cup {Nil},
                      answer : Employees \cup {Company, Nil}],
         job' \in [Jobs -> ImportJobStatus], stops' \in 0..MaxStops,
         ManagersKnown \/ \A j \in Jobs : job'[j] \in {"ready", "processing"} =>
                                            job[j] \in {"ready", "processing"}
  PROVE  Kept'
<1>1. ManagersKnown => ManagersKnown'
  BY DEF ManagersKnown
<1>2. \A j \in Jobs : job'[j] \in {"ready", "processing"} => ManagersKnown'
  BY <1>1 DEF Kept
<1>. QED  BY <1>2 DEF Kept

\* A commit of the directory.
LEMMA StaffCommits ==
  ASSUME OrgInv, NEW s \in Sessions, calls[s] # AtRest, NEW o \in Operations, calls[s].op = o,
         Commit(s), UNCHANGED <<enabled, asset, action, active, register>>,
         StaffFrame(o), People', ImportIsAllOrNothing',
         \A t \in Sessions \ {s} : At(t, "assign", "promote") =>
           \A x \in Args(t).held : staff'[x].role = "department_manager",
         \/ o # "confirm" /\ job' = job
         \/ /\ job' \in [Jobs -> ImportJobStatus]
            /\ \A j \in Jobs : /\ job'[j] = "ready" => job[j] = "ready"
                               /\ job'[j] = "processing" =>
                                    job[j] = "processing" /\ ~(At(s, "confirm", "rows") /\ Args(s).e = j)
  PROVE  OrgInv'
<1>1. AssetFrame(o) /\ asset' \in [Assets -> AssetRow] /\ AssignedHasHolder'
      /\ \A x \in Assets : asset'[x].version <= asset[x].version + 1
  BY AssetStays DEF OrgInv
<1>2. RegisterFrame(o) /\ \A k \in Kinds, i \in Entries : register'[k][i].version <= register[k][i].version + 1
  BY RegisterStays DEF OrgInv
<1>3. Frame(o)
  BY <1>1, <1>2 DEF Frame
<1>4. \A j \in Jobs : job'[j] = "processing" =>
        job[j] = "processing" /\ ~(At(s, "confirm", "rows") /\ Args(s).e = j)
  BY DEF At
<1>5. Kept'
  <2>1. Kept /\ Present \subseteq Present' /\ stops' = stops
    BY DEF OrgInv, StaffFrame, Commit
  <2>2. /\ register' \in [Kinds -> [Entries -> {Missing} \cup KeptRow]]
        /\ enabled' \in [Departments -> BOOLEAN] /\ active' \in BOOLEAN
        /\ action' \in [status : {"none", "pending", "resolved"}, assignee : Employees \cup {Nil},
                        answer : Employees \cup {Company, Nil}]
        /\ stops' \in 0..MaxStops
    BY <2>1 DEF Kept
  <2>3. job' \in [Jobs -> ImportJobStatus]
    BY <2>1 DEF Kept
  <2>4. \A j \in Jobs : job'[j] \in {"ready", "processing"} => job[j] \in {"ready", "processing"}
    OBVIOUS
  <2>. QED  BY <1>1, <2>1, <2>2, <2>3, <2>4, KeptOn
<1>. QED  BY <1>1, <1>2, <1>3, <1>4, <1>5, Committed

\* But for appointments, a commit takes nobody his role.
LEMMA RolesStay ==
  ASSUME UnderWay, NEW o, StaffFrame(o), o # "assign", NEW t \in Sessions, At(t, "assign", "promote")
  PROVE  \A x \in Args(t).held : staff'[x].role = "department_manager"
<1>1. CallOk(calls[t])
  BY DEF UnderWay
<1>2. /\ Args(t).held \subseteq Present
      /\ \A x \in Args(t).held : staff[x].role = "department_manager"
  BY <1>1 DEF CallOk, AssignOk, At, Args
<1>. QED  BY <1>2 DEF StaffFrame

\* What a session is doing is in order.
LEMMA UnderWayAt ==
  ASSUME UnderWay, NEW s \in Sessions, NEW op, NEW step, At(s, op, step), op # "none"
  PROVE  /\ CallOk(calls[s]) /\ calls[s] # AtRest /\ calls[s].op = op /\ calls[s].at = step
         /\ Args(s) = calls[s].args
BY DEF UnderWay, At, Args, AtRest

LEMMA HireWrites ==
  ASSUME OrgInv, NEW s \in Sessions, HireWrite(s), UNCHANGED register
  PROVE  OrgInv'
<1>1. CallOk(calls[s]) /\ calls[s] # AtRest /\ calls[s].op = "hire" /\ calls[s].at = "write" /\ Args(s) = calls[s].args
  BY UnderWayAt DEF OrgInv, HireWrite
<1>2. PICK a : a = Args(s)
  OBVIOUS
<1>3. a.e \in Employees /\ a.dept \in Departments \cup {Nil} /\ a.manager \in Present \cup {Nil}
  BY <1>1, <1>2 DEF CallOk, HireOk
<1>4. CASE a.e \in Present /\ Refuse(s)
  <2>1. ~At(s, "confirm", "rows")
    BY <1>1 DEF At
  <2>. QED  BY <1>1, <1>4, <2>1, Refused
<1>5. CASE /\ a.e \notin Present
           /\ staff' = [staff EXCEPT ![a.e] = Employee("active", a.dept, a.manager, "hire")]
           /\ Commit(s) /\ UNCHANGED <<enabled, asset, action, job, active>>
  <2>1. PICK r : r = Employee("active", a.dept, a.manager, "hire")
    OBVIOUS
  <2>2. /\ r \in StaffRow /\ r.status = "active" /\ r.role = "employee" /\ r.origin = "hire"
        /\ r.manager = a.manager
    BY <1>3, <2>1 DEF Employee, StaffRow, EmploymentStatus, Present
  <2>3. staff' \in [Employees -> StaffRow] /\ \A e \in Employees : staff'[e] = IF e = a.e THEN r ELSE staff[e]
    BY <1>5, <2>1, <2>2 DEF OrgInv, People
  <2>4. Present' = Present \cup {a.e}
    BY <1>3, <2>2, <2>3 DEF Present
  <2>5. staff[a.e] = Absent
    BY <1>3, <1>5 DEF OrgInv, People, Present
  <2>6. People'
    <3>1. \A e \in Employees : staff'[e].status = "absent" => staff'[e] = Absent
      BY <2>2, <2>3 DEF OrgInv, People
    <3>2. \A e \in Present' : staff'[e].manager \in Present' \cup {Nil}
      BY <1>3, <2>2, <2>3, <2>4 DEF OrgInv, People, Present
    <3>. QED  BY <2>3, <3>1, <3>2 DEF People
  <2>7. StaffFrame("hire")
    <3>1. \A e \in Present : e \in Employees /\ e # a.e /\ staff'[e] = staff[e]
      BY <1>5, <2>3 DEF Present
    <3>2. \A e \in Present' \ Present : staff'[e].role # "department_manager"
      BY <1>3, <2>2, <2>3, <2>4
    <3>. QED  BY <2>4, <3>1, <3>2 DEF StaffFrame
  <2>8. ImportIsAllOrNothing'
    <3>1. \A e \in FileRows : staff'[e].origin = "import" <=> staff[e].origin = "import"
      BY <2>2, <2>3, <2>5, OrganizationAssumption DEF Absent, FileRows
    <3>2. {e \in FileRows : staff'[e].origin = "import"} = {e \in FileRows : staff[e].origin = "import"}
      BY <3>1
    <3>. QED  BY <1>5, <3>2 DEF OrgInv, ImportIsAllOrNothing
  <2>9. \A t \in Sessions \ {s} : At(t, "assign", "promote") =>
          \A x \in Args(t).held : staff'[x].role = "department_manager"
    BY <2>7, RolesStay DEF OrgInv
  <2>10. "hire" \in Operations
    BY DEF Operations
  <2>. QED  BY <1>1, <1>5, <2>6, <2>7, <2>8, <2>9, <2>10, StaffCommits
<1>. QED  BY <1>2, <1>4, <1>5 DEF HireWrite

\* What an edit makes of a row.
LEMMA ApplyRow ==
  ASSUME NEW row \in StaffRow, row.status # "absent", NEW S \in SUBSET Employees,
         NEW change \in [{"manager"} -> S] \cup [{"dept"} -> Departments]
                        \cup [{"status"} -> EmploymentStatus \ {"terminated"}],
         NEW r, r = Apply(row, change)
  PROVE  /\ r \in StaffRow /\ r.status # "absent" /\ r.role = row.role /\ r.account = row.account
         /\ r.origin = row.origin
         /\ r.manager = IF "manager" \in DOMAIN change THEN change.manager ELSE row.manager
         /\ r.dept = IF "dept" \in DOMAIN change THEN change.dept ELSE row.dept
         /\ r.status = "terminated" => row.status = "terminated"
<1>1. DOMAIN row = {"status", "dept", "manager", "role", "account", "origin"}
  BY DEF StaffRow
<1>2. r = [f \in DOMAIN row |-> IF f \in DOMAIN change THEN change[f] ELSE row[f]]
  BY DEF Apply
<1>3. r = [status |-> IF "status" \in DOMAIN change THEN change.status ELSE row.status,
           dept |-> IF "dept" \in DOMAIN change THEN change.dept ELSE row.dept,
           manager |-> IF "manager" \in DOMAIN change THEN change.manager ELSE row.manager,
           role |-> IF "role" \in DOMAIN change THEN change.role ELSE row.role,
           account |-> IF "account" \in DOMAIN change THEN change.account ELSE row.account,
           origin |-> IF "origin" \in DOMAIN change THEN change.origin ELSE row.origin]
  BY <1>1, <1>2
<1>4. /\ row.status \in EmploymentStatus \cup {"absent"} /\ row.dept \in Departments \cup {Nil}
      /\ row.manager \in Employees \cup {Nil} /\ row.role \in {"none", "employee", "department_manager"}
      /\ row.account \in BOOLEAN /\ row.origin \in {"none", "hire", "import"}
  BY DEF StaffRow
<1>5. DOMAIN change \in {{"manager"}, {"dept"}, {"status"}}
  OBVIOUS
<1>6. /\ "manager" \in DOMAIN change => change.manager \in S
      /\ "dept" \in DOMAIN change => change.dept \in Departments
      /\ "status" \in DOMAIN change => change.status \in EmploymentStatus \ {"terminated"}
  OBVIOUS
<1>7. /\ r.role = row.role /\ r.account = row.account /\ r.origin = row.origin
      /\ r.manager = IF "manager" \in DOMAIN change THEN change.manager ELSE row.manager
      /\ r.dept = IF "dept" \in DOMAIN change THEN change.dept ELSE row.dept
      /\ r.status = IF "status" \in DOMAIN change THEN change.status ELSE row.status
  BY <1>3, <1>5
<1>8. r = [status |-> r.status, dept |-> r.dept, manager |-> r.manager, role |-> r.role,
           account |-> r.account, origin |-> r.origin]
  BY <1>3
<1>9. r.status \in EmploymentStatus \cup {"absent"} /\ r.dept \in Departments \cup {Nil}
      /\ r.manager \in Employees \cup {Nil}
  BY <1>4, <1>6, <1>7
<1>10. r \in StaffRow
  BY <1>4, <1>7, <1>8, <1>9 DEF StaffRow
<1>11. r.status # "absent" /\ (r.status = "terminated" => row.status = "terminated")
  BY <1>6, <1>7 DEF EmploymentStatus
<1>. QED  BY <1>7, <1>10, <1>11

LEMMA EditWritten ==
  ASSUME People, NEW e \in Present, NEW change \in Changes,
         staff' = [staff EXCEPT ![e] = Apply(staff[e], change)]
  PROVE  /\ \A x \in Employees \ {e} : staff'[x] = staff[x]
         /\ staff'[e].role = staff[e].role /\ staff'[e].account = staff[e].account
         /\ \A x \in Employees : staff'[x].origin = staff[x].origin
         /\ staff'[e].manager = IF "manager" \in DOMAIN change THEN change.manager ELSE staff[e].manager
         /\ staff'[e].dept = IF "dept" \in DOMAIN change THEN change.dept ELSE staff[e].dept
         /\ staff'[e].status = "terminated" => staff[e].status = "terminated"
         /\ Present' = Present /\ People' /\ StaffFrame("edit")
<1>0. PICK r : r = Apply(staff[e], change)
  OBVIOUS
<1>1. PICK S : S = Present
  OBVIOUS
<1>2. S \in SUBSET Employees /\ staff[e] \in StaffRow /\ staff[e].status # "absent"
  BY <1>1 DEF Present, People
<1>3. change \in [{"manager"} -> S] \cup [{"dept"} -> Departments]
                 \cup [{"status"} -> EmploymentStatus \ {"terminated"}]
  BY <1>1 DEF Changes
<1>4. /\ r \in StaffRow /\ r.status # "absent" /\ r.role = staff[e].role /\ r.account = staff[e].account
      /\ r.origin = staff[e].origin
      /\ r.manager = IF "manager" \in DOMAIN change THEN change.manager ELSE staff[e].manager
      /\ r.dept = IF "dept" \in DOMAIN change THEN change.dept ELSE staff[e].dept
      /\ r.status = "terminated" => staff[e].status = "terminated"
  <2>1. PICK row : row = staff[e]
    OBVIOUS
  <2>2. row \in StaffRow /\ row.status # "absent" /\ r = Apply(row, change)
    BY <1>0, <1>2, <2>1
  <2>. QED  BY <1>2, <1>3, <2>1, <2>2, ApplyRow
<1>5. e \in Employees
  BY DEF Present
<1>6. staff' \in [Employees -> StaffRow] /\ \A x \in Employees : staff'[x] = IF x = e THEN r ELSE staff[x]
  BY <1>0, <1>4, <1>5 DEF People
<1>7. Present' = Present
  BY <1>4, <1>5, <1>6 DEF Present
<1>8. "manager" \in DOMAIN change => change.manager \in Present
  BY DEF Changes
<1>9. People'
  <2>1. \A x \in Employees : staff'[x].status = "absent" => staff'[x] = Absent
    BY <1>4, <1>6 DEF People
  <2>2. \A x \in Present : staff'[x].manager \in Present \cup {Nil}
    BY <1>4, <1>6, <1>8 DEF People, Present
  <2>. QED  BY <1>6, <1>7, <2>1, <2>2 DEF People
<1>10. StaffFrame("edit")
  BY <1>4, <1>6, <1>7 DEF StaffFrame, Present
<1>11. staff'[e] = r /\ \A x \in Employees \ {e} : staff'[x] = staff[x]
  BY <1>5, <1>6
<1>12. \A x \in Employees : staff'[x].origin = staff[x].origin
  BY <1>4, <1>6
<1>13. /\ staff'[e].role = staff[e].role /\ staff'[e].account = staff[e].account
       /\ staff'[e].manager = IF "manager" \in DOMAIN change THEN change.manager ELSE staff[e].manager
       /\ staff'[e].dept = IF "dept" \in DOMAIN change THEN change.dept ELSE staff[e].dept
       /\ staff'[e].status = "terminated" => staff[e].status = "terminated"
  BY <1>4, <1>11
<1>. QED  BY <1>7, <1>9, <1>10, <1>11, <1>12, <1>13

LEMMA EditWrites ==
  ASSUME OrgInv, NEW s \in Sessions, EditWrite(s), UNCHANGED register
  PROVE  OrgInv'
<1>1. CallOk(calls[s]) /\ calls[s] # AtRest /\ calls[s].op = "edit" /\ Args(s) = calls[s].args
  BY UnderWayAt DEF OrgInv, EditWrite
<1>2. PICK a : a = Args(s)
  OBVIOUS
<1>3. a.e \in Present /\ a.change \in Changes
  BY <1>1, <1>2 DEF CallOk, EditOk
<1>4. PICK e : e = a.e
  OBVIOUS
<1>5. PICK change : change = a.change
  OBVIOUS
<1>7. /\ staff' = [staff EXCEPT ![e] = Apply(staff[e], change)] /\ Commit(s)
      /\ UNCHANGED <<enabled, asset, action, job, active>>
  BY <1>2, <1>4, <1>5 DEF EditWrite
<1>8. (\A x \in Employees : staff'[x].origin = staff[x].origin) /\ People' /\ StaffFrame("edit")
  <2>1. People /\ e \in Present /\ change \in Changes
    BY <1>3, <1>4, <1>5 DEF OrgInv
  <2>. QED  BY <1>7, <2>1, EditWritten
<1>9. ImportIsAllOrNothing'
  <2>1. \A x \in FileRows : staff'[x].origin = staff[x].origin
    BY <1>8, OrganizationAssumption DEF FileRows
  <2>2. {x \in FileRows : staff'[x].origin = "import"} = {x \in FileRows : staff[x].origin = "import"}
    BY <2>1
  <2>. QED  BY <1>7, <2>2 DEF OrgInv, ImportIsAllOrNothing
<1>10. \A t \in Sessions \ {s} : At(t, "assign", "promote") =>
         \A x \in Args(t).held : staff'[x].role = "department_manager"
  BY <1>8, RolesStay DEF OrgInv
<1>11. "edit" \in Operations
  BY DEF Operations
<1>. QED  BY <1>1, <1>7, <1>8, <1>9, <1>10, <1>11, StaffCommits

LEMMA TerminatedRow ==
  ASSUME NEW row,
         row = [status |-> row.status, dept |-> row.dept, manager |-> row.manager,
                role |-> row.role, account |-> row.account, origin |-> row.origin]
  PROVE  [[row EXCEPT !.status = "terminated"] EXCEPT !.account = FALSE]
           = [status |-> "terminated", dept |-> row.dept, manager |-> row.manager,
              role |-> row.role, account |-> FALSE, origin |-> row.origin]
<1>1. PICK d, m, o, g, st, ac :
        d = row.dept /\ m = row.manager /\ o = row.role /\ g = row.origin /\ st = row.status /\ ac = row.account
  OBVIOUS
<1>2. PICK z : z = [status |-> st, dept |-> d, manager |-> m, role |-> o, account |-> ac, origin |-> g]
  OBVIOUS
<1>3. row = z
  BY <1>1, <1>2
<1>4. PICK y : y = [status |-> "terminated", dept |-> d, manager |-> m, role |-> o, account |-> ac, origin |-> g]
  OBVIOUS
<1>5. [z EXCEPT !.status = "terminated"] = y
  BY <1>2, <1>4
<1>6. PICK f : f = FALSE
  OBVIOUS
<1>7. [y EXCEPT !.account = f]
        = [status |-> "terminated", dept |-> d, manager |-> m, role |-> o, account |-> f, origin |-> g]
  BY <1>4
<1>. QED  BY <1>1, <1>3, <1>5, <1>6, <1>7

LEMMA DeactivateWritten ==
  ASSUME People, NEW e \in Present,
         staff' = [staff EXCEPT ![e].status = "terminated", ![e].account = FALSE]
  PROVE  /\ \A x \in Employees : /\ staff'[x].dept = staff[x].dept /\ staff'[x].manager = staff[x].manager
                                 /\ staff'[x].role = staff[x].role /\ staff'[x].origin = staff[x].origin
                                 /\ x # e => staff'[x] = staff[x]
         /\ staff'[e].status = "terminated" /\ staff'[e].account = FALSE
         /\ Present' = Present /\ People' /\ StaffFrame("deactivate")
<1>1. e \in Employees /\ staff[e] \in StaffRow /\ staff \in [Employees -> StaffRow]
  BY DEF Present, People
<1>2. PICK row : row = staff[e]
  OBVIOUS
<1>3. PICK r : r = [status |-> "terminated", dept |-> row.dept, manager |-> row.manager,
                    role |-> row.role, account |-> FALSE, origin |-> row.origin]
  OBVIOUS
<1>4. r \in StaffRow
  BY <1>1, <1>2, <1>3 DEF StaffRow, EmploymentStatus
<1>5. \A x \in Employees : staff'[x] = IF x = e THEN r ELSE staff[x]
  <2>1. staff'[e] = [[row EXCEPT !.status = "terminated"] EXCEPT !.account = FALSE]
    BY <1>1, <1>2
  <2>2. row = [status |-> row.status, dept |-> row.dept, manager |-> row.manager,
               role |-> row.role, account |-> row.account, origin |-> row.origin]
    BY <1>1, <1>2 DEF StaffRow
  <2>3. staff'[e] = r
    <3>1. [[row EXCEPT !.status = "terminated"] EXCEPT !.account = FALSE] = r
      BY <1>3, <2>2, TerminatedRow
    <3>. QED  BY <2>1, <3>1
  <2>. QED  BY <1>1, <2>3
<1>6. staff' \in [Employees -> StaffRow]
  <2>1. DOMAIN staff' = Employees /\ staff' = [x \in Employees |-> staff'[x]]
    BY <1>1
  <2>2. \A x \in Employees : staff'[x] \in StaffRow
    BY <1>1, <1>4, <1>5
  <2>. QED  BY <2>1, <2>2
<1>7. Present' = Present
  BY <1>1, <1>3, <1>5 DEF Present
<1>8. \A x \in Employees : /\ staff'[x].dept = staff[x].dept /\ staff'[x].manager = staff[x].manager
                           /\ staff'[x].role = staff[x].role /\ staff'[x].origin = staff[x].origin
                           /\ x # e => staff'[x] = staff[x]
  <2>1. r.dept = row.dept /\ r.manager = row.manager /\ r.role = row.role /\ r.origin = row.origin
    BY <1>3
  <2>2. SUFFICES ASSUME NEW x \in Employees
                 PROVE  /\ staff'[x].dept = staff[x].dept /\ staff'[x].manager = staff[x].manager
                        /\ staff'[x].role = staff[x].role /\ staff'[x].origin = staff[x].origin
                        /\ x # e => staff'[x] = staff[x]
    OBVIOUS
  <2>3. PICK q : q = staff'[x]
    OBVIOUS
  <2>4. CASE x = e
    <3>1. q = r /\ staff[x] = row
      BY <1>2, <1>5, <2>3, <2>4
    <3>. QED  BY <2>1, <2>3, <2>4, <3>1
  <2>5. CASE x # e
    BY <1>5, <2>3, <2>5
  <2>. QED  BY <2>4, <2>5
<1>9. staff'[e].status = "terminated" /\ staff'[e].account = FALSE
  BY <1>1, <1>3, <1>5
<1>10. People'
  <2>1. \A x \in Employees : staff'[x].status = "absent" => staff'[x] = Absent
    BY <1>8, <1>9 DEF People
  <2>2. \A x \in Present : staff'[x].manager \in Present \cup {Nil}
    BY <1>8 DEF People, Present
  <2>. QED  BY <1>6, <1>7, <2>1, <2>2 DEF People
<1>11. StaffFrame("deactivate")
  BY <1>7, <1>8 DEF StaffFrame, Present
<1>. QED  BY <1>7, <1>8, <1>9, <1>10, <1>11

LEMMA DeactivateWrites ==
  ASSUME OrgInv, NEW s \in Sessions, DeactivateWrite(s), UNCHANGED register
  PROVE  OrgInv'
<1>1. CallOk(calls[s]) /\ calls[s] # AtRest /\ calls[s].op = "deactivate" /\ Args(s) = calls[s].args
  BY UnderWayAt DEF OrgInv, DeactivateWrite
<1>2. PICK e : e = Args(s).e
  OBVIOUS
<1>3. e \in Present
  BY <1>1, <1>2 DEF CallOk, DeactivateOk
<1>4. /\ staff' = [staff EXCEPT ![e].status = "terminated", ![e].account = FALSE] /\ Commit(s)
      /\ UNCHANGED <<enabled, asset, action, job, active>>
  BY <1>2 DEF DeactivateWrite
<1>5. /\ \A x \in Employees : staff'[x].origin = staff[x].origin
      /\ People' /\ StaffFrame("deactivate")
  BY <1>3, <1>4, DeactivateWritten DEF OrgInv
<1>6. ImportIsAllOrNothing'
  <2>1. \A x \in FileRows : staff'[x].origin = staff[x].origin
    BY <1>5, OrganizationAssumption DEF FileRows
  <2>2. {x \in FileRows : staff'[x].origin = "import"} = {x \in FileRows : staff[x].origin = "import"}
    BY <2>1
  <2>. QED  BY <1>4, <2>2 DEF OrgInv, ImportIsAllOrNothing
<1>7. \A t \in Sessions \ {s} : At(t, "assign", "promote") =>
        \A x \in Args(t).held : staff'[x].role = "department_manager"
  BY <1>5, RolesStay DEF OrgInv
<1>8. "deactivate" \in Operations
  BY DEF Operations
<1>. QED  BY <1>1, <1>4, <1>5, <1>6, <1>7, <1>8, StaffCommits

\* A commit of neither the directory, the assets nor the registers.
LEMMA OtherCommits ==
  ASSUME OrgInv, NEW s \in Sessions, calls[s] # AtRest, NEW o \in Operations, calls[s].op = o,
         o # "confirm", Commit(s), UNCHANGED <<staff, asset, job, register>>,
         o = "department" \/ enabled' = enabled,
         enabled' \in [Departments -> BOOLEAN], active' \in BOOLEAN,
         action' \in [status : {"none", "pending", "resolved"}, assignee : Employees \cup {Nil},
                      answer : Employees \cup {Company, Nil}]
  PROVE  OrgInv'
<1>1. AssetFrame(o) /\ asset' \in [Assets -> AssetRow] /\ AssignedHasHolder'
      /\ \A x \in Assets : asset'[x].version <= asset[x].version + 1
  BY AssetStays DEF OrgInv
<1>2. RegisterFrame(o) /\ \A k \in Kinds, i \in Entries : register'[k][i].version <= register[k][i].version + 1
  BY RegisterStays DEF OrgInv
<1>3. People' /\ StaffFrame(o) /\ Present' = Present /\ ImportIsAllOrNothing'
  BY StaffStays DEF OrgInv
<1>4. Frame(o)
  BY <1>1, <1>2, <1>3 DEF Frame
<1>5. Kept'
  <2>1. Kept /\ Present \subseteq Present' /\ stops' = stops
    BY <1>3 DEF OrgInv, Commit
  <2>2. /\ register' \in [Kinds -> [Entries -> {Missing} \cup KeptRow]] /\ stops' \in 0..MaxStops
        /\ job' \in [Jobs -> ImportJobStatus]
        /\ \A j \in Jobs : job'[j] \in {"ready", "processing"} => job[j] \in {"ready", "processing"}
    BY <2>1 DEF Kept
  <2>. QED  BY <1>1, <2>1, <2>2, KeptOn
<1>6. \A t \in Sessions \ {s} : At(t, "assign", "promote") =>
        \A x \in Args(t).held : staff'[x].role = "department_manager"
  <2>1. ASSUME NEW t \in Sessions, At(t, "assign", "promote")
        PROVE  \A x \in Args(t).held : staff[x].role = "department_manager"
    <3>1. CallOk(calls[t])
      BY DEF OrgInv, UnderWay
    <3>. QED  BY <2>1, <3>1 DEF CallOk, AssignOk, At, Args
  <2>. QED  BY <2>1
<1>7. \A j \in Jobs : job'[j] = "processing" =>
        job[j] = "processing" /\ ~(At(s, "confirm", "rows") /\ Args(s).e = j)
  BY DEF At
<1>. QED  BY <1>1, <1>2, <1>3, <1>4, <1>5, <1>6, <1>7, Committed

LEMMA DepartmentWrites ==
  ASSUME OrgInv, NEW s \in Sessions, DepartmentWrite(s), UNCHANGED register
  PROVE  OrgInv'
<1>1. CallOk(calls[s]) /\ calls[s] # AtRest /\ calls[s].op = "department" /\ Args(s) = calls[s].args
  BY UnderWayAt DEF OrgInv, DepartmentWrite
<1>2. PICK a : a = Args(s)
  OBVIOUS
<1>3. a.e \in Departments /\ a.on \in BOOLEAN
  BY <1>1, <1>2 DEF CallOk, DepartmentOk
<1>4. enabled' = [enabled EXCEPT ![a.e] = a.on]
  BY <1>2 DEF DepartmentWrite
<1>5. Commit(s) /\ UNCHANGED <<staff, asset, action, job, active>>
  BY DEF DepartmentWrite
<1>6. enabled' \in [Departments -> BOOLEAN]
  BY <1>3, <1>4 DEF OrgInv, Kept
<1>7. /\ active' \in BOOLEAN
      /\ action' \in [status : {"none", "pending", "resolved"}, assignee : Employees \cup {Nil},
                      answer : Employees \cup {Company, Nil}]
  BY <1>5 DEF OrgInv, Kept
<1>8. "department" \in Operations
  BY DEF Operations
<1>. QED  BY <1>1, <1>5, <1>6, <1>7, <1>8, OtherCommits

LEMMA ActivateWrites ==
  ASSUME OrgInv, NEW s \in Sessions, ActivateWrite(s), UNCHANGED register
  PROVE  OrgInv'
<1>1. calls[s] # AtRest /\ calls[s].op = "activate"
  BY UnderWayAt DEF OrgInv, ActivateWrite
<1>2. Commit(s) /\ active' = TRUE /\ UNCHANGED <<staff, enabled, asset, action, job>>
  BY DEF ActivateWrite
<1>3. /\ active' \in BOOLEAN /\ enabled' \in [Departments -> BOOLEAN]
      /\ action' \in [status : {"none", "pending", "resolved"}, assignee : Employees \cup {Nil},
                      answer : Employees \cup {Company, Nil}]
  BY <1>2 DEF OrgInv, Kept
<1>4. "activate" \in Operations
  BY DEF Operations
<1>. QED  BY <1>1, <1>2, <1>3, <1>4, OtherCommits

LEMMA AnswerWrites ==
  ASSUME OrgInv, NEW s \in Sessions, AnswerWrite(s), UNCHANGED register
  PROVE  OrgInv'
<1>1. CallOk(calls[s]) /\ calls[s] # AtRest /\ calls[s].op = "answer" /\ Args(s) = calls[s].args
  BY UnderWayAt DEF OrgInv, AnswerWrite
<1>2. CASE ~StillPending /\ Refuse(s)
  <2>1. ~At(s, "confirm", "rows")
    BY <1>1 DEF At
  <2>. QED  BY <1>1, <1>2, <2>1, Refused
<1>3. CASE /\ action' = [action EXCEPT !.status = "resolved", !.answer = Args(s).e]
           /\ Commit(s) /\ UNCHANGED <<staff, enabled, asset, job, active>>
  <2>1. PICK p : p = Args(s).e
    OBVIOUS
  <2>2. p \in Employees \cup {Company}
    BY <1>1, <2>1 DEF CallOk, AnswerOk
  <2>3. action' = [action EXCEPT !.status = "resolved", !.answer = p]
    BY <1>3, <2>1
  <2>4. action' \in [status : {"none", "pending", "resolved"}, assignee : Employees \cup {Nil},
                     answer : Employees \cup {Company, Nil}]
    BY <2>2, <2>3 DEF OrgInv, Kept
  <2>5. active' \in BOOLEAN /\ enabled' \in [Departments -> BOOLEAN]
    BY <1>3 DEF OrgInv, Kept
  <2>6. "answer" \in Operations
    BY DEF Operations
  <2>. QED  BY <1>1, <1>3, <2>4, <2>5, <2>6, OtherCommits
<1>. QED  BY <1>2, <1>3 DEF AnswerWrite

\* A commit of the assets.
LEMMA AssetCommits ==
  ASSUME OrgInv, NEW s \in Sessions, calls[s] # AtRest, NEW o \in Operations, calls[s].op = o,
         o # "confirm", Commit(s), UNCHANGED <<staff, enabled, action, job, active, register>>,
         AssetFrame(o), asset' \in [Assets -> AssetRow], AssignedHasHolder',
         \A x \in Assets : asset'[x].version <= asset[x].version + 1
  PROVE  OrgInv'
<1>2. RegisterFrame(o) /\ \A k \in Kinds, i \in Entries : register'[k][i].version <= register[k][i].version + 1
  BY RegisterStays DEF OrgInv
<1>3. People' /\ StaffFrame(o) /\ Present' = Present /\ ImportIsAllOrNothing'
  BY StaffStays DEF OrgInv
<1>4. Frame(o)
  BY <1>2, <1>3 DEF Frame
<1>5. Kept'
  <2>1. Kept /\ Present \subseteq Present' /\ stops' = stops
    BY <1>3 DEF OrgInv, Commit
  <2>2. /\ register' \in [Kinds -> [Entries -> {Missing} \cup KeptRow]] /\ stops' \in 0..MaxStops
        /\ enabled' \in [Departments -> BOOLEAN] /\ active' \in BOOLEAN
        /\ action' \in [status : {"none", "pending", "resolved"}, assignee : Employees \cup {Nil},
                        answer : Employees \cup {Company, Nil}]
        /\ job' \in [Jobs -> ImportJobStatus]
        /\ \A j \in Jobs : job'[j] \in {"ready", "processing"} => job[j] \in {"ready", "processing"}
    BY <2>1 DEF Kept
  <2>. QED  BY <2>1, <2>2, KeptOn
<1>6. \A t \in Sessions \ {s} : At(t, "assign", "promote") =>
        \A x \in Args(t).held : staff'[x].role = "department_manager"
  <2>1. ASSUME NEW t \in Sessions, At(t, "assign", "promote")
        PROVE  \A x \in Args(t).held : staff[x].role = "department_manager"
    <3>1. CallOk(calls[t])
      BY DEF OrgInv, UnderWay
    <3>. QED  BY <2>1, <3>1 DEF CallOk, AssignOk, At, Args
  <2>. QED  BY <2>1
<1>7. \A j \in Jobs : job'[j] = "processing" =>
        job[j] = "processing" /\ ~(At(s, "confirm", "rows") /\ Args(s).e = j)
  BY DEF At
<1>. QED  BY <1>2, <1>3, <1>4, <1>5, <1>6, <1>7, Committed

\* What an edit makes of an asset.
LEMMA ApplyAsset ==
  ASSUME NEW row \in AssetRow, NEW change \in ValidChange, NEW v \in Nat
  PROVE  \E r \in AssetRow :
           /\ r = [Apply(row, change) EXCEPT !.version = v + 1]
           /\ r.version = v + 1 /\ r.status = change.status
           /\ r.status = "assigned" => r.holder = change.holder /\ r.holder \in Employees
<1>1. DOMAIN row = {"status", "holder", "version"} /\ row.holder \in Employees \cup {Nil}
  BY DEF AssetRow
<1>2. /\ DOMAIN change \in {{"status"}, {"holder", "status"}} /\ change.status \in AssetStatus
      /\ "holder" \in DOMAIN change => change.holder \in Employees \cup {Nil}
      /\ change.status = "assigned" => "holder" \in DOMAIN change /\ change.holder \in Employees
  BY DEF ValidChange, AssetStatus
<1>3. PICK h : h = IF "holder" \in DOMAIN change THEN change.holder ELSE row.holder
  OBVIOUS
<1>4. h \in Employees \cup {Nil} /\ (change.status = "assigned" => h = change.holder /\ h \in Employees)
  BY <1>1, <1>2, <1>3
<1>5. PICK st : st = change.status
  OBVIOUS
<1>6. PICK y : y = Apply(row, change)
  OBVIOUS
<1>7. y = [f \in {"status", "holder", "version"} |-> IF f \in DOMAIN change THEN change[f] ELSE row[f]]
  BY <1>1, <1>6 DEF Apply
<1>8. y = [status |-> st, holder |-> h, version |-> row.version]
  BY <1>2, <1>3, <1>5, <1>7
<1>9. PICK w : w = v + 1
  OBVIOUS
<1>10. [y EXCEPT !.version = w] = [status |-> st, holder |-> h, version |-> w]
  BY <1>8
<1>11. PICK r : r = [status |-> st, holder |-> h, version |-> w]
  OBVIOUS
<1>14. r = [Apply(row, change) EXCEPT !.version = v + 1]
  BY <1>6, <1>9, <1>10, <1>11
<1>12. w \in Nat \ {0} /\ st \in AssetStatus
  BY <1>2, <1>5, <1>9
<1>13. r \in AssetRow
  BY <1>4, <1>11, <1>12 DEF AssetRow
<1>15. r.version = w /\ r.status = st /\ r.holder = h
  BY <1>11
<1>. QED  BY <1>4, <1>5, <1>9, <1>13, <1>14, <1>15

LEMMA AssetWritten ==
  ASSUME Kept, NEW x \in Assets, NEW change \in ValidChange, NEW v, v = asset[x].version,
         asset' = [asset EXCEPT ![x] = [Apply(@, change) EXCEPT !.version = v + 1]]
  PROVE  /\ \A y \in Assets \ {x} : asset'[y] = asset[y]
         /\ asset'[x].status = change.status /\ asset'[x].version = asset[x].version + 1
         /\ asset'[x].status = "assigned" => asset'[x].holder = change.holder
         /\ asset' \in [Assets -> AssetRow] /\ AssignedHasHolder' /\ AssetFrame("asset")
         /\ \A y \in Assets : asset'[y].version <= asset[y].version + 1
<1>1. asset \in [Assets -> AssetRow] /\ \A y \in Assets : asset[y].version \in Nat
  BY DEF Kept, AssetRow
<1>2. PICK row : row = asset[x]
  OBVIOUS
<1>4. row \in AssetRow /\ v \in Nat
  BY <1>1, <1>2
<1>5. PICK r \in AssetRow :
        /\ r = [Apply(row, change) EXCEPT !.version = v + 1]
        /\ r.version = v + 1 /\ r.status = change.status
        /\ r.status = "assigned" => r.holder = change.holder /\ r.holder \in Employees
  BY <1>4, ApplyAsset
<1>6. asset' = [asset EXCEPT ![x] = r]
  BY <1>2, <1>5
<1>7. asset'[x] = r /\ (\A y \in Assets \ {x} : asset'[y] = asset[y]) /\ asset' \in [Assets -> AssetRow]
  BY <1>1, <1>5, <1>6
<1>8. AssignedHasHolder'
  <2>1. Nil \notin Employees
    BY OrganizationAssumption
  <2>2. r.status = "assigned" => r.holder # Nil
    BY <1>5, <2>1
  <2>3. \A y \in Assets : asset[y].status = "assigned" => asset[y].holder # Nil
    BY DEF Kept, AssignedHasHolder
  <2>4. \A y \in Assets : asset'[y].status = "assigned" => asset'[y].holder # Nil
    BY <1>7, <2>2, <2>3
  <2>. QED  BY <2>4 DEF AssignedHasHolder
<1>9. \A y \in Assets : /\ asset'[y].version <= asset[y].version + 1 /\ asset[y].version <= asset'[y].version
                        /\ asset'[y] = asset[y] \/ asset[y].version < asset'[y].version
  <2>1. SUFFICES ASSUME NEW y \in Assets
                 PROVE  /\ asset'[y].version <= asset[y].version + 1 /\ asset[y].version <= asset'[y].version
                        /\ asset'[y] = asset[y] \/ asset[y].version < asset'[y].version
    OBVIOUS
  <2>2. CASE y = x
    BY <1>1, <1>4, <1>5, <1>7, <2>2
  <2>3. CASE y # x
    <3>1. asset'[y] = asset[y] /\ asset[y].version \in Nat
      BY <1>1, <1>7, <2>3
    <3>. QED  BY <3>1
  <2>. QED  BY <2>2, <2>3
<1>10. AssetFrame("asset")
  BY <1>9 DEF AssetFrame
<1>11. asset'[x].version = asset[x].version + 1
  BY <1>5, <1>7
<1>. QED  BY <1>5, <1>7, <1>8, <1>9, <1>10, <1>11

LEMMA AssetWrites ==
  ASSUME OrgInv, NEW s \in Sessions, AssetWrite(s), UNCHANGED register
  PROVE  OrgInv'
<1>1. CallOk(calls[s]) /\ calls[s] # AtRest /\ calls[s].op = "asset" /\ Args(s) = calls[s].args
  BY UnderWayAt DEF OrgInv, AssetWrite
<1>2. CASE Refuse(s)
  <2>1. ~At(s, "confirm", "rows")
    BY <1>1 DEF At
  <2>. QED  BY <1>1, <1>2, <2>1, Refused
<1>3. CASE /\ SameVersion(Args(s).e, Args(s).version)
           /\ asset' = [asset EXCEPT ![Args(s).e] =
                          [Apply(@, Args(s).change) EXCEPT !.version = Args(s).version + 1]]
           /\ Commit(s) /\ UNCHANGED <<staff, enabled, action, job, active>>
  <2>1. PICK x, change, v : x = Args(s).e /\ change = Args(s).change /\ v = Args(s).version
    OBVIOUS
  <2>2. x \in Assets /\ change \in ValidChange
    BY <1>1, <2>1 DEF CallOk, AssetOk
  <2>3. v = asset[x].version
    BY <1>3, <2>1 DEF SameVersion
  <2>4. asset' = [asset EXCEPT ![x] = [Apply(@, change) EXCEPT !.version = v + 1]]
    BY <1>3, <2>1
  <2>5. /\ asset' \in [Assets -> AssetRow] /\ AssignedHasHolder' /\ AssetFrame("asset")
        /\ \A y \in Assets : asset'[y].version <= asset[y].version + 1
    BY <2>2, <2>3, <2>4, AssetWritten DEF OrgInv
  <2>6. "asset" \in Operations
    BY DEF Operations
  <2>. QED  BY <1>1, <1>3, <2>5, <2>6, AssetCommits
<1>. QED  BY <1>2, <1>3 DEF AssetWrite

LEMMA RetireWritten ==
  ASSUME Kept, NEW x \in Assets, asset' = [asset EXCEPT ![x].status = "retired"]
  PROVE  /\ \A y \in Assets \ {x} : asset'[y] = asset[y]
         /\ asset'[x] = [asset[x] EXCEPT !.status = "retired"]
         /\ asset'[x].status = "retired" /\ asset'[x].version = asset[x].version
         /\ asset'[x].holder = asset[x].holder
         /\ asset' \in [Assets -> AssetRow] /\ AssignedHasHolder' /\ AssetFrame("retire")
         /\ \A y \in Assets : asset'[y].version <= asset[y].version + 1
<1>1. asset \in [Assets -> AssetRow] /\ \A y \in Assets : asset[y].version \in Nat
  BY DEF Kept, AssetRow
<1>2. PICK row : row = asset[x]
  OBVIOUS
<1>3. PICK st, h, v : st = row.status /\ h = row.holder /\ v = row.version
  OBVIOUS
<1>4. row = [status |-> st, holder |-> h, version |-> v] /\ h \in Employees \cup {Nil} /\ v \in Nat \ {0}
  BY <1>1, <1>2, <1>3 DEF AssetRow
<1>5. PICK r : r = [status |-> "retired", holder |-> h, version |-> v]
  OBVIOUS
<1>6. [row EXCEPT !.status = "retired"] = r /\ r \in AssetRow
  BY <1>4, <1>5 DEF AssetRow, AssetStatus
<1>7. asset' = [asset EXCEPT ![x] = r]
  BY <1>1, <1>2, <1>6
<1>8. asset'[x] = r /\ (\A y \in Assets \ {x} : asset'[y] = asset[y]) /\ asset' \in [Assets -> AssetRow]
  BY <1>1, <1>6, <1>7
<1>9. r.status = "retired" /\ r.holder = asset[x].holder /\ r.version = asset[x].version
  BY <1>2, <1>3, <1>5
<1>10. AssignedHasHolder'
  BY <1>8, <1>9 DEF Kept, AssignedHasHolder
<1>11. \A y \in Assets : /\ asset'[y].version = asset[y].version /\ asset'[y].holder = asset[y].holder
                         /\ asset'[y].status = "assigned" => asset[y].status = "assigned"
  BY <1>8, <1>9
<1>12. \A y \in Assets : asset[y].version <= asset'[y].version /\ asset'[y].version <= asset[y].version + 1
  BY <1>1, <1>11
<1>13. AssetFrame("retire")
  BY <1>11, <1>12 DEF AssetFrame
<1>. QED  BY <1>2, <1>6, <1>8, <1>9, <1>10, <1>12, <1>13

LEMMA RetireWrites ==
  ASSUME OrgInv, NEW s \in Sessions, RetireWrite(s), UNCHANGED register
  PROVE  OrgInv'
<1>1. CallOk(calls[s]) /\ calls[s] # AtRest /\ calls[s].op = "retire" /\ Args(s) = calls[s].args
  BY UnderWayAt DEF OrgInv, RetireWrite
<1>2. PICK x : x = Args(s).e
  OBVIOUS
<1>3. x \in Assets
  BY <1>1, <1>2 DEF CallOk, RetireOk
<1>4. /\ asset' = [asset EXCEPT ![x].status = "retired"] /\ Commit(s)
      /\ UNCHANGED <<staff, enabled, action, job, active>>
  BY <1>2 DEF RetireWrite
<1>5. /\ asset' \in [Assets -> AssetRow] /\ AssignedHasHolder' /\ AssetFrame("retire")
      /\ \A y \in Assets : asset'[y].version <= asset[y].version + 1
  BY <1>3, <1>4, RetireWritten DEF OrgInv
<1>6. "retire" \in Operations
  BY DEF Operations
<1>. QED  BY <1>1, <1>4, <1>5, <1>6, AssetCommits

\* The appointment puts the managers it found into its record.
Holding(f, s, p, h) == [f EXCEPT ![s].at = p, ![s].args.held = h]

LEMMA HeldIsSet ==
  ASSUME NEW S, NEW f, f = [t \in S |-> f[t]], NEW s \in S, NEW p, NEW h,
         NEW op, NEW at, NEW since, NEW e, NEW d, NEW g,
         f[s] = [op |-> op, at |-> at, since |-> since, args |-> [e |-> e, dept |-> d, held |-> g]]
  PROVE  \A n : n = [op |-> op, at |-> p, since |-> since, args |-> [e |-> e, dept |-> d, held |-> h]]
                => Holding(f, s, p, h) = [f EXCEPT ![s] = n]
<1>1. PICK a : a = [e |-> e, dept |-> d, held |-> g]
  OBVIOUS
<1>2. PICK b : b = [e |-> e, dept |-> d, held |-> h]
  OBVIOUS
<1>3. [a EXCEPT !.held = h] = b
  BY <1>1, <1>2
<1>4. PICK c : c = [op |-> op, at |-> at, since |-> since, args |-> a]
  OBVIOUS
<1>5. PICK k : k = [op |-> op, at |-> p, since |-> since, args |-> a]
  OBVIOUS
<1>6. PICK n : n = [op |-> op, at |-> p, since |-> since, args |-> b]
  OBVIOUS
<1>7. [c EXCEPT !.at = p] = k
  BY <1>4, <1>5
<1>8. k.args = a /\ [k EXCEPT !.args = b] = n
  BY <1>5, <1>6
<1>9. f[s] = c
  BY <1>1, <1>4
<1>10. [f EXCEPT ![s].at = p] = [f EXCEPT ![s] = k]
  BY <1>7, <1>9
<1>11. PICK z : z = [f EXCEPT ![s] = k]
  OBVIOUS
<1>12. z = [t \in S |-> IF t = s THEN k ELSE f[t]]
  BY <1>11
<1>13. z[s] = k
  BY <1>12
<1>14. [z EXCEPT ![s].args.held = h] = [z EXCEPT ![s] = n]
  BY <1>3, <1>8, <1>13
<1>15. [z EXCEPT ![s] = n] = [t \in S |-> IF t = s THEN n ELSE z[t]]
  BY <1>12
<1>16. [f EXCEPT ![s] = n] = [t \in S |-> IF t = s THEN n ELSE f[t]]
  OBVIOUS
<1>17. [z EXCEPT ![s] = n] = [f EXCEPT ![s] = n]
  BY <1>12, <1>15, <1>16
<1>. QED  BY <1>2, <1>6, <1>10, <1>11, <1>14, <1>17 DEF Holding

\* A call goes on to its next statement, and nothing is committed.
LEMMA Proceeds ==
  ASSUME OrgInv, NEW s \in Sessions, calls[s] # AtRest, calls[s].op # "confirm",
         UNCHANGED <<staff, enabled, asset, action, job, active, made, stops, register>>,
         NEW n, CallOk(n), n # AtRest, calls' = [calls EXCEPT ![s] = n],
         n.op = "assign" /\ n.at = "promote" =>
           \A t \in Sessions \ {s} : At(t, "assign", "promote") => Args(t).held \cap n.args.held = {}
  PROVE  OrgInv'
<1>0. UNCHANGED <<staff, enabled, asset, register>>
  OBVIOUS
<1>1. CallOk(n)'
  BY <1>0, SameReads
<1>2. UnderWay' /\ \A t \in Sessions : calls'[t] = IF t = s THEN n ELSE calls[t]
  BY <1>0, <1>1, OneCallKept DEF OrgInv
<1>3. People' /\ Kept' /\ ImportIsAllOrNothing'
  BY SameRecords DEF OrgInv, Kept
<1>4. VersionsBounded'
  <2>1. Busy' = Busy
    BY <1>2 DEF Busy
  <2>. QED  BY <2>1 DEF OrgInv, VersionsBounded
<1>5. HeldApart'
  BY <1>2 DEF OrgInv, HeldApart, At, Args
<1>6. ProcessingIsHeld'
  BY <1>2 DEF OrgInv, ProcessingIsHeld, At, Args
<1>. QED  BY <1>2, <1>3, <1>4, <1>5, <1>6 DEF OrgInv

\* An appointment at one of its statements.
LEMMA Appointing ==
  ASSUME OrgInv, NEW s \in Sessions, NEW step, At(s, "assign", step)
  PROVE  /\ CallOk(calls[s]) /\ calls[s] # AtRest /\ calls[s].op = "assign" /\ calls[s].at = step
         /\ Args(s) = calls[s].args /\ calls = [t \in Sessions |-> calls[t]]
         /\ calls[s].since \subseteq Operations
         /\ calls[s] = [op |-> "assign", at |-> step, since |-> calls[s].since,
                        args |-> [e |-> Args(s).e, dept |-> Args(s).dept, held |-> Args(s).held]]
         /\ Args(s).e \in Present /\ Args(s).dept \in Departments /\ Args(s).held \subseteq Present
         /\ Untouched(calls[s], {"edit"}) =>
              \A x \in {Args(s).e} \cup Args(s).held : staff[x].dept = Args(s).dept
         /\ step # "demote" /\ Untouched(calls[s], {"assign", "confirm", "edit"}) =>
              Args(s).held = Managers(Args(s).dept)
         /\ step = "promote" => \A x \in Args(s).held : staff[x].role = "department_manager"
<1>1. /\ CallOk(calls[s]) /\ calls[s] # AtRest /\ calls[s].op = "assign" /\ calls[s].at = step
      /\ Args(s) = calls[s].args /\ calls = [t \in Sessions |-> calls[t]]
  BY UnderWayAt DEF OrgInv, UnderWay
<1>2. PICK c : c = calls[s]
  OBVIOUS
<1>3. CallShape(c) /\ AssignOk(c) /\ c.op = "assign" /\ c.at = step
  BY <1>1, <1>2 DEF CallOk
<1>4. /\ c.since \subseteq Operations
      /\ c = [op |-> "assign", at |-> step, since |-> c.since,
              args |-> [e |-> c.args.e, dept |-> c.args.dept, held |-> c.args.held]]
  BY <1>3 DEF CallShape, AssignOk
<1>. QED  BY <1>1, <1>2, <1>3, <1>4 DEF AssignOk

LEMMA AppointDemotes ==
  ASSUME OrgInv, NEW s \in Sessions, AppointDemote(s), UNCHANGED register
  PROVE  OrgInv'
<1>1. At(s, "assign", "demote")
  BY DEF AppointDemote
<1>2. PICK since, e, d, g : since = calls[s].since /\ e = Args(s).e /\ d = Args(s).dept /\ g = Args(s).held
  OBVIOUS
<1>3. /\ calls[s] # AtRest /\ calls[s].op = "assign" /\ calls = [t \in Sessions |-> calls[t]]
      /\ since \subseteq Operations
      /\ calls[s] = [op |-> "assign", at |-> "demote", since |-> since, args |-> [e |-> e, dept |-> d, held |-> g]]
      /\ e \in Present /\ d \in Departments
      /\ Untouched(calls[s], {"edit"}) => staff[e].dept = d
  BY <1>1, <1>2, Appointing
<1>4. PICK h : h = Managers(d)
  OBVIOUS
<1>5. PICK n : n = [op |-> "assign", at |-> "lock", since |-> since, args |-> [e |-> e, dept |-> d, held |-> h]]
  OBVIOUS
<1>6. calls' = [calls EXCEPT ![s] = n]
  <2>1. calls' = [calls EXCEPT ![s].at = "lock", ![s].args.held = h]
    BY <1>2, <1>4 DEF AppointDemote
  <2>2. PICK f : f = calls
    OBVIOUS
  <2>3. PICK S : S = Sessions
    OBVIOUS
  <2>4. /\ f = [t \in S |-> f[t]] /\ s \in S
        /\ f[s] = [op |-> "assign", at |-> "demote", since |-> since, args |-> [e |-> e, dept |-> d, held |-> g]]
    BY <1>3, <2>2, <2>3
  <2>5. Holding(f, s, "lock", h) = [f EXCEPT ![s] = n]
    BY <1>5, <2>4, HeldIsSet
  <2>. QED  BY <2>1, <2>2, <2>5 DEF Holding
<1>7. n.op = "assign" /\ n.at = "lock" /\ n.since = since /\ n.args = [e |-> e, dept |-> d, held |-> h] /\ n # AtRest
  BY <1>5 DEF AtRest
<1>8. CallShape(n)
  BY <1>3, <1>5, <1>7 DEF CallShape, Operations
<1>9. AssignOk(n)
  <2>1. h \subseteq Present /\ \A x \in h : staff[x].dept = d
    BY <1>4 DEF Managers
  <2>2. Untouched(n, {"edit"}) => staff[e].dept = d
    BY <1>2, <1>3, <1>7 DEF Untouched
  <2>3. PICK a : a = [e |-> e, dept |-> d, held |-> h]
    OBVIOUS
  <2>4. a.e = e /\ a.dept = d /\ a.held = h /\ a = [e |-> a.e, dept |-> a.dept, held |-> a.held]
    BY <2>3
  <2>. QED  BY <1>3, <1>4, <1>7, <2>1, <2>2, <2>3, <2>4 DEF AssignOk
<1>10. CallOk(n)
  BY <1>7, <1>8, <1>9, OtherKinds DEF CallOk
<1>11. UNCHANGED <<staff, enabled, asset, action, job, active, made, stops, register>>
  BY DEF AppointDemote
<1>. QED  BY <1>3, <1>6, <1>7, <1>10, <1>11, Proceeds

LEMMA AppointLocks ==
  ASSUME OrgInv, NEW s \in Sessions, AppointLock(s), UNCHANGED register
  PROVE  OrgInv'
<1>1. At(s, "assign", "lock") /\ ~Waits(s)
  BY DEF AppointLock
<1>2. PICK since, e, d, g : since = calls[s].since /\ e = Args(s).e /\ d = Args(s).dept /\ g = Args(s).held
  OBVIOUS
<1>3. /\ calls[s] # AtRest /\ calls[s].op = "assign" /\ calls[s].at = "lock"
      /\ calls = [t \in Sessions |-> calls[t]] /\ since \subseteq Operations
      /\ calls[s] = [op |-> "assign", at |-> "lock", since |-> since, args |-> [e |-> e, dept |-> d, held |-> g]]
      /\ e \in Present /\ d \in Departments /\ g \subseteq Present
      /\ Untouched(calls[s], {"edit"}) => \A x \in {e} \cup g : staff[x].dept = d
      /\ Untouched(calls[s], {"assign", "confirm", "edit"}) => g = Managers(d)
  BY <1>1, <1>2, Appointing
<1>4. PICK h : h = {x \in g : staff[x].role = "department_manager"}
  OBVIOUS
<1>5. PICK n : n = [op |-> "assign", at |-> "promote", since |-> since,
                    args |-> [e |-> e, dept |-> d, held |-> h]]
  OBVIOUS
<1>6. calls' = [calls EXCEPT ![s] = n]
  <2>1. calls' = [calls EXCEPT ![s].at = "promote", ![s].args.held = h]
    BY <1>1, <1>2, <1>3, <1>4 DEF AppointLock, Args
  <2>2. PICK f : f = calls
    OBVIOUS
  <2>3. PICK S : S = Sessions
    OBVIOUS
  <2>4. /\ f = [t \in S |-> f[t]] /\ s \in S
        /\ f[s] = [op |-> "assign", at |-> "lock", since |-> since, args |-> [e |-> e, dept |-> d, held |-> g]]
    BY <1>3, <2>2, <2>3
  <2>5. Holding(f, s, "promote", h) = [f EXCEPT ![s] = n]
    BY <1>5, <2>4, HeldIsSet
  <2>. QED  BY <2>1, <2>2, <2>5 DEF Holding
<1>7. /\ n.op = "assign" /\ n.at = "promote" /\ n.since = since
      /\ n.args = [e |-> e, dept |-> d, held |-> h] /\ n # AtRest
  BY <1>5 DEF AtRest
<1>8. CallShape(n)
  BY <1>3, <1>5, <1>7 DEF CallShape, Operations
<1>9. AssignOk(n)
  <2>1. h \subseteq Present /\ h \subseteq g /\ \A x \in h : staff[x].role = "department_manager"
    BY <1>3, <1>4
  <2>2. \A K : Untouched(n, K) <=> Untouched(calls[s], K)
    BY <1>2, <1>7 DEF Untouched
  <2>3. Untouched(n, {"edit"}) => \A x \in {e} \cup h : staff[x].dept = d
    BY <1>3, <2>1, <2>2
  <2>4. Untouched(n, {"assign", "confirm", "edit"}) => h = Managers(d)
    <3>1. \A x \in Managers(d) : staff[x].role = "department_manager"
      BY DEF Managers
    <3>. QED  BY <1>3, <1>4, <2>2, <3>1
  <2>5. PICK a : a = [e |-> e, dept |-> d, held |-> h]
    OBVIOUS
  <2>6. a.e = e /\ a.dept = d /\ a.held = h /\ a = [e |-> a.e, dept |-> a.dept, held |-> a.held]
    BY <2>5
  <2>. QED  BY <1>3, <1>7, <2>1, <2>3, <2>4, <2>5, <2>6 DEF AssignOk
<1>10. CallOk(n)
  BY <1>7, <1>8, <1>9, OtherKinds DEF CallOk
<1>11. UNCHANGED <<staff, enabled, asset, action, job, active, made, stops, register>>
  BY DEF AppointLock
<1>12. \A t \in Sessions \ {s} : At(t, "assign", "promote") => Args(t).held \cap n.args.held = {}
  <2>1. Wanted(s) = g
    BY <1>1, <1>2 DEF Wanted, At
  <2>2. g \cap Locked(s) = {} /\ h \subseteq g
    BY <1>1, <1>4, <2>1 DEF Waits
  <2>3. \A t \in Sessions \ {s} : At(t, "assign", "promote") => Args(t).held \subseteq Locked(s)
    BY DEF Locked
  <2>4. n.args.held = h
    BY <1>7
  <2>. QED  BY <2>2, <2>3, <2>4
<1>. QED  BY <1>3, <1>6, <1>7, <1>10, <1>11, <1>12, Proceeds

\* A row whose role alone is set.
LEMMA RoleSet ==
  ASSUME NEW row \in StaffRow, NEW ro \in {"employee", "department_manager"}
  PROVE  \E r \in StaffRow : /\ r = [row EXCEPT !.role = ro] /\ r.role = ro
                             /\ r.status = row.status /\ r.dept = row.dept /\ r.manager = row.manager
                             /\ r.account = row.account /\ r.origin = row.origin
<1>1. PICK st, d, m, o, ac, g :
        /\ row = [status |-> st, dept |-> d, manager |-> m, role |-> o, account |-> ac, origin |-> g]
        /\ st = row.status /\ d = row.dept /\ m = row.manager /\ ac = row.account /\ g = row.origin
  BY DEF StaffRow
<1>2. PICK r : r = [status |-> st, dept |-> d, manager |-> m, role |-> ro, account |-> ac, origin |-> g]
  OBVIOUS
<1>3. r = [row EXCEPT !.role = ro]
  BY <1>1, <1>2
<1>4. r \in StaffRow
  <2>1. /\ st \in EmploymentStatus \cup {"absent"} /\ d \in Departments \cup {Nil}
        /\ m \in Employees \cup {Nil} /\ ac \in BOOLEAN /\ g \in {"none", "hire", "import"}
    BY <1>1 DEF StaffRow
  <2>. QED  BY <1>2, <2>1 DEF StaffRow
<1>5. /\ r.role = ro /\ r.status = st /\ r.dept = d /\ r.manager = m /\ r.account = ac /\ r.origin = g
  BY <1>2
<1>. QED  BY <1>1, <1>3, <1>4, <1>5

Promoted(e, held) == [x \in Employees |->
     IF x = e THEN [staff[x] EXCEPT !.role = "department_manager"]
     ELSE IF x \in held THEN [staff[x] EXCEPT !.role = "employee"]
     ELSE staff[x]]

LEMMA PromoteWritten ==
  ASSUME People, NEW e \in Present, NEW held \in SUBSET Present,
         staff' = Promoted(e, held)
  PROVE  /\ \A x \in Employees :
              /\ staff'[x].status = staff[x].status /\ staff'[x].dept = staff[x].dept
              /\ staff'[x].manager = staff[x].manager /\ staff'[x].account = staff[x].account
              /\ staff'[x].origin = staff[x].origin
              /\ staff'[x].role = IF x = e THEN "department_manager"
                                  ELSE IF x \in held THEN "employee" ELSE staff[x].role
         /\ Present' = Present /\ People' /\ StaffFrame("assign")
<1>1. staff \in [Employees -> StaffRow] /\ e \in Employees
  BY DEF People, Present
<1>0. staff' = [x \in Employees |->
                     IF x = e THEN [staff[x] EXCEPT !.role = "department_manager"]
                     ELSE IF x \in held THEN [staff[x] EXCEPT !.role = "employee"]
                     ELSE staff[x]]
  BY DEF Promoted
<1>2. \A x \in Employees :
        /\ staff'[x] \in StaffRow /\ (x # e /\ x \notin held => staff'[x] = staff[x])
        /\ staff'[x].status = staff[x].status /\ staff'[x].dept = staff[x].dept
        /\ staff'[x].manager = staff[x].manager /\ staff'[x].account = staff[x].account
        /\ staff'[x].origin = staff[x].origin
        /\ staff'[x].role = IF x = e THEN "department_manager"
                            ELSE IF x \in held THEN "employee" ELSE staff[x].role
  <2>1. SUFFICES ASSUME NEW x \in Employees
        PROVE
        /\ staff'[x] \in StaffRow /\ (x # e /\ x \notin held => staff'[x] = staff[x])
        /\ staff'[x].status = staff[x].status /\ staff'[x].dept = staff[x].dept
        /\ staff'[x].manager = staff[x].manager /\ staff'[x].account = staff[x].account
        /\ staff'[x].origin = staff[x].origin
        /\ staff'[x].role = IF x = e THEN "department_manager"
                            ELSE IF x \in held THEN "employee" ELSE staff[x].role
    OBVIOUS
  <2>2. PICK row : row = staff[x] /\ row \in StaffRow
    BY <1>1
  <2>3. CASE x = e
    <3>1. PICK r \in StaffRow : /\ r = [row EXCEPT !.role = "department_manager"] /\ r.role = "department_manager"
                                /\ r.status = row.status /\ r.dept = row.dept /\ r.manager = row.manager
                                /\ r.account = row.account /\ r.origin = row.origin
      BY <2>2, RoleSet
    <3>2. staff'[x] = r
      BY <1>0, <2>2, <2>3, <3>1
    <3>. QED  BY <2>2, <2>3, <3>1, <3>2
  <2>4. CASE x # e /\ x \in held
    <3>1. PICK r \in StaffRow : /\ r = [row EXCEPT !.role = "employee"] /\ r.role = "employee"
                                /\ r.status = row.status /\ r.dept = row.dept /\ r.manager = row.manager
                                /\ r.account = row.account /\ r.origin = row.origin
      BY <2>2, RoleSet
    <3>2. staff'[x] = r
      BY <1>0, <2>2, <2>4, <3>1
    <3>. QED  BY <2>2, <2>4, <3>1, <3>2
  <2>5. CASE x # e /\ x \notin held
    <3>1. staff'[x] = row
      BY <1>0, <2>2, <2>5
    <3>. QED  BY <2>2, <2>5, <3>1
  <2>. QED  BY <2>3, <2>4, <2>5
<1>3. staff' \in [Employees -> StaffRow]
  <2>1. staff' = [x \in Employees |-> staff'[x]]
    BY <1>0
  <2>2. \A x \in Employees : staff'[x] \in StaffRow
    BY <1>2
  <2>3. PICK f : f = staff'
    OBVIOUS
  <2>. QED  BY <2>1, <2>2, <2>3
<1>4. Present' = Present
  BY <1>2 DEF Present
<1>5. People'
  <2>1. \A x \in Employees : staff'[x].status = "absent" => staff'[x] = Absent
    BY <1>2 DEF People, Present
  <2>2. \A x \in Present : staff'[x].manager \in Present \cup {Nil}
    BY <1>2 DEF People, Present
  <2>. QED  BY <1>3, <1>4, <2>1, <2>2 DEF People
<1>6. StaffFrame("assign")
  BY <1>2, <1>4 DEF StaffFrame, Present
<1>. QED  BY <1>2, <1>4, <1>5, <1>6

LEMMA AppointPromotes ==
  ASSUME OrgInv, NEW s \in Sessions, AppointPromote(s), UNCHANGED register
  PROVE  OrgInv'
<1>1. At(s, "assign", "promote")
  BY DEF AppointPromote
<1>2. /\ calls[s] # AtRest /\ calls[s].op = "assign" /\ Args(s).e \in Present /\ Args(s).held \subseteq Present
  BY <1>1, Appointing
<1>3. CASE Refuse(s)
  <2>1. ~At(s, "confirm", "rows")
    BY <1>2 DEF At
  <2>. QED  BY <1>2, <1>3, <2>1, Refused
<1>4. CASE ~Refuse(s)
  <2>1. PICK e, held : e = Args(s).e /\ held = Args(s).held
    OBVIOUS
  <2>2. /\ staff' = Promoted(e, held)
        /\ Commit(s) /\ UNCHANGED <<enabled, asset, action, job, active>>
    BY <1>4, <2>1 DEF AppointPromote, Promoted
  <2>3. /\ \A x \in Employees : staff'[x].origin = staff[x].origin
        /\ \A x \in Employees : staff'[x].role = IF x = e THEN "department_manager"
                                  ELSE IF x \in held THEN "employee" ELSE staff[x].role
        /\ People' /\ StaffFrame("assign")
    <3>1. People /\ e \in Present /\ held \in SUBSET Present
      BY <1>2, <2>1 DEF OrgInv
    <3>. QED  BY <2>2, <3>1, PromoteWritten
  <2>4. ImportIsAllOrNothing'
    <3>1. \A x \in FileRows : staff'[x].origin = staff[x].origin
      BY <2>3, OrganizationAssumption DEF FileRows
    <3>2. {x \in FileRows : staff'[x].origin = "import"} = {x \in FileRows : staff[x].origin = "import"}
      BY <3>1
    <3>. QED  BY <2>2, <3>2 DEF OrgInv, ImportIsAllOrNothing
  <2>5. ASSUME NEW t \in Sessions \ {s}, At(t, "assign", "promote")
        PROVE  \A x \in Args(t).held : staff'[x].role = "department_manager"
    <3>1. Args(t).held \cap held = {}
      BY <1>1, <2>1, <2>5 DEF OrgInv, HeldApart
    <3>2. Args(t).held \subseteq Present /\ \A x \in Args(t).held : staff[x].role = "department_manager"
      BY <2>5, Appointing
    <3>. QED  BY <2>3, <3>1, <3>2 DEF Present
  <2>6. "assign" \in Operations
    BY DEF Operations
  <2>. QED  BY <1>2, <2>2, <2>3, <2>4, <2>5, <2>6, StaffCommits
<1>. QED  BY <1>3, <1>4

LEMMA ConfirmStarts ==
  ASSUME OrgInv, NEW s \in Sessions, ConfirmStart(s), UNCHANGED register
  PROVE  OrgInv'
<1>1. /\ CallOk(calls[s]) /\ calls[s] # AtRest /\ calls[s].op = "confirm" /\ calls[s].at = "start"
      /\ Args(s) = calls[s].args
  BY UnderWayAt DEF OrgInv, ConfirmStart
<1>2. PICK c : c = calls[s]
  OBVIOUS
<1>3. PICK j : j = c.args.e
  OBVIOUS
<1>4. /\ c = [op |-> c.op, at |-> c.at, since |-> c.since, args |-> c.args] /\ c.since \subseteq Operations
      /\ j \in Jobs /\ ManagersKnown
  BY <1>1, <1>2, <1>3 DEF CallOk, CallShape, ConfirmOk
<1>5. PICK n : n = [op |-> "confirm", at |-> "rows", since |-> c.since, args |-> c.args]
  OBVIOUS
<1>6. n = [calls[s] EXCEPT !.at = "rows"]
  <2>1. PICK since, args : since = c.since /\ args = c.args
    OBVIOUS
  <2>2. PICK z : z = [op |-> "confirm", at |-> "start", since |-> since, args |-> args]
    OBVIOUS
  <2>3. c = z
    BY <1>1, <1>2, <1>4, <2>1, <2>2
  <2>4. [z EXCEPT !.at = "rows"] = [op |-> "confirm", at |-> "rows", since |-> since, args |-> args]
    BY <2>2
  <2>. QED  BY <1>2, <1>5, <2>1, <2>3, <2>4
<1>7. n.op = "confirm" /\ n.at = "rows" /\ n.since = c.since /\ n.args = c.args /\ n # AtRest
  BY <1>5 DEF AtRest
<1>8. CallOk(n)
  <2>1. CallShape(n)
    BY <1>4, <1>5, <1>7 DEF CallShape, Operations
  <2>2. ConfirmOk(n)
    BY <1>3, <1>4, <1>7 DEF ConfirmOk
  <2>. QED  BY <1>7, <2>1, <2>2, OtherKinds DEF CallOk
<1>9. /\ job' = [job EXCEPT ![j] = "processing"] /\ Overtake(s, n)
      /\ UNCHANGED <<staff, enabled, asset, action, active, made, stops>>
  BY <1>1, <1>2, <1>3, <1>6 DEF ConfirmStart
<1>10. CallOk(n)'
  BY <1>8, <1>9, SameReads
<1>11. /\ AssetFrame("confirm") /\ asset' \in [Assets -> AssetRow] /\ AssignedHasHolder'
  BY <1>9, AssetStays DEF OrgInv
<1>12. job \in [Jobs -> ImportJobStatus]
  BY DEF OrgInv, Kept
<1>13. job' \in [Jobs -> ImportJobStatus] /\ \A i \in Jobs : job'[i] = IF i = j THEN "processing" ELSE job[i]
  BY <1>4, <1>9, <1>12 DEF ImportJobStatus
<1>14. People' /\ StaffFrame("confirm") /\ Present' = Present /\ ImportIsAllOrNothing'
  <2>1. \A i \in Jobs : job'[i] = "completed" => job[i] = "completed"
    BY <1>13
  <2>. QED  BY <1>9, <2>1, StaffStays DEF OrgInv
<1>15. Frame("confirm")
  BY <1>9, <1>11, <1>14, RegisterStays DEF Frame, OrgInv
<1>16. Kept'
  <2>1. Kept /\ Present \subseteq Present' /\ stops' = stops
    BY <1>9, <1>14 DEF OrgInv
  <2>2. /\ register' \in [Kinds -> [Entries -> {Missing} \cup KeptRow]] /\ stops' \in 0..MaxStops
        /\ enabled' \in [Departments -> BOOLEAN] /\ active' \in BOOLEAN
        /\ action' \in [status : {"none", "pending", "resolved"}, assignee : Employees \cup {Nil},
                        answer : Employees \cup {Company, Nil}]
    BY <1>9, <2>1 DEF Kept
  <2>. QED  BY <1>4, <1>11, <1>13, <2>1, <2>2, KeptOn
<1>17. /\ UnderWay' /\ calls'[s] = n
       /\ \A t \in Sessions \ {s} : /\ calls[t] = AtRest <=> calls'[t] = AtRest
                                    /\ \A op, step : At(t, op, step)' <=> At(t, op, step)
                                    /\ Args(t)' = Args(t)
  <2>1. \A t \in Sessions \ {s} : At(t, "assign", "promote") =>
          \A x \in Args(t).held : staff'[x].role = "department_manager"
    BY <1>14, RolesStay DEF OrgInv
  <2>2. "confirm" \in Operations /\ UnderWay /\ People /\ Kept
    BY DEF Operations, OrgInv
  <2>. QED  BY <1>1, <1>9, <1>10, <1>11, <1>15, <2>1, <2>2, Overtook
<1>18. VersionsBounded'
  <2>1. Busy' = Busy
    BY <1>1, <1>7, <1>17 DEF Busy
  <2>. QED  BY <1>9, <2>1 DEF OrgInv, VersionsBounded
<1>19. HeldApart'
  <2>1. ~At(s, "assign", "promote")'
    BY <1>7, <1>17 DEF At
  <2>. QED  BY <1>17, <2>1 DEF OrgInv, HeldApart
<1>20. ProcessingIsHeld'
  <2>1. At(s, "confirm", "rows")' /\ Args(s)'.e = j
    BY <1>3, <1>7, <1>17 DEF At, Args
  <2>2. ~At(s, "confirm", "rows")
    BY <1>1 DEF At
  <2>. QED  BY <1>9, <1>13, <1>17, <2>1, <2>2 DEF OrgInv, ProcessingIsHeld
<1>. QED  BY <1>14, <1>16, <1>17, <1>18, <1>19, <1>20 DEF OrgInv

\* What a successful import makes of the directory.
LEMMA ImportWritten ==
  ASSUME People, RowsFree, ManagersKnown, staff' = Imported
  PROVE  /\ \A x \in Employees \ FileRows :
              /\ staff'[x].status = staff[x].status /\ staff'[x].dept = staff[x].dept
              /\ staff'[x].manager = staff[x].manager /\ staff'[x].account = staff[x].account
              /\ staff'[x].origin = staff[x].origin
              /\ staff'[x].role = IF x \in Named THEN "department_manager" ELSE staff[x].role
         /\ \A x \in FileRows :
              /\ staff'[x].status = "active" /\ staff'[x].origin = "import" /\ staff'[x].account = TRUE
              /\ staff'[x].manager = IF File[x].manager = x THEN Nil ELSE File[x].manager
         /\ Present' = Present \cup FileRows /\ People' /\ StaffFrame("confirm")
<1>1. staff \in [Employees -> StaffRow] /\ FileRows \subseteq Employees /\ FileRows \cap Present = {}
  BY OrganizationAssumption DEF People, FileRows, RowsFree
<1>2. \A x \in FileRows : File[x].dept \in Departments \cup {Nil} /\ File[x].manager \in Employees \cup {Nil}
  BY OrganizationAssumption DEF FileRows
<1>3. Named \subseteq FileRows \cup Present
  BY DEF Named, ManagersKnown, FileRows
<1> DEFINE Row(x) == IF x \in FileRows
                     THEN Employee("active", File[x].dept, IF File[x].manager = x THEN Nil ELSE File[x].manager, "import")
                     ELSE staff[x]
<1>4. \A x \in Employees : /\ Row(x) \in StaffRow
                           /\ x \in FileRows => /\ Row(x).status = "active" /\ Row(x).origin = "import"
                                                /\ Row(x).account = TRUE
                                                /\ Row(x).manager = IF File[x].manager = x THEN Nil ELSE File[x].manager
                           /\ x \notin FileRows => Row(x) = staff[x]
  <2>1. SUFFICES ASSUME NEW x \in Employees
                 PROVE  /\ Row(x) \in StaffRow
                        /\ x \in FileRows => /\ Row(x).status = "active" /\ Row(x).origin = "import"
                                             /\ Row(x).account = TRUE
                                             /\ Row(x).manager = IF File[x].manager = x THEN Nil ELSE File[x].manager
                        /\ x \notin FileRows => Row(x) = staff[x]
    OBVIOUS
  <2>2. CASE x \in FileRows
    <3>1. PICK d, m : d = File[x].dept /\ m = IF File[x].manager = x THEN Nil ELSE File[x].manager
      OBVIOUS
    <3>2. d \in Departments \cup {Nil} /\ m \in Employees \cup {Nil}
      BY <1>2, <2>2, <3>1
    <3>3. PICK r : r = Row(x)
      OBVIOUS
    <3>4. r = [status |-> "active", dept |-> d, manager |-> m, role |-> "employee", account |-> TRUE,
               origin |-> "import"]
      BY <2>2, <3>1, <3>3 DEF Employee
    <3>5. r \in StaffRow
      BY <3>2, <3>4 DEF StaffRow, EmploymentStatus
    <3>. QED  BY <2>2, <3>1, <3>3, <3>4, <3>5
  <2>3. CASE x \notin FileRows
    BY <1>1, <2>3
  <2>. QED  BY <2>2, <2>3
<1>5. staff' = [x \in Employees |-> IF x \in Named THEN [Row(x) EXCEPT !.role = "department_manager"] ELSE Row(x)]
  BY DEF Imported
<1> HIDE DEF Row
<1>6. \A x \in Employees :
        /\ staff'[x] \in StaffRow /\ (x \notin Named => staff'[x] = Row(x))
        /\ staff'[x].status = Row(x).status /\ staff'[x].dept = Row(x).dept
        /\ staff'[x].manager = Row(x).manager /\ staff'[x].account = Row(x).account
        /\ staff'[x].origin = Row(x).origin
        /\ staff'[x].role = IF x \in Named THEN "department_manager" ELSE Row(x).role
  <2>1. SUFFICES ASSUME NEW x \in Employees
        PROVE
        /\ staff'[x] \in StaffRow /\ (x \notin Named => staff'[x] = Row(x))
        /\ staff'[x].status = Row(x).status /\ staff'[x].dept = Row(x).dept
        /\ staff'[x].manager = Row(x).manager /\ staff'[x].account = Row(x).account
        /\ staff'[x].origin = Row(x).origin
        /\ staff'[x].role = IF x \in Named THEN "department_manager" ELSE Row(x).role
    OBVIOUS
  <2>2. PICK row : row = Row(x) /\ row \in StaffRow
    BY <1>4
  <2>3. CASE x \in Named
    <3>1. PICK r \in StaffRow : /\ r = [row EXCEPT !.role = "department_manager"] /\ r.role = "department_manager"
                                /\ r.status = row.status /\ r.dept = row.dept /\ r.manager = row.manager
                                /\ r.account = row.account /\ r.origin = row.origin
      BY <2>2, RoleSet
    <3>2. staff'[x] = r
      BY <1>5, <2>2, <2>3, <3>1
    <3>. QED  BY <2>2, <2>3, <3>1, <3>2
  <2>4. CASE x \notin Named
    <3>1. staff'[x] = row
      BY <1>5, <2>2, <2>4
    <3>. QED  BY <2>2, <2>4, <3>1
  <2>. QED  BY <2>3, <2>4
<1>7. staff' \in [Employees -> StaffRow]
  <2>1. staff' = [x \in Employees |-> staff'[x]]
    BY <1>5
  <2>2. PICK f : f = staff'
    OBVIOUS
  <2>. QED  BY <1>6, <2>1, <2>2
<1>8. Present' = Present \cup FileRows
  BY <1>1, <1>4, <1>6 DEF Present
<1>9. People'
  <2>1. \A x \in Employees : staff'[x].status = "absent" => staff'[x] = Absent
    <3>1. SUFFICES ASSUME NEW x \in Employees, staff'[x].status = "absent" PROVE staff'[x] = Absent
      OBVIOUS
    <3>2. x \notin FileRows /\ staff[x].status = "absent"
      BY <1>4, <1>6, <3>1
    <3>3. x \notin Named
      BY <1>3, <3>2 DEF Present
    <3>. QED  BY <1>4, <1>6, <3>2, <3>3 DEF People
  <2>2. \A x \in Present \cup FileRows : staff'[x].manager \in Present \cup FileRows \cup {Nil}
    <3>1. \A x \in FileRows : staff'[x].manager = IF File[x].manager = x THEN Nil ELSE File[x].manager
      BY <1>1, <1>4, <1>6
    <3>2. \A x \in Present : staff'[x].manager = staff[x].manager
      BY <1>1, <1>4, <1>6 DEF Present
    <3>3. \A x \in FileRows : staff'[x].manager \in Present \cup FileRows \cup {Nil}
      BY <3>1 DEF ManagersKnown
    <3>. QED  BY <3>2, <3>3 DEF People
  <2>. QED  BY <1>7, <1>8, <2>1, <2>2 DEF People
<1>10. \A x \in Employees \ FileRows :
              /\ staff'[x].status = staff[x].status /\ staff'[x].dept = staff[x].dept
              /\ staff'[x].manager = staff[x].manager /\ staff'[x].account = staff[x].account
              /\ staff'[x].origin = staff[x].origin
              /\ staff'[x].role = IF x \in Named THEN "department_manager" ELSE staff[x].role
  BY <1>4, <1>6
<1>11. StaffFrame("confirm")
  <2>1. \A x \in Present : x \in Employees \ FileRows
    BY <1>1 DEF Present
  <2>2. \A x \in Present : staff[x].role = "department_manager" => staff'[x].role = "department_manager"
    BY <1>10, <2>1
  <2>. QED  BY <1>8, <1>10, <2>1, <2>2 DEF StaffFrame
<1>12. \A x \in FileRows :
              /\ staff'[x].status = "active" /\ staff'[x].origin = "import" /\ staff'[x].account = TRUE
              /\ staff'[x].manager = IF File[x].manager = x THEN Nil ELSE File[x].manager
  BY <1>1, <1>4, <1>6
<1>. QED  BY <1>8, <1>9, <1>10, <1>11, <1>12

LEMMA ConfirmRowsKept ==
  ASSUME OrgInv, NEW s \in Sessions, ConfirmRows(s), UNCHANGED register
  PROVE  OrgInv'
<1>1. /\ CallOk(calls[s]) /\ calls[s] # AtRest /\ calls[s].op = "confirm" /\ calls[s].at = "rows"
      /\ Args(s) = calls[s].args
  BY UnderWayAt DEF OrgInv, ConfirmRows
<1>2. PICK j : j = Args(s).e
  OBVIOUS
<1>3. j \in Jobs /\ ManagersKnown /\ At(s, "confirm", "rows")
  BY <1>1, <1>2 DEF CallOk, ConfirmOk, At
<1>4. Commit(s) /\ UNCHANGED <<enabled, asset, action, active>>
  BY DEF ConfirmRows
<1>5. job \in [Jobs -> ImportJobStatus]
  BY DEF OrgInv, Kept
<1>6. "confirm" \in Operations
  BY DEF Operations
<1>7. CASE RowsFree /\ staff' = Imported /\ job' = [job EXCEPT ![j] = "completed"]
  <2>1. job' \in [Jobs -> ImportJobStatus] /\ \A i \in Jobs : job'[i] = IF i = j THEN "completed" ELSE job[i]
    BY <1>3, <1>5, <1>7 DEF ImportJobStatus
  <2>2. /\ \A x \in FileRows : staff'[x].origin = "import"
        /\ People' /\ StaffFrame("confirm")
    BY <1>3, <1>7, ImportWritten DEF OrgInv
  <2>3. ImportIsAllOrNothing'
    <3>1. {x \in FileRows : staff'[x].origin = "import"} = FileRows
      BY <2>2
    <3>. QED  BY <3>1 DEF ImportIsAllOrNothing
  <2>4. \A t \in Sessions \ {s} : At(t, "assign", "promote") =>
          \A x \in Args(t).held : staff'[x].role = "department_manager"
    BY <2>2, RolesStay DEF OrgInv
  <2>5. \A i \in Jobs : /\ job'[i] = "ready" => job[i] = "ready"
                        /\ job'[i] = "processing" =>
                             job[i] = "processing" /\ ~(At(s, "confirm", "rows") /\ Args(s).e = i)
    BY <1>2, <2>1
  <2>. QED  BY <1>1, <1>4, <1>6, <2>1, <2>2, <2>3, <2>4, <2>5, StaffCommits
<1>8. CASE staff' = staff /\ job' = [job EXCEPT ![j] = "failed"]
  <2>1. job' \in [Jobs -> ImportJobStatus] /\ \A i \in Jobs : job'[i] = IF i = j THEN "failed" ELSE job[i]
    BY <1>3, <1>5, <1>8 DEF ImportJobStatus
  <2>2. People' /\ StaffFrame("confirm") /\ ImportIsAllOrNothing'
    <3>1. \A i \in Jobs : job'[i] = "completed" => job[i] = "completed"
      BY <2>1
    <3>. QED  BY <1>8, <3>1, StaffStays DEF OrgInv
  <2>4. \A t \in Sessions \ {s} : At(t, "assign", "promote") =>
          \A x \in Args(t).held : staff'[x].role = "department_manager"
    BY <2>2, RolesStay DEF OrgInv
  <2>5. \A i \in Jobs : /\ job'[i] = "ready" => job[i] = "ready"
                        /\ job'[i] = "processing" =>
                             job[i] = "processing" /\ ~(At(s, "confirm", "rows") /\ Args(s).e = i)
    BY <1>2, <2>1
  <2>. QED  BY <1>1, <1>4, <1>6, <2>1, <2>2, <2>4, <2>5, StaffCommits
<1>. QED  BY <1>2, <1>7, <1>8 DEF ConfirmRows

-----------------------------------------------------------------------------
(* Failures, and what no session does.                                     *)

LEMMA RollbackKept ==
  ASSUME OrgInv, NEW s \in Sessions, Rollback(s), UNCHANGED register
  PROVE  OrgInv'
<1>1. /\ calls[s] # AtRest /\ stops < MaxStops /\ stops' = stops + 1 /\ calls' = [calls EXCEPT ![s] = AtRest]
      /\ UNCHANGED <<staff, enabled, asset, action, active, made, register>>
  BY DEF Rollback
<1>2. UnderWay' /\ \A t \in Sessions : calls'[t] = IF t = s THEN AtRest ELSE calls[t]
  BY <1>1, RestIsOk, OneCallKept DEF OrgInv
<1>3. stops' \in 0..MaxStops /\ stops' # 0
  BY <1>1, OrganizationAssumption DEF OrgInv, Kept
<1>4. /\ job' \in [Jobs -> ImportJobStatus]
      /\ \A j \in Jobs : /\ job'[j] = "completed" => job[j] = "completed"
                         /\ job'[j] \in {"ready", "processing"} => job[j] \in {"ready", "processing"}
  <2>1. PICK i : i = Args(s).e
    OBVIOUS
  <2>2. job \in [Jobs -> ImportJobStatus]
    BY DEF OrgInv, Kept
  <2>3. job' = [job EXCEPT ![i] = "failed"] \/ job' = job
    BY <2>1 DEF Rollback
  <2>. QED  BY <2>2, <2>3 DEF ImportJobStatus
<1>5. People' /\ Present' = Present /\ ImportIsAllOrNothing'
  BY <1>1, <1>4, StaffStays DEF OrgInv
<1>6. Kept'
  <2>1. Kept /\ Present \subseteq Present' /\ asset' \in [Assets -> AssetRow] /\ AssignedHasHolder'
    BY <1>1, <1>5, AssetStays DEF OrgInv
  <2>2. /\ register' \in [Kinds -> [Entries -> {Missing} \cup KeptRow]]
        /\ enabled' \in [Departments -> BOOLEAN] /\ active' \in BOOLEAN
        /\ action' \in [status : {"none", "pending", "resolved"}, assignee : Employees \cup {Nil},
                        answer : Employees \cup {Company, Nil}]
    BY <1>1, <2>1 DEF Kept
  <2>. QED  BY <1>3, <1>4, <2>1, <2>2, KeptOn
<1>7. VersionsBounded'
  <2>1. s \in Busy /\ Busy' = Busy \ {s} /\ made' = made
    BY <1>1, <1>2 DEF Busy
  <2>2. \A x \in Assets : asset'[x].version <= asset[x].version + 1
    BY <1>1, AssetStays DEF OrgInv
  <2>3. \A k \in Kinds, i \in Entries : register'[k][i].version <= register[k][i].version + 1
    BY <1>1, RegisterStays DEF OrgInv
  <2>. QED  BY <1>6, <2>1, <2>2, <2>3, VersionsAfterEnd DEF OrgInv
<1>8. HeldApart'
  BY <1>2 DEF OrgInv, HeldApart, At, Args, AtRest
<1>9. ProcessingIsHeld'
  BY <1>3 DEF ProcessingIsHeld
<1>. QED  BY <1>2, <1>5, <1>6, <1>7, <1>8, <1>9 DEF OrgInv

LEMMA StopKept ==
  ASSUME OrgInv, Stop, UNCHANGED register
  PROVE  OrgInv'
<1>1. /\ stops < MaxStops /\ stops' = stops + 1 /\ calls' = [s \in Sessions |-> AtRest]
      /\ UNCHANGED <<staff, enabled, asset, action, job, active, made, register>>
  BY DEF Stop
<1>2. stops' \in 0..MaxStops /\ stops' # 0
  BY <1>1, OrganizationAssumption DEF OrgInv, Kept
<1>3. People' /\ Kept' /\ ImportIsAllOrNothing'
  BY <1>1, <1>2, SameRecords DEF OrgInv
<1>4. UnderWay'
  <2>1. \A s \in Sessions : calls'[s] = AtRest
    BY <1>1
  <2>2. \A s \in Sessions : CallOk(calls[s])'
    BY <2>1, RestIsOk
  <2>. QED  BY <1>1, <2>1, <2>2 DEF UnderWay
<1>5. VersionsBounded'
  <2>1. Busy' = {}
    BY <1>1 DEF Busy
  <2>2. Cardinality(Busy') = 0
    BY <2>1, FS_EmptySet
  <2>3. PICK n : n = Cardinality(Busy) /\ n \in Nat
    BY BusyFinite
  <2>4. \A x \in Assets : asset[x].version \in Nat /\ asset[x].version + n <= made + 1
    BY <2>3 DEF OrgInv, Kept, AssetRow, VersionsBounded
  <2>5. \A k \in Kinds, i \in Entries : register[k][i].version \in Nat /\ register[k][i].version + n <= made + 1
    BY <2>3 DEF OrgInv, Kept, KeptRow, Missing, VersionsBounded
  <2>6. made \in 0..MaxCalls /\ MaxCalls \in Nat
    BY OrganizationAssumption DEF OrgInv, VersionsBounded
  <2>7. \A x \in Assets : asset[x].version + 0 <= made + 1
    BY <2>3, <2>4, <2>6
  <2>8. \A k \in Kinds, i \in Entries : register[k][i].version + 0 <= made + 1
    BY <2>3, <2>5, <2>6
  <2>9. 0 <= made
    BY <2>6
  <2>. QED  BY <1>1, <2>2, <2>6, <2>7, <2>8, <2>9 DEF VersionsBounded
<1>6. HeldApart' /\ ProcessingIsHeld'
  BY <1>1, <1>2 DEF HeldApart, ProcessingIsHeld, At, AtRest
<1>. QED  BY <1>3, <1>4, <1>5, <1>6 DEF OrgInv

LEMMA CallsStay ==
  ASSUME OrgInv, UNCHANGED <<staff, enabled, asset, register, calls, stops>>,
         made' = made + 1, made < MaxCalls
  PROVE  UnderWay' /\ HeldApart' /\ VersionsBounded'
<1>1. UnderWay'
  <2>1. ASSUME NEW s \in Sessions PROVE CallOk(calls[s])'
    <3>1. PICK c : c = calls[s]
      OBVIOUS
    <3>2. CallOk(c)
      BY <3>1 DEF OrgInv, UnderWay
    <3>3. CallOk(c)'
      BY <3>2, SameReads
    <3>. QED  BY <3>1, <3>3
  <2>. QED  BY <2>1 DEF OrgInv, UnderWay
<1>2. HeldApart'
  BY DEF OrgInv, HeldApart, At, Args
<1>3. VersionsBounded'
  <2>1. Busy' = Busy
    BY DEF Busy
  <2>2. PICK n : n = Cardinality(Busy) /\ n \in Nat
    BY BusyFinite
  <2>3. \A x \in Assets : asset[x].version \in Nat /\ asset[x].version + n <= made + 1
    BY <2>2 DEF OrgInv, Kept, AssetRow, VersionsBounded
  <2>4. \A k \in Kinds, i \in Entries : register[k][i].version \in Nat /\ register[k][i].version + n <= made + 1
    BY <2>2 DEF OrgInv, Kept, KeptRow, Missing, VersionsBounded
  <2>5. made \in 0..MaxCalls /\ MaxCalls \in Nat /\ n <= made
    BY <2>2, OrganizationAssumption DEF OrgInv, VersionsBounded
  <2>6. \A x \in Assets : asset[x].version + n <= made' + 1
    BY <2>2, <2>3, <2>5
  <2>7. \A k \in Kinds, i \in Entries : register[k][i].version + n <= made' + 1
    BY <2>2, <2>4, <2>5
  <2>8. made' \in 0..MaxCalls /\ n <= made'
    BY <2>2, <2>5
  <2>9. Cardinality(Busy') = n
    BY <2>1, <2>2
  <2>. QED  BY <2>6, <2>7, <2>8, <2>9 DEF VersionsBounded
<1>. QED  BY <1>1, <1>2, <1>3

LEMMA ValidateImportKept ==
  ASSUME OrgInv, NEW j \in Jobs, ValidateImport(j), UNCHANGED register
  PROVE  OrgInv'
<1>1. /\ job[j] = "none" /\ made < MaxCalls /\ made' = made + 1 /\ job' = [job EXCEPT ![j] = Verdict]
      /\ UNCHANGED <<staff, enabled, asset, action, active, calls, stops, register>>
  BY DEF ValidateImport
<1>2. UnderWay' /\ HeldApart' /\ VersionsBounded'
  BY <1>1, CallsStay
<1>3. Verdict \in {"ready", "failed"} /\ (Verdict = "ready" => ManagersKnown)
  BY DEF Verdict
<1>4. PICK v : v = Verdict
  OBVIOUS
<1>5. /\ job' \in [Jobs -> ImportJobStatus]
      /\ \A i \in Jobs : job'[i] = IF i = j THEN v ELSE job[i]
  BY <1>1, <1>3, <1>4 DEF OrgInv, Kept, ImportJobStatus
<1>6. People' /\ Present' = Present /\ ImportIsAllOrNothing'
  <2>1. \A i \in Jobs : job'[i] = "completed" => job[i] = "completed"
    BY <1>3, <1>4, <1>5
  <2>. QED  BY <1>1, <2>1, StaffStays DEF OrgInv
<1>7. Kept'
  <2>1. Kept /\ Present \subseteq Present' /\ asset' \in [Assets -> AssetRow] /\ AssignedHasHolder'
    BY <1>1, <1>6, AssetStays DEF OrgInv
  <2>2. /\ register' \in [Kinds -> [Entries -> {Missing} \cup KeptRow]]
        /\ enabled' \in [Departments -> BOOLEAN] /\ active' \in BOOLEAN
        /\ action' \in [status : {"none", "pending", "resolved"}, assignee : Employees \cup {Nil},
                        answer : Employees \cup {Company, Nil}]
        /\ stops' \in 0..MaxStops
    BY <1>1, <2>1 DEF Kept
  <2>3. ManagersKnown \/ \A i \in Jobs : job'[i] \in {"ready", "processing"} => job[i] \in {"ready", "processing"}
    BY <1>3, <1>4, <1>5
  <2>. QED  BY <1>5, <2>1, <2>2, <2>3, KeptOn
<1>8. ProcessingIsHeld'
  <2>1. \A i \in Jobs : job'[i] = "processing" => job[i] = "processing"
    BY <1>3, <1>4, <1>5
  <2>. QED  BY <1>1, <2>1 DEF OrgInv, ProcessingIsHeld, At, Args
<1>. QED  BY <1>2, <1>6, <1>7, <1>8 DEF OrgInv

LEMMA CreateActionKept ==
  ASSUME OrgInv, CreateAction, UNCHANGED register
  PROVE  OrgInv'
<1>1. /\ made < MaxCalls /\ made' = made + 1
      /\ UNCHANGED <<staff, enabled, asset, job, active, calls, stops, register>>
      /\ \E e \in Present \cup {Nil} : action' = NewAction(e)
  BY DEF CreateAction
<1>2. UnderWay' /\ HeldApart' /\ VersionsBounded'
  BY <1>1, CallsStay
<1>3. action' \in [status : {"none", "pending", "resolved"}, assignee : Employees \cup {Nil},
                   answer : Employees \cup {Company, Nil}]
  BY <1>1 DEF NewAction, Present
<1>4. People' /\ Present' = Present /\ ImportIsAllOrNothing'
  BY <1>1, StaffStays DEF OrgInv
<1>5. Kept'
  <2>1. Kept /\ Present \subseteq Present' /\ asset' \in [Assets -> AssetRow] /\ AssignedHasHolder'
    BY <1>1, <1>4, AssetStays DEF OrgInv
  <2>2. /\ register' \in [Kinds -> [Entries -> {Missing} \cup KeptRow]]
        /\ enabled' \in [Departments -> BOOLEAN] /\ active' \in BOOLEAN
        /\ job' \in [Jobs -> ImportJobStatus] /\ stops' \in 0..MaxStops
        /\ \A i \in Jobs : job'[i] \in {"ready", "processing"} => job[i] \in {"ready", "processing"}
    BY <1>1, <2>1 DEF Kept
  <2>. QED  BY <1>3, <2>1, <2>2, KeptOn
<1>6. ProcessingIsHeld'
  BY <1>1 DEF OrgInv, ProcessingIsHeld, At, Args
<1>. QED  BY <1>2, <1>4, <1>5, <1>6 DEF OrgInv

-----------------------------------------------------------------------------
(* The writes of the registers.                                            *)

LEMMA PutWritten ==
  ASSUME Kept, NEW s, NEW k \in Kinds, Args(s).kind = k, NEW i \in Entries,
         NEW row \in {Missing} \cup KeptRow, Put(s, i, row)
  PROVE  /\ register' \in [Kinds -> [Entries -> {Missing} \cup KeptRow]]
         /\ \A l \in Kinds, j \in Entries :
              register'[l][j] = IF l = k /\ j = i THEN row ELSE register[l][j]
         /\ \A l \in Kinds : In(l)' = IF l # k THEN In(l)
                                     ELSE IF row = Missing THEN In(k) \ {i} ELSE In(k) \cup {i}
<1>1. register \in [Kinds -> [Entries -> {Missing} \cup KeptRow]]
  BY DEF Kept
<1>2. PICK g : g = [register[k] EXCEPT ![i] = row]
  OBVIOUS
<1>3. g \in [Entries -> {Missing} \cup KeptRow] /\ \A j \in Entries : g[j] = IF j = i THEN row ELSE register[k][j]
  BY <1>1, <1>2
<1>4. register' = [register EXCEPT ![k] = g]
  BY <1>1, <1>2 DEF Put
<1>5. register' \in [Kinds -> [Entries -> {Missing} \cup KeptRow]]
  BY <1>1, <1>3, <1>4
<1>6. \A l \in Kinds : register'[l] = IF l = k THEN g ELSE register[l]
  BY <1>1, <1>4
<1>7. \A l \in Kinds, j \in Entries : register'[l][j] = IF l = k /\ j = i THEN row ELSE register[l][j]
  BY <1>3, <1>6
<1>8. \A l \in Kinds : l # k => In(l)' = In(l)
  BY <1>6 DEF In
<1>9. In(k)' = IF row = Missing THEN In(k) \ {i} ELSE In(k) \cup {i}
  BY <1>7 DEF In
<1>. QED  BY <1>5, <1>7, <1>8, <1>9

LEMMA PutKept ==
  ASSUME OrgInv, NEW s \in Sessions, calls[s] # AtRest, NEW o \in {"create", "amend", "remove"},
         calls[s].op = o, NEW k \in Kinds, Args(s).kind = k, NEW i \in Entries,
         NEW row \in {Missing} \cup KeptRow, Put(s, i, row),
         row.version <= register[k][i].version + 1, k # "holiday" => row # Missing,
         o = "remove" /\ k = "supplier" => i \in In("supplier") /\ row.key = register["supplier"][i].key
  PROVE  OrgInv'
<1>1. Commit(s) /\ UNCHANGED <<staff, enabled, asset, action, job, active>>
  BY DEF Put
<1>0. Kept
  BY DEF OrgInv
<1>2. /\ register' \in [Kinds -> [Entries -> {Missing} \cup KeptRow]]
      /\ \A l \in Kinds, j \in Entries :
           register'[l][j] = IF l = k /\ j = i THEN row ELSE register[l][j]
      /\ \A l \in Kinds : In(l)' = IF l # k THEN In(l)
                                  ELSE IF row = Missing THEN In(k) \ {i} ELSE In(k) \cup {i}
  BY <1>0, PutWritten
<1>3. o \in Operations /\ o # "confirm" /\ "supplier" \in Kinds
  BY DEF Operations, Kinds
<1>4. \A l \in Kinds, j \in Entries : register[l][j].version \in Nat
  BY DEF OrgInv, Kept, KeptRow, Missing
<1>5. \A l \in Kinds, j \in Entries : register'[l][j].version <= register[l][j].version + 1
  <2>1. SUFFICES ASSUME NEW l \in Kinds, NEW j \in Entries
                 PROVE  register'[l][j].version <= register[l][j].version + 1
    OBVIOUS
  <2>2. CASE l = k /\ j = i
    BY <1>2, <2>2
  <2>3. CASE ~(l = k /\ j = i)
    <3>1. register'[l][j] = register[l][j] /\ register[l][j].version \in Nat
      BY <1>2, <1>4, <2>3
    <3>. QED  BY <3>1
  <2>. QED  BY <2>2, <2>3
<1>6. RegisterFrame(o)
  <2>1. \A l \in Kinds \ {"holiday"} : In(l) \subseteq In(l)'
    BY <1>2
  <2>2. ASSUME o \notin {"create", "amend"}
        PROVE  /\ In("supplier")' = In("supplier")
               /\ \A j \in Entries : register'["supplier"][j].key = register["supplier"][j].key
    <3>1. CASE k = "supplier"
      <4>1. i \in In("supplier") /\ row.key = register["supplier"][i].key /\ row # Missing
        BY <2>2, <3>1
      <4>. QED  BY <1>2, <1>3, <3>1, <4>1
    <3>2. CASE k # "supplier"
      BY <1>2, <1>3, <3>2
    <3>. QED  BY <3>1, <3>2
  <2>. QED  BY <2>1, <2>2 DEF RegisterFrame
<1>7. /\ AssetFrame(o) /\ asset' \in [Assets -> AssetRow] /\ AssignedHasHolder'
      /\ \A x \in Assets : asset'[x].version <= asset[x].version + 1
  BY <1>1, AssetStays DEF OrgInv
<1>8. People' /\ StaffFrame(o) /\ Present' = Present /\ ImportIsAllOrNothing'
  BY <1>1, StaffStays DEF OrgInv
<1>9. Frame(o)
  BY <1>1, <1>6, <1>7, <1>8 DEF Frame
<1>10. Kept'
  <2>1. Kept /\ Present \subseteq Present' /\ stops' = stops
    BY <1>1, <1>8 DEF OrgInv, Commit
  <2>2. /\ enabled' \in [Departments -> BOOLEAN] /\ active' \in BOOLEAN
        /\ action' \in [status : {"none", "pending", "resolved"}, assignee : Employees \cup {Nil},
                        answer : Employees \cup {Company, Nil}]
        /\ job' \in [Jobs -> ImportJobStatus] /\ stops' \in 0..MaxStops
        /\ \A j \in Jobs : job'[j] \in {"ready", "processing"} => job[j] \in {"ready", "processing"}
    BY <1>1, <2>1 DEF Kept
  <2>. QED  BY <1>2, <1>7, <2>1, <2>2, KeptOn
<1>11. \A t \in Sessions \ {s} : At(t, "assign", "promote") =>
         \A x \in Args(t).held : staff'[x].role = "department_manager"
  BY <1>8, RolesStay DEF OrgInv
<1>12. \A j \in Jobs : job'[j] = "processing" =>
         job[j] = "processing" /\ ~(At(s, "confirm", "rows") /\ Args(s).e = j)
  BY <1>1, <1>3 DEF At
<1>. QED  BY <1>1, <1>3, <1>5, <1>7, <1>8, <1>9, <1>10, <1>11, <1>12, Committed

\* What an edit makes of a row of a register.
LEMMA ApplyKept ==
  ASSUME NEW row \in KeptRow, NEW change \in RowChange
  PROVE  \E r \in KeptRow :
           /\ r = Apply(row, change) /\ r.version = row.version
           /\ r.key = IF "key" \in DOMAIN change THEN change.key ELSE row.key
           /\ r.active = IF "active" \in DOMAIN change THEN change.active ELSE row.active
<1>1. DOMAIN row = {"key", "active", "version"} /\ row.key \in Keys /\ row.active \in BOOLEAN
      /\ row.version \in Nat \ {0}
  BY DEF KeptRow
<1>2. PICK k : k = IF "key" \in DOMAIN change THEN change.key ELSE row.key
  OBVIOUS
<1>3. PICK ac : ac = IF "active" \in DOMAIN change THEN change.active ELSE row.active
  OBVIOUS
<1>4. k \in Keys /\ ac \in BOOLEAN
  BY <1>1, <1>2, <1>3 DEF RowChange
<1>5. "version" \notin DOMAIN change
  BY DEF RowChange
<1>6. PICK r : r = [key |-> k, active |-> ac, version |-> row.version]
  OBVIOUS
<1>7. Apply(row, change) = r
  <2>1. Apply(row, change) = [f \in {"key", "active", "version"} |-> IF f \in DOMAIN change THEN change[f] ELSE row[f]]
    BY <1>1 DEF Apply
  <2>. QED  BY <1>2, <1>3, <1>5, <1>6, <2>1
<1>8. r \in KeptRow
  BY <1>1, <1>4, <1>6 DEF KeptRow
<1>9. r.version = row.version /\ r.key = k /\ r.active = ac
  BY <1>6
<1>. QED  BY <1>2, <1>3, <1>7, <1>8, <1>9

LEMMA DropKept ==
  ASSUME OrgInv, NEW s \in Sessions, calls[s] # AtRest, calls[s].op # "confirm", Drop(s)
  PROVE  OrgInv'
BY Refused DEF Drop, At

\* A call on a register that is due.
LEMMA DueCall ==
  ASSUME OrgInv, NEW s \in Sessions, NEW op \in {"create", "amend", "remove"}, NEW k \in Kinds, Due(s, op, k)
  PROVE  /\ calls[s] # AtRest /\ calls[s].op = op /\ Args(s) = calls[s].args /\ Args(s).kind = k
         /\ CreateOk(calls[s]) /\ AmendOk(calls[s]) /\ RemoveOk(calls[s])
BY UnderWayAt DEF OrgInv, Due, CallOk

\* What a call of kind op puts in the row i of register k.
Written(s, op, k, i, row) ==
  /\ Put(s, i, row) /\ i \in Entries /\ row \in {Missing} \cup KeptRow
  /\ k # "holiday" => row # Missing
  /\ op = "create" => i \notin In(k) /\ row # Missing /\ row.version = 1 /\ row.key = Args(s).change.key
  /\ op = "amend" =>
       /\ i = Args(s).e /\ i \in In(k) /\ row # Missing
       /\ row.key = IF "key" \in DOMAIN Args(s).change THEN Args(s).change.key ELSE register[k][i].key
       /\ row.version = IF k = "software" THEN register[k][i].version + 1 ELSE register[k][i].version
  /\ op = "remove" =>
       IF k = "holiday" THEN row = Missing
       ELSE i \in In(k) /\ row \in {register[k][i], [register[k][i] EXCEPT !.active = FALSE]}

\* What a removal makes of a row.
LEMMA OffIsAChange ==
  ASSUME NEW change, change = [active |-> FALSE]
  PROVE  change \in RowChange /\ "key" \notin DOMAIN change
<1>1. DOMAIN change = {"active"} /\ change.active = FALSE
  OBVIOUS
<1>2. change = [f \in {"active"} |-> change[f]]
  OBVIOUS
<1>3. \A f \in {"active"} : change[f] \in BOOLEAN
  BY <1>1
<1>4. change \in [{"active"} -> BOOLEAN]
  BY <1>2, <1>3
<1>. QED  BY <1>1, <1>4 DEF RowChange

LEMMA SwitchedOff ==
  ASSUME NEW row \in KeptRow
  PROVE  /\ [row EXCEPT !.active = FALSE] \in KeptRow
         /\ [row EXCEPT !.active = FALSE].key = row.key /\ [row EXCEPT !.active = FALSE].version = row.version
         /\ Apply(row, [active |-> FALSE]) = [row EXCEPT !.active = FALSE]
<1>1. PICK k, ac, v : row = [key |-> k, active |-> ac, version |-> v] /\ k \in Keys /\ ac \in BOOLEAN /\ v \in Nat \ {0}
  BY DEF KeptRow
<1>0. PICK no : no = FALSE
  OBVIOUS
<1>2. PICK r : r = [key |-> k, active |-> no, version |-> v]
  OBVIOUS
<1>3. [row EXCEPT !.active = FALSE] = r
  <2>1. [row EXCEPT !.active = no] = r
    BY <1>1, <1>2
  <2>. QED  BY <1>0, <2>1
<1>4. r \in KeptRow /\ r.key = row.key /\ r.version = row.version
  BY <1>0, <1>1, <1>2 DEF KeptRow
<1>5. PICK c : c = [active |-> FALSE]
  OBVIOUS
<1>6. DOMAIN c = {"active"} /\ c.active = FALSE
  BY <1>5
<1>7. DOMAIN row = {"key", "active", "version"} /\ row.key = k /\ row.version = v
  BY <1>1
<1>8. Apply(row, c) = [f \in {"key", "active", "version"} |-> IF f \in DOMAIN c THEN c[f] ELSE row[f]]
  BY <1>7 DEF Apply
<1>9. Apply(row, c) = r
  BY <1>0, <1>2, <1>6, <1>7, <1>8
<1>. QED  BY <1>3, <1>4, <1>5, <1>9

LEMMA InsertWrites ==
  ASSUME OrgInv, NEW s \in Sessions, NEW k \in Kinds, Due(s, "create", k), Insert(s), ~Drop(s)
  PROVE  \E i, row : Written(s, "create", k, i, row)
<1>1. Args(s).kind = k /\ CreateOk(calls[s]) /\ calls[s].op = "create" /\ Args(s) = calls[s].args
  BY DueCall
<1>2. Args(s).change \in [{"key"} -> Keys]
  BY <1>1 DEF CreateOk
<1>3. PICK free : free = Entries \ In(k)
  OBVIOUS
<1>4. PICK i : i = CHOOSE e \in free : \A j \in free : e <= j
  OBVIOUS
<1>5. PICK row : row = NewRow(Args(s).change.key)
  OBVIOUS
<1>6. free # {} /\ Put(s, i, row)
  BY <1>1, <1>3, <1>4, <1>5 DEF Insert
<1>7. i \in free
  <2>1. free \subseteq Nat
    BY <1>3, RegistersAssumption
  <2>2. \E e \in free : \A j \in free : e <= j
    BY <1>6, <2>1, LeastIsLeast
  <2>. QED  BY <1>4, <2>2
<1>8. row \in KeptRow /\ row.version = 1 /\ row # Missing /\ row.key = Args(s).change.key
  BY <1>2, <1>5 DEF NewRow, KeptRow, Missing
<1>9. i \in Entries /\ i \notin In(k)
  BY <1>3, <1>7
<1>10. Written(s, "create", k, i, row)
  BY <1>6, <1>8, <1>9 DEF Written
<1>. QED  BY <1>10

\* An edit that leaves the version alone.
LEMMA UpdateWrites ==
  ASSUME OrgInv, NEW s \in Sessions, NEW op \in {"amend", "remove"}, NEW k \in Kinds, k # "software" \/ op = "remove",
         Due(s, op, k), NEW ok, Update(s, ok), ~Drop(s), ok => Args(s).e \in In(k),
         op = "remove" => k # "holiday"
  PROVE  \E i, row : Written(s, op, k, i, row)
<1>1. /\ Args(s).kind = k /\ calls[s].op = op /\ Args(s) = calls[s].args
      /\ AmendOk(calls[s]) /\ RemoveOk(calls[s])
  BY DueCall
<1>2. PICK i, change : i = Args(s).e /\ change = Args(s).change
  OBVIOUS
<1>3. ok /\ Put(s, i, Apply(register[k][i], change))
  BY <1>1, <1>2 DEF Update
<1>4. i \in In(k) /\ i \in Entries
  BY <1>2, <1>3 DEF In
<1>5. PICK old : old = register[k][i]
  OBVIOUS
<1>6. old \in KeptRow
  BY <1>4, <1>5 DEF OrgInv, Kept, In
<1>7. CASE op = "amend"
  <2>1. change \in RowChange
    BY <1>1, <1>2, <1>7 DEF AmendOk
  <2>2. PICK row \in KeptRow : /\ row = Apply(old, change) /\ row.version = old.version
                               /\ row.key = IF "key" \in DOMAIN change THEN change.key ELSE old.key
    BY <1>6, <2>1, ApplyKept
  <2>3. row # Missing
    BY <2>2 DEF KeptRow, Missing
  <2>4. Put(s, i, row)
    BY <1>3, <1>5, <2>2
  <2>5. Written(s, op, k, i, row)
    BY <1>2, <1>4, <1>5, <1>7, <2>2, <2>3, <2>4 DEF Written
  <2>. QED  BY <2>5
<1>8. CASE op = "remove"
  <2>1. change = [active |-> FALSE]
    BY <1>1, <1>2, <1>8 DEF RemoveOk
  <2>2. PICK row : row = [old EXCEPT !.active = FALSE]
    OBVIOUS
  <2>3. row \in KeptRow /\ Apply(old, change) = row
    BY <1>6, <2>1, <2>2, SwitchedOff
  <2>4. row # Missing
    BY <2>3 DEF KeptRow, Missing
  <2>5. Put(s, i, row)
    BY <1>3, <1>5, <2>3
  <2>6. row \in {register[k][i], [register[k][i] EXCEPT !.active = FALSE]}
    BY <1>5, <2>2
  <2>7. Written(s, op, k, i, row)
    BY <1>4, <1>8, <2>3, <2>4, <2>5, <2>6 DEF Written
  <2>. QED  BY <2>7
<1>. QED  BY <1>7, <1>8

LEMMA UpdateSoftwareWrites ==
  ASSUME OrgInv, NEW s \in Sessions, UpdateSoftware(s), ~Drop(s)
  PROVE  \E i, row : Written(s, "amend", "software", i, row)
<1>0. "software" \in Kinds /\ Due(s, "amend", "software")
  BY DEF Kinds, UpdateSoftware
<1>1. /\ calls[s].op = "amend" /\ Args(s) = calls[s].args /\ Args(s).kind = "software" /\ AmendOk(calls[s])
  BY <1>0, DueCall
<1>2. PICK i, change, v : i = Args(s).e /\ change = Args(s).change /\ v = Args(s).version
  OBVIOUS
<1>3. PICK old : old = register["software"][i]
  OBVIOUS
<1>4. old.version = v /\ Put(s, i, [Apply(old, change) EXCEPT !.version = v + 1])
  BY <1>2, <1>3 DEF UpdateSoftware
<1>5. i \in In("software") /\ i \in Entries /\ change \in RowChange
  BY <1>1, <1>2 DEF AmendOk
<1>6. old \in KeptRow
  BY <1>0, <1>3, <1>5 DEF OrgInv, Kept, In
<1>7. PICK r \in KeptRow : /\ r = Apply(old, change) /\ r.version = old.version
                           /\ r.key = IF "key" \in DOMAIN change THEN change.key ELSE old.key
  BY <1>5, <1>6, ApplyKept
<1>8. PICK row : row = [r EXCEPT !.version = v + 1]
  OBVIOUS
<1>9. row \in KeptRow /\ row.version = v + 1 /\ row.key = r.key
  <2>1. PICK k, ac, w : r = [key |-> k, active |-> ac, version |-> w] /\ k \in Keys /\ ac \in BOOLEAN
    BY DEF KeptRow
  <2>2. PICK n : n = v + 1
    OBVIOUS
  <2>3. n \in Nat \ {0}
    BY <1>4, <1>6, <2>2 DEF KeptRow
  <2>4. row = [key |-> k, active |-> ac, version |-> n]
    BY <1>8, <2>1, <2>2
  <2>. QED  BY <2>1, <2>2, <2>3, <2>4 DEF KeptRow
<1>10. Put(s, i, row)
  BY <1>4, <1>7, <1>8
<1>11. row # Missing
  BY <1>9 DEF KeptRow, Missing
<1>12. /\ row.key = IF "key" \in DOMAIN Args(s).change THEN Args(s).change.key ELSE register["software"][i].key
       /\ row.version = register["software"][i].version + 1
  BY <1>2, <1>3, <1>4, <1>7, <1>9
<1>13. Written(s, "amend", "software", i, row)
  BY <1>2, <1>5, <1>9, <1>10, <1>11, <1>12 DEF Written
<1>. QED  BY <1>13

LEMMA RegisterWrites ==
  ASSUME OrgInv, NEW s \in Sessions, RegisterStep(s), ~Drop(s)
  PROVE  \E op \in {"create", "amend", "remove"}, k \in Kinds : Due(s, op, k) /\ \E i, row : Written(s, op, k, i, row)
<1>0. "supplier" \in Kinds /\ "software" \in Kinds /\ "holiday" \in Kinds /\ "balance" \in Kinds
  BY DEF Kinds
<1>1. ASSUME NEW k \in Kinds, Due(s, "create", k), Insert(s)
      PROVE  \E i, row : Written(s, "create", k, i, row)
  BY <1>1, InsertWrites
<1>2. ASSUME NEW k \in {"supplier", "software"}, Due(s, "remove", k), Update(s, TRUE)
      PROVE  \E i, row : Written(s, "remove", k, i, row)
  <2>1. k \in Kinds /\ k # "holiday"
    BY <1>0
  <2>2. Args(s).kind = k /\ RemoveOk(calls[s]) /\ calls[s].op = "remove" /\ Args(s) = calls[s].args
    BY <1>2, <2>1, DueCall
  <2>3. Args(s).e \in In(k)
    BY <2>1, <2>2 DEF RemoveOk
  <2>. QED  BY <1>2, <2>1, <2>3, UpdateWrites
<1>3. CASE UpdateSupplier(s)
  <2>1. Due(s, "amend", "supplier") /\ Update(s, TRUE)
    BY <1>3 DEF UpdateSupplier
  <2>2. Args(s).kind = "supplier" /\ AmendOk(calls[s]) /\ calls[s].op = "amend" /\ Args(s) = calls[s].args
    BY <1>0, <2>1, DueCall
  <2>3. Args(s).e \in In("supplier")
    BY <2>2 DEF AmendOk
  <2>. QED  BY <1>0, <2>1, <2>3, UpdateWrites
<1>4. CASE UpdateHoliday(s)
  <2>1. Due(s, "amend", "holiday") /\ Update(s, Args(s).e \in In("holiday"))
    BY <1>4 DEF UpdateHoliday
  <2>2. PICK ok : ok = (Args(s).e \in In("holiday"))
    OBVIOUS
  <2>3. Update(s, ok) /\ (ok => Args(s).e \in In("holiday"))
    BY <2>1, <2>2
  <2>. QED  BY <1>0, <2>1, <2>3, UpdateWrites
<1>5. CASE DeleteHoliday(s)
  <2>1. Due(s, "remove", "holiday") /\ Put(s, Args(s).e, Missing)
    BY <1>5 DEF DeleteHoliday
  <2>2. RemoveOk(calls[s]) /\ calls[s].op = "remove" /\ Args(s) = calls[s].args
    BY <1>0, <2>1, DueCall
  <2>3. Args(s).e \in Entries
    BY <2>2 DEF RemoveOk
  <2>4. Written(s, "remove", "holiday", Args(s).e, Missing)
    BY <2>1, <2>3 DEF Written
  <2>. QED  BY <1>0, <2>1, <2>4
<1>6. CASE DeleteBalance(s)
  <2>1. Due(s, "remove", "balance") /\ Put(s, Args(s).e, register["balance"][Args(s).e])
    BY <1>6 DEF DeleteBalance
  <2>2. RemoveOk(calls[s]) /\ calls[s].op = "remove" /\ Args(s) = calls[s].args /\ Args(s).kind = "balance"
    BY <1>0, <2>1, DueCall
  <2>3. Args(s).e \in Entries /\ Args(s).e \in In("balance")
    BY <2>2 DEF RemoveOk
  <2>4. PICK i, row : i = Args(s).e /\ row = register["balance"][i]
    OBVIOUS
  <2>5. row \in KeptRow /\ row # Missing
    BY <1>0, <2>3, <2>4 DEF OrgInv, Kept, In
  <2>6. Written(s, "remove", "balance", i, row)
    BY <2>1, <2>3, <2>4, <2>5 DEF Written
  <2>. QED  BY <1>0, <2>1, <2>6
<1>7. CASE UpdateSoftware(s)
  <2>1. Due(s, "amend", "software")
    BY <1>7 DEF UpdateSoftware
  <2>. QED  BY <1>0, <1>7, <2>1, UpdateSoftwareWrites
<1>8. CASE DeactivateSupplier(s) \/ DeactivateSoftware(s)
  BY <1>0, <1>2, <1>8 DEF DeactivateSupplier, DeactivateSoftware
<1>9. CASE InsertSupplier(s) \/ InsertSoftware(s) \/ InsertHoliday(s) \/ InsertBalance(s)
  BY <1>0, <1>1, <1>9 DEF InsertSupplier, InsertSoftware, InsertHoliday, InsertBalance
<1>. QED  BY <1>3, <1>4, <1>5, <1>6, <1>7, <1>8, <1>9 DEF RegisterStep

LEMMA RegisterWritesKept ==
  ASSUME OrgInv, NEW s \in Sessions, RegisterStep(s)
  PROVE  OrgInv'
<1>1. CASE Drop(s)
  <2>1. calls[s] # AtRest /\ calls[s].op # "confirm"
    <3>1. PICK op \in {"create", "amend", "remove"}, k \in Kinds : Due(s, op, k)
      BY DEF RegisterStep, InsertSupplier, UpdateSupplier, DeactivateSupplier, InsertSoftware, UpdateSoftware,
         DeactivateSoftware, InsertHoliday, UpdateHoliday, DeleteHoliday, InsertBalance, DeleteBalance, Kinds
    <3>. QED  BY <3>1, DueCall
  <2>. QED  BY <1>1, <2>1, DropKept
<1>2. CASE ~Drop(s)
  <2>1. PICK op \in {"create", "amend", "remove"}, k \in Kinds : Due(s, op, k) /\ \E i, row : Written(s, op, k, i, row)
    BY <1>2, RegisterWrites
  <2>2. PICK i, row : Written(s, op, k, i, row)
    BY <2>1
  <2>3. calls[s] # AtRest /\ calls[s].op = op /\ Args(s).kind = k
    BY <2>1, DueCall
  <2>4. /\ Put(s, i, row) /\ i \in Entries /\ row \in {Missing} \cup KeptRow
        /\ k # "holiday" => row # Missing
    BY <2>2 DEF Written
  <2>5. register[k][i] \in {Missing} \cup KeptRow /\ register[k][i].version \in Nat
    BY <2>4 DEF OrgInv, Kept, KeptRow, Missing
  <2>6. PICK off : off = [register[k][i] EXCEPT !.active = FALSE]
    OBVIOUS
  <2>7. op = "remove" /\ k # "holiday" =>
          i \in In(k) /\ row.key = register[k][i].key /\ row.version = register[k][i].version
    <3>1. SUFFICES ASSUME op = "remove", k # "holiday"
                   PROVE  i \in In(k) /\ row.key = register[k][i].key /\ row.version = register[k][i].version
      OBVIOUS
    <3>2. i \in In(k) /\ row \in {register[k][i], off}
      BY <2>2, <2>6, <3>1 DEF Written
    <3>3. register[k][i] \in KeptRow
      BY <2>5, <3>2 DEF In
    <3>4. off.key = register[k][i].key /\ off.version = register[k][i].version
      BY <2>6, <3>3, SwitchedOff
    <3>. QED  BY <3>2, <3>4
  <2>8. row.version <= register[k][i].version + 1
    <3>1. CASE op = "create"
      <4>1. row.version = 1
        BY <2>2, <3>1 DEF Written
      <4>. QED  BY <2>5, <4>1
    <3>2. CASE op = "amend"
      <4>1. row.version = IF k = "software" THEN register[k][i].version + 1 ELSE register[k][i].version
        BY <2>2, <3>2 DEF Written
      <4>. QED  BY <2>5, <4>1
    <3>3. CASE op = "remove" /\ k # "holiday"
      BY <2>5, <2>7, <3>3
    <3>4. CASE op = "remove" /\ k = "holiday"
      <4>1. row = Missing
        BY <2>2, <3>4 DEF Written
      <4>2. row.version = 0
        BY <4>1 DEF Missing
      <4>. QED  BY <2>5, <4>2
    <3>. QED  BY <3>1, <3>2, <3>3, <3>4
  <2>9. op = "remove" /\ k = "supplier" => i \in In("supplier") /\ row.key = register["supplier"][i].key
    BY <2>7
  <2>. QED  BY <2>3, <2>4, <2>8, <2>9, PutKept
<1>. QED  BY <1>1, <1>2

-----------------------------------------------------------------------------
(* The invariant.                                                          *)

LEMMA RegistersBegin ==
  ASSUME RegistersInit
  PROVE  OrgInv
<1>1. calls = [s \in Sessions |-> AtRest] /\ stops = 0 /\ active \in BOOLEAN
      /\ made = (IF active THEN 1 ELSE 0)
  BY DEF RegistersInit, OrganizationInit
<1>2. \A e \in Employees : staff[e] = IF active /\ e \in DOMAIN Founders THEN Founders[e] ELSE Absent
  BY DEF RegistersInit, OrganizationInit
<1>3. People
  <2>1. Absent \in StaffRow /\ Absent.status = "absent" /\ Absent.manager = Nil /\ Absent.origin # "import"
    BY DEF Absent, StaffRow
  <2>2. \A e \in Employees : staff[e] \in StaffRow
    BY <1>2, <2>1, FoundersAssumption
  <2>3. staff = [e \in Employees |-> staff[e]]
    BY DEF RegistersInit, OrganizationInit
  <2>4. staff \in [Employees -> StaffRow]
    BY <2>2, <2>3
  <2>5. \A e \in Employees : staff[e].status = "absent" => staff[e] = Absent
    BY <1>2, FoundersAssumption
  <2>6. \A e \in Present : staff[e].manager \in Present \cup {Nil}
    BY <1>2, <2>1, FoundersAssumption, OrganizationAssumption DEF Present
  <2>. QED  BY <2>4, <2>5, <2>6 DEF People
<1>4. ImportIsAllOrNothing
  <2>1. \A e \in FileRows : staff[e].origin # "import"
    BY <1>2, FoundersAssumption, OrganizationAssumption DEF Absent, FileRows
  <2>2. \A j \in Jobs : job[j] # "completed"
    BY DEF RegistersInit, OrganizationInit
  <2>. QED  BY <2>1, <2>2 DEF ImportIsAllOrNothing
<1>5. asset \in [Assets -> AssetRow] /\ AssignedHasHolder /\ \A x \in Assets : asset[x].version = 1
  <2>1. PICK row : row = [status |-> "available", holder |-> Nil, version |-> 1]
    OBVIOUS
  <2>2. row \in AssetRow /\ row.version = 1 /\ row.status # "assigned"
    BY <2>1 DEF AssetRow, AssetStatus
  <2>3. asset = [x \in Assets |-> row]
    BY <2>1 DEF RegistersInit, OrganizationInit
  <2>. QED  BY <2>2, <2>3 DEF AssignedHasHolder
<1>6. /\ register \in [Kinds -> [Entries -> {Missing} \cup KeptRow]]
      /\ \A k \in Kinds, i \in Entries : register[k][i].version = 0
  <2>1. PICK f : f = [i \in Entries |-> Missing]
    OBVIOUS
  <2>2. f \in [Entries -> {Missing} \cup KeptRow] /\ \A i \in Entries : f[i] = Missing
    BY <2>1
  <2>3. register = [k \in Kinds |-> f]
    BY <2>1 DEF RegistersInit
  <2>. QED  BY <2>2, <2>3 DEF Missing
<1>7. Kept
  <2>1. enabled \in [Departments -> BOOLEAN]
    <3>1. CASE active
      BY <3>1 DEF RegistersInit, OrganizationInit
    <3>2. CASE ~active
      BY <3>2 DEF RegistersInit, OrganizationInit
    <3>. QED  BY <3>1, <3>2
  <2>4. job \in [Jobs -> ImportJobStatus] /\ \A j \in Jobs : job[j] = "none"
    BY DEF RegistersInit, OrganizationInit, ImportJobStatus
  <2>2. action \in [status : {"none", "pending", "resolved"}, assignee : Employees \cup {Nil},
                    answer : Employees \cup {Company, Nil}]
    BY DEF RegistersInit, OrganizationInit
  <2>3. stops \in 0..MaxStops
    BY <1>1, OrganizationAssumption
  <2>. QED  BY <1>1, <1>5, <1>6, <2>1, <2>2, <2>3, <2>4 DEF Kept
<1>8. VersionsBounded
  <2>1. Busy = {}
    BY <1>1 DEF Busy
  <2>2. Cardinality(Busy) = 0
    BY <2>1, FS_EmptySet
  <2>3. made \in 0..MaxCalls
    BY <1>1, OrganizationAssumption
  <2>. QED  BY <1>5, <1>6, <2>2, <2>3 DEF VersionsBounded
<1>9. UnderWay
  BY <1>1, RestIsOk DEF UnderWay
<1>10. HeldApart
  BY <1>1 DEF HeldApart, At, AtRest
<1>11. ProcessingIsHeld
  BY DEF RegistersInit, OrganizationInit, ProcessingIsHeld
<1>. QED  BY <1>3, <1>4, <1>7, <1>8, <1>9, <1>10, <1>11 DEF OrgInv

LEMMA RegistersStep ==
  ASSUME OrgInv, [RegistersNext]_allVars
  PROVE  OrgInv'
<1>1. CASE UNCHANGED allVars
  <2>1. UNCHANGED <<staff, enabled, asset, action, job, active, calls, made, stops, register>>
    BY <1>1 DEF allVars, orgVars
  <2>2. UnderWay'
    BY <2>1, SameReads DEF OrgInv, UnderWay
  <2>3. stops' \in 0..MaxStops
    BY <2>1 DEF OrgInv, Kept
  <2>4. People' /\ Kept' /\ ImportIsAllOrNothing'
    BY <2>1, <2>3, SameRecords DEF OrgInv
  <2>5. VersionsBounded' /\ HeldApart' /\ ProcessingIsHeld'
    BY <2>1 DEF OrgInv, VersionsBounded, Busy, HeldApart, ProcessingIsHeld, At, Args
  <2>. QED  BY <2>2, <2>4, <2>5 DEF OrgInv
<1>2. ASSUME NEW s \in Sessions, Read(s), UNCHANGED register
      PROVE  OrgInv'
  BY <1>2, HireReads, EditReads, DeactivateReads, DepartmentReads, AssetReads, RetireReads,
     AppointReads, ActivateReads, ConfirmReads, AnswerReads DEF Read
<1>3. ASSUME NEW s \in Sessions, Step(s), UNCHANGED register
      PROVE  OrgInv'
  BY <1>3, HireWrites, EditWrites, DeactivateWrites, DepartmentWrites, AssetWrites, RetireWrites,
     AppointDemotes, AppointLocks, AppointPromotes, ActivateWrites, ConfirmStarts, ConfirmRowsKept,
     AnswerWrites DEF Step
<1>4. CASE OrganizationNext /\ UNCHANGED register
  BY <1>2, <1>3, <1>4, RollbackKept, ValidateImportKept, CreateActionKept, StopKept DEF OrganizationNext
<1>5. CASE \E s \in Sessions : RegisterRead(s) \/ RegisterStep(s)
  BY <1>5, RegisterReads, RegisterWritesKept
<1>. QED  BY <1>1, <1>4, <1>5 DEF RegistersNext

\* What every call has read holds when it writes, unless it was overtaken, and
\* what every handler writes fits the rest of the records.
THEOREM RegistersInvariant == RegistersSpec => []OrgInv
BY RegistersBegin, RegistersStep, PTL DEF RegistersSpec

-----------------------------------------------------------------------------
(* The records agree.                                                      *)

\* An appointment waits only for one that overtook it.
LEMMA WaitsAreOvertaken ==
  ASSUME OrgInv, NEW s \in Sessions, At(s, "assign", "promote"), Waits(s)
  PROVE  calls[s].since \cap {"assign", "confirm", "edit"} # {}
<1>1. SUFFICES ASSUME Untouched(calls[s], {"assign", "confirm", "edit"})
               PROVE  FALSE
  BY DEF Untouched
<1>2. Wanted(s) = {Args(s).e}
  BY DEF Wanted, At
<1>3. PICK t \in Sessions \ {s} : At(t, "assign", "promote") /\ Args(s).e \in Args(t).held
  BY <1>2 DEF Waits, Locked
<1>4. Untouched(calls[s], {"edit"})
  BY <1>1 DEF Untouched
<1>5. /\ Args(s).dept = staff[Args(s).e].dept /\ Args(s).held = Managers(Args(s).dept)
      /\ Args(s).e \in Present
  <2>1. Args(s).e \in Present /\ (Untouched(calls[s], {"edit"}) => staff[Args(s).e].dept = Args(s).dept)
    BY Appointing
  <2>2. Untouched(calls[s], {"assign", "confirm", "edit"}) => Args(s).held = Managers(Args(s).dept)
    <3>1. AssignOk(calls[s]) /\ calls[s].op = "assign" /\ calls[s].at = "promote" /\ Args(s) = calls[s].args
      BY UnderWayAt DEF OrgInv, CallOk
    <3>. QED  BY <3>1 DEF AssignOk
  <2>. QED  BY <1>1, <1>4, <2>1, <2>2
<1>6. staff[Args(s).e].role = "department_manager"
  BY <1>3, Appointing
<1>7. Args(s).e \in Managers(Args(s).dept)
  BY <1>5, <1>6 DEF Managers
<1>8. Args(s).e \in Args(s).held \cap Args(t).held
  BY <1>3, <1>5, <1>7
<1>. QED  BY <1>3, <1>8 DEF OrgInv, HeldApart

LEMMA RecordsFollow ==
  ASSUME OrgInv
  PROVE  RecordsAgree
<1>1. \A x \in Assets : asset[x].version \in 1..(MaxCalls + 1)
  <2>1. SUFFICES ASSUME NEW x \in Assets
                 PROVE  asset[x].version \in 1..(MaxCalls + 1)
    OBVIOUS
  <2>2. asset[x].version \in Nat \ {0}
    BY DEF OrgInv, Kept, AssetRow
  <2>3. asset[x].version + Cardinality(Busy) <= made + 1 /\ made \in 0..MaxCalls
    BY DEF OrgInv, VersionsBounded
  <2>. QED  BY <2>2, <2>3, BusyFinite, OrganizationAssumption
<1>2. asset \in [Assets -> [status : AssetStatus, holder : Employees \cup {Nil}, version : 1..(MaxCalls + 1)]]
  <2>1. asset = [x \in Assets |-> asset[x]]
    BY DEF OrgInv, Kept
  <2>2. ASSUME NEW x \in Assets
        PROVE  asset[x] \in [status : AssetStatus, holder : Employees \cup {Nil}, version : 1..(MaxCalls + 1)]
    BY <1>1 DEF OrgInv, Kept, AssetRow
  <2>. QED  BY <2>1, <2>2
<1>3. register \in [Kinds -> [Entries -> RegisterRow]]
  <2>1. \A k \in Kinds, i \in Entries : register[k][i] \in RegisterRow
    <3>1. SUFFICES ASSUME NEW k \in Kinds, NEW i \in Entries
                   PROVE  register[k][i] \in RegisterRow
      OBVIOUS
    <3>2. CASE register[k][i] = Missing
      BY <3>2 DEF RegisterRow
    <3>3. CASE register[k][i] # Missing
      <4>1. register[k][i] \in KeptRow
        BY <3>3 DEF OrgInv, Kept
      <4>2. register[k][i].version + Cardinality(Busy) <= made + 1 /\ made \in 0..MaxCalls
        BY DEF OrgInv, VersionsBounded
      <4>3. register[k][i].version \in 1..(MaxCalls + 1)
        BY <4>1, <4>2, BusyFinite, OrganizationAssumption DEF KeptRow
      <4>. QED  BY <4>1, <4>3 DEF KeptRow, RegisterRow
    <3>. QED  BY <3>2, <3>3
  <2>2. register = [k \in Kinds |-> register[k]] /\ \A k \in Kinds : register[k] = [i \in Entries |-> register[k][i]]
    BY DEF OrgInv, Kept
  <2>3. \A k \in Kinds : register[k] \in [Entries -> RegisterRow]
    BY <2>1, <2>2
  <2>. QED  BY <2>2, <2>3
<1>4. \A s \in Sessions : calls[s] = AtRest \/ (calls[s].op \in Operations /\ calls[s].since \subseteq Operations)
  BY DEF OrgInv, UnderWay, CallOk, CallShape
<1>5. OrganizationTypeOK
  BY <1>2, <1>4 DEF OrgInv, People, Kept, VersionsBounded, OrganizationTypeOK
<1>6. NoCircleOfWaits
  BY WaitsAreOvertaken DEF NoCircleOfWaits
<1>. QED  BY <1>3, <1>5, <1>6 DEF RecordsAgree, OrgInv, Kept

\* Whatever calls, imports, failures and deaths of the process interleave, the
\* records are well formed, an assigned asset has a holder, the file is imported
\* whole or not at all, a job in work has a call, and an appointment waits for
\* another only when its checks were overtaken.
THEOREM RecordsAlwaysAgree == RegistersSpec => []RecordsAgree
<1>1. OrgInv => RecordsAgree
  BY RecordsFollow
<1>. QED  BY <1>1, RegistersInvariant, PTL

-----------------------------------------------------------------------------
(* Assets.                                                                 *)

LEMMA Ending ==
  ASSUME NEW s \in Sessions, calls[s] # AtRest, Commit(s)
  PROVE  EndsCall(s)
BY DEF Commit, Overtake, EndsCall

LEMMA ReadsMoveNothing ==
  ASSUME NEW s \in Sessions, Read(s) \/ RegisterRead(s)
  PROVE  UNCHANGED <<staff, enabled, asset, action, job, active>>
<1>1. ASSUME NEW op, NEW step, NEW args, Begin(s, op, step, args)
      PROVE  UNCHANGED <<staff, enabled, asset, action, job, active>>
  BY <1>1 DEF Begin
<1>2. ASSUME NEW op, NEW k, NEW i, NEW change, NEW v, Open(s, op, k, i, change, v)
      PROVE  UNCHANGED <<staff, enabled, asset, action, job, active>>
  BY <1>1, <1>2 DEF Open
<1>3. CASE Read(s)
  <2>1. \E op, step, args : Begin(s, op, step, args)
    BY <1>3 DEF Read, HireRead, EditRead, DeactivateRead, DepartmentRead, AssetRead, RetireRead,
       AppointRead, ActivateRead, ConfirmRead, AnswerRead
  <2>. QED  BY <1>1, <2>1
<1>4. CASE RegisterRead(s)
  <2>1. \E op, k, i, change, v : Open(s, op, k, i, change, v)
    BY <1>4 DEF RegisterRead, CreateSupplier, EditSupplier, RemoveSupplier, CreateSoftware, EditSoftware,
       RemoveSoftware, CreateHoliday, EditHoliday, RemoveHoliday, CreateBalance, RemoveBalance
  <2>. QED  BY <1>2, <2>1
<1>. QED  BY <1>3, <1>4

LEMMA RegisterWritesMoveNoRecord ==
  ASSUME NEW s \in Sessions, RegisterStep(s)
  PROVE  UNCHANGED <<staff, enabled, asset, action, job, active>>
<1>1. ASSUME NEW i, NEW row, Put(s, i, row)
      PROVE  UNCHANGED <<staff, enabled, asset, action, job, active>>
  BY <1>1 DEF Put
<1>2. ASSUME Drop(s)
      PROVE  UNCHANGED <<staff, enabled, asset, action, job, active>>
  BY <1>2 DEF Drop, Refuse
<1>3. Drop(s) \/ \E i, row : Put(s, i, row)
  BY DEF RegisterStep, InsertSupplier, UpdateSupplier, DeactivateSupplier, InsertSoftware, UpdateSoftware,
     DeactivateSoftware, InsertHoliday, UpdateHoliday, DeleteHoliday, InsertBalance, DeleteBalance, Insert, Update
<1>. QED  BY <1>1, <1>2, <1>3

\* Only the writes of an employee or an asset touch those rows.
RowsWritten(s) ==
  \/ HireWrite(s) \/ EditWrite(s) \/ DeactivateWrite(s) \/ AssetWrite(s) \/ RetireWrite(s)
  \/ AppointPromote(s) \/ ConfirmRows(s)

LEMMA WhoMovesRows ==
  ASSUME [RegistersNext]_allVars, <<staff, asset>>' # <<staff, asset>>
  PROVE  \E s \in Sessions : RowsWritten(s) /\ UNCHANGED register
<1>1. CASE UNCHANGED allVars
  BY <1>1 DEF allVars, orgVars
<1>2. CASE \E s \in Sessions : RegisterRead(s) \/ RegisterStep(s)
  BY <1>2, ReadsMoveNothing, RegisterWritesMoveNoRecord
<1>3. CASE OrganizationNext /\ UNCHANGED register
  <2>1. ASSUME NEW s \in Sessions, Read(s)
        PROVE  FALSE
    BY <2>1, ReadsMoveNothing
  <2>2. ASSUME NEW s \in Sessions, Step(s)
        PROVE  RowsWritten(s)
    BY <2>2 DEF Step, RowsWritten, DepartmentWrite, AppointDemote, AppointLock, ActivateWrite, ConfirmStart,
       AnswerWrite, Refuse
  <2>3. ASSUME Stop \/ CreateAction \/ (\E s \in Sessions : Rollback(s)) \/ (\E j \in Jobs : ValidateImport(j))
        PROVE  FALSE
    BY <2>3 DEF Stop, CreateAction, Rollback, ValidateImport
  <2>. QED  BY <1>3, <2>1, <2>2, <2>3 DEF OrganizationNext
<1>. QED  BY <1>1, <1>2, <1>3 DEF RegistersNext

\* Nobody becomes terminated but by a deactivation.
LEMMA WhoIsTerminated ==
  ASSUME OrgInv, NEW s \in Sessions, HireWrite(s) \/ EditWrite(s) \/ AppointPromote(s) \/ ConfirmRows(s)
  PROVE  /\ asset' = asset
         /\ \A x \in Employees : staff'[x].status = "terminated" => staff[x].status = "terminated"
<1>0. People
  BY DEF OrgInv
<1>1. CASE HireWrite(s)
  <2>1. asset' = asset
    BY <1>1 DEF HireWrite, Refuse
  <2>2. CASE staff' = staff
    BY <2>1, <2>2
  <2>3. CASE staff' # staff
    <3>1. staff' = [staff EXCEPT ![Args(s).e] = Employee("active", Args(s).dept, Args(s).manager, "hire")]
      BY <1>1, <2>3 DEF HireWrite, Refuse
    <3>2. \A x \in Employees : staff'[x] = IF x = Args(s).e
                                          THEN Employee("active", Args(s).dept, Args(s).manager, "hire") ELSE staff[x]
      BY <1>0, <3>1 DEF People
    <3>3. Employee("active", Args(s).dept, Args(s).manager, "hire").status = "active"
      BY DEF Employee
    <3>. QED  BY <2>1, <3>2, <3>3
  <2>. QED  BY <2>2, <2>3
<1>2. CASE EditWrite(s)
  <2>1. At(s, "edit", "write") /\ asset' = asset
    BY <1>2 DEF EditWrite
  <2>2. CallOk(calls[s]) /\ calls[s].op = "edit" /\ Args(s) = calls[s].args
    BY <2>1, UnderWayAt DEF OrgInv
  <2>3. PICK e, change : e = Args(s).e /\ change = Args(s).change
    OBVIOUS
  <2>4. e \in Present /\ change \in Changes
    BY <2>2, <2>3 DEF CallOk, EditOk
  <2>5. staff' = [staff EXCEPT ![e] = Apply(staff[e], change)]
    BY <1>2, <2>3 DEF EditWrite
  <2>6. /\ \A x \in Employees \ {e} : staff'[x] = staff[x]
        /\ staff'[e].status = "terminated" => staff[e].status = "terminated"
    BY <1>0, <2>4, <2>5, EditWritten
  <2>. QED  BY <2>1, <2>6
<1>3. CASE AppointPromote(s)
  <2>1. At(s, "assign", "promote") /\ asset' = asset
    BY <1>3 DEF AppointPromote, Refuse
  <2>2. CASE staff' = staff
    BY <2>1, <2>2
  <2>3. CASE staff' # staff
    <3>1. PICK e, held : e = Args(s).e /\ held = Args(s).held
      OBVIOUS
    <3>2. e \in Present /\ held \in SUBSET Present
      BY <2>1, <3>1, Appointing
    <3>3. staff' = Promoted(e, held)
      BY <1>3, <2>3, <3>1 DEF AppointPromote, Promoted, Refuse
    <3>4. \A x \in Employees : staff'[x].status = staff[x].status
      BY <1>0, <3>2, <3>3, PromoteWritten
    <3>. QED  BY <2>1, <3>4
  <2>. QED  BY <2>2, <2>3
<1>4. CASE ConfirmRows(s)
  <2>1. At(s, "confirm", "rows") /\ asset' = asset
    BY <1>4 DEF ConfirmRows
  <2>2. CASE staff' = staff
    BY <2>1, <2>2
  <2>3. CASE staff' # staff
    <3>1. RowsFree /\ staff' = Imported
      BY <1>4, <2>3 DEF ConfirmRows
    <3>2. ManagersKnown
      BY <2>1, UnderWayAt DEF OrgInv, CallOk, ConfirmOk
    <3>3. /\ \A x \in Employees \ FileRows : staff'[x].status = staff[x].status
          /\ \A x \in FileRows : staff'[x].status = "active"
      BY <1>0, <3>1, <3>2, ImportWritten
    <3>. QED  BY <2>1, <3>3
  <2>. QED  BY <2>2, <2>3
<1>. QED  BY <1>1, <1>2, <1>3, <1>4

\* What a successful edit of an asset and a retirement write.
LEMMA AssetMoves ==
  ASSUME OrgInv, NEW s \in Sessions, AssetWrite(s), asset' # asset
  PROVE  \E x \in Assets :
           /\ \A y \in Assets \ {x} : asset'[y] = asset[y]
           /\ asset'[x].version = asset[x].version + 1
           /\ EndsCall(s) /\ calls[s].op = "asset" /\ staff' = staff
           /\ asset'[x].status = "assigned" /\ calls[s].since \cap {"deactivate"} = {} =>
                staff[asset'[x].holder].status # "terminated"
           /\ calls[s].since \cap {"retire"} = {} => asset[x].status # "retired"
<1>1. At(s, "asset", "write")
  BY DEF AssetWrite
<1>2. AssetOk(calls[s]) /\ calls[s].op = "asset" /\ calls[s] # AtRest /\ Args(s) = calls[s].args
  BY <1>1, UnderWayAt DEF OrgInv, CallOk
<1>3. PICK x, change, v : x = Args(s).e /\ change = Args(s).change /\ v = Args(s).version
  OBVIOUS
<1>4. /\ SameVersion(x, v) /\ Commit(s) /\ staff' = staff
      /\ asset' = [asset EXCEPT ![x] = [Apply(@, change) EXCEPT !.version = v + 1]]
  BY <1>3 DEF AssetWrite, Refuse
<1>5. x \in Assets /\ change \in ValidChange /\ v = asset[x].version
  BY <1>2, <1>3, <1>4 DEF AssetOk, SameVersion
<1>6. Kept
  BY DEF OrgInv
<1>7. /\ \A y \in Assets \ {x} : asset'[y] = asset[y]
      /\ asset'[x].status = change.status /\ asset'[x].version = asset[x].version + 1
      /\ asset'[x].status = "assigned" => asset'[x].holder = change.holder
  BY <1>4, <1>5, <1>6, AssetWritten
<1>8. EndsCall(s)
  BY <1>2, <1>4, Ending
<1>9. change.status = "assigned" /\ calls[s].since \cap {"deactivate"} = {} =>
        staff[change.holder].status # "terminated"
  BY <1>2, <1>3 DEF AssetOk, Untouched
<1>10. calls[s].since \cap {"retire"} = {} => asset[x].status # "retired"
  BY <1>2, <1>3, <1>5 DEF AssetOk, Untouched
<1>. QED  BY <1>2, <1>4, <1>5, <1>7, <1>8, <1>9, <1>10

LEMMA RetireMoves ==
  ASSUME OrgInv, NEW s \in Sessions, RetireWrite(s)
  PROVE  \E x \in Assets :
           /\ \A y \in Assets \ {x} : asset'[y] = asset[y]
           /\ asset'[x] = [asset[x] EXCEPT !.status = "retired"] /\ asset'[x].status = "retired"
           /\ staff' = staff
<1>1. At(s, "retire", "write") /\ staff' = staff
  BY DEF RetireWrite
<1>2. PICK x : x = Args(s).e
  OBVIOUS
<1>3. x \in Assets
  BY <1>1, <1>2, UnderWayAt DEF OrgInv, CallOk, RetireOk
<1>4. asset' = [asset EXCEPT ![x].status = "retired"]
  BY <1>2 DEF RetireWrite
<1>5. Kept
  BY DEF OrgInv
<1>. QED  BY <1>1, <1>3, <1>4, <1>5, RetireWritten

LEMMA DeactivateMoves ==
  ASSUME OrgInv, NEW s \in Sessions, DeactivateWrite(s)
  PROVE  \E e \in Present :
           /\ \A x \in Employees : /\ staff'[x].dept = staff[x].dept /\ staff'[x].manager = staff[x].manager
                                   /\ staff'[x].role = staff[x].role
                                   /\ x # e => staff'[x] = staff[x]
           /\ Present' = Present /\ asset' = asset /\ enabled' = enabled
           /\ EndsCall(s) /\ calls[s].op = "deactivate"
           /\ calls[s].since \cap {"assign", "confirm"} = {} => staff[e].role # "department_manager"
           /\ calls[s].since \cap {"asset"} = {} => AssignedTo(e) = {}
<1>1. At(s, "deactivate", "write") /\ Commit(s) /\ asset' = asset /\ enabled' = enabled
  BY DEF DeactivateWrite
<1>2. DeactivateOk(calls[s]) /\ calls[s].op = "deactivate" /\ calls[s] # AtRest /\ Args(s) = calls[s].args
  BY <1>1, UnderWayAt DEF OrgInv, CallOk
<1>3. PICK e : e = Args(s).e
  OBVIOUS
<1>4. /\ e \in Present
      /\ calls[s].since \cap {"assign", "confirm"} = {} => staff[e].role # "department_manager"
      /\ calls[s].since \cap {"asset"} = {} => AssignedTo(e) = {}
  BY <1>2, <1>3 DEF DeactivateOk, Untouched
<1>5. staff' = [staff EXCEPT ![e].status = "terminated", ![e].account = FALSE]
  BY <1>3 DEF DeactivateWrite
<1>6. EndsCall(s) /\ People
  BY <1>1, <1>2, Ending DEF OrgInv
<1>7. /\ \A x \in Employees : /\ staff'[x].dept = staff[x].dept /\ staff'[x].manager = staff[x].manager
                              /\ staff'[x].role = staff[x].role
                              /\ x # e => staff'[x] = staff[x]
      /\ Present' = Present
  BY <1>4, <1>5, <1>6, DeactivateWritten
<1>. QED  BY <1>1, <1>2, <1>4, <1>6, <1>7

LEMMA StrandsStep ==
  ASSUME OrgInv, [RegistersNext]_allVars, NEW x \in Assets, <<staff, asset>>' # <<staff, asset>>,
         Stranded(x)', ~Stranded(x)
  PROVE  EndsOvertaken("asset", {"deactivate"}) \/ EndsOvertaken("deactivate", {"asset"})
<1>1. PICK s \in Sessions : RowsWritten(s) /\ UNCHANGED register
  BY WhoMovesRows
<1>2. asset'[x].status = "assigned" /\ staff'[asset'[x].holder].status = "terminated"
  BY DEF Stranded
<1>3. ~(asset[x].status = "assigned" /\ staff[asset[x].holder].status = "terminated")
  BY DEF Stranded
<1>4. asset[x].status = "assigned" => asset[x].holder \in Employees
  BY DEF OrgInv, Kept, AssignedHasHolder, AssetRow
<1>5. CASE HireWrite(s) \/ EditWrite(s) \/ AppointPromote(s) \/ ConfirmRows(s)
  <2>1. /\ asset' = asset
        /\ \A y \in Employees : staff'[y].status = "terminated" => staff[y].status = "terminated"
    BY <1>5, WhoIsTerminated
  <2>. QED  BY <1>2, <1>3, <1>4, <2>1
<1>6. CASE DeactivateWrite(s)
  <2>1. PICK e \in Present :
           /\ \A y \in Employees : y # e => staff'[y] = staff[y]
           /\ asset' = asset /\ EndsCall(s) /\ calls[s].op = "deactivate"
           /\ calls[s].since \cap {"asset"} = {} => AssignedTo(e) = {}
    BY <1>6, DeactivateMoves
  <2>2. asset[x].status = "assigned" /\ asset[x].holder = e
    BY <1>2, <1>3, <1>4, <2>1
  <2>3. x \in AssignedTo(e)
    BY <2>2 DEF AssignedTo
  <2>. QED  BY <2>1, <2>3 DEF EndsOvertaken
<1>7. CASE AssetWrite(s)
  <2>1. CASE asset' = asset
    <3>1. staff' = staff
      BY <1>7 DEF AssetWrite, Refuse
    <3>. QED  BY <2>1, <3>1
  <2>2. CASE asset' # asset
    <3>1. PICK y \in Assets :
             /\ \A z \in Assets \ {y} : asset'[z] = asset[z]
             /\ EndsCall(s) /\ calls[s].op = "asset" /\ staff' = staff
             /\ asset'[y].status = "assigned" /\ calls[s].since \cap {"deactivate"} = {} =>
                  staff[asset'[y].holder].status # "terminated"
      BY <1>7, <2>2, AssetMoves
    <3>2. x = y
      BY <1>2, <1>3, <3>1
    <3>. QED  BY <1>2, <3>1, <3>2 DEF EndsOvertaken
  <2>. QED  BY <2>1, <2>2
<1>8. CASE RetireWrite(s)
  <2>1. PICK y \in Assets :
           /\ \A z \in Assets \ {y} : asset'[z] = asset[z]
           /\ asset'[y].status = "retired" /\ staff' = staff
    BY <1>8, RetireMoves
  <2>. QED  BY <1>2, <1>3, <2>1
<1>. QED  BY <1>1, <1>5, <1>6, <1>7, <1>8 DEF RowsWritten

LEMMA AssetSteps ==
  ASSUME OrgInv, [RegistersNext]_allVars, NEW x \in Assets, asset'[x] # asset[x]
  PROVE  /\ asset[x].status = "retired" /\ asset'[x].status # "retired" =>
              EndsOvertaken("asset", {"retire"})
         /\ \/ asset'[x].version = asset[x].version + 1
            \/ asset'[x] = [asset[x] EXCEPT !.status = "retired"]
<1>1. PICK s \in Sessions : RowsWritten(s) /\ UNCHANGED register
  BY WhoMovesRows
<1>2. CASE HireWrite(s) \/ EditWrite(s) \/ AppointPromote(s) \/ ConfirmRows(s)
  BY <1>2, WhoIsTerminated
<1>3. CASE DeactivateWrite(s)
  BY <1>3 DEF DeactivateWrite
<1>4. CASE AssetWrite(s)
  <2>1. PICK y \in Assets :
           /\ \A z \in Assets \ {y} : asset'[z] = asset[z]
           /\ asset'[y].version = asset[y].version + 1
           /\ EndsCall(s) /\ calls[s].op = "asset"
           /\ calls[s].since \cap {"retire"} = {} => asset[y].status # "retired"
    BY <1>4, AssetMoves
  <2>2. x = y
    BY <2>1
  <2>. QED  BY <2>1, <2>2 DEF EndsOvertaken
<1>5. CASE RetireWrite(s)
  <2>1. PICK y \in Assets :
           /\ \A z \in Assets \ {y} : asset'[z] = asset[z]
           /\ asset'[y] = [asset[y] EXCEPT !.status = "retired"] /\ asset'[y].status = "retired"
    BY <1>5, RetireMoves
  <2>2. x = y
    BY <2>1
  <2>. QED  BY <2>1, <2>2
<1>. QED  BY <1>1, <1>2, <1>3, <1>4, <1>5 DEF RowsWritten

\* No edit of an asset is lost; one is left with somebody who is gone only when an
\* assignment and a deactivation overlap, and comes back from retirement only when
\* its edit overlaps the retirement.
THEOREM AssetsAreKept == RegistersSpec => AssetsKept
<1>1. OrgInv /\ [RegistersNext]_allVars =>
        [\A x \in Assets : (<<staff, asset>>' # <<staff, asset>> /\ Stranded(x)' /\ ~Stranded(x)) =>
            EndsOvertaken("asset", {"deactivate"}) \/ EndsOvertaken("deactivate", {"asset"})]_orgVars
  BY StrandsStep
<1>2. OrgInv /\ [RegistersNext]_allVars =>
        [\A x \in Assets : (asset[x].status = "retired" /\ asset'[x].status # "retired") =>
            EndsOvertaken("asset", {"retire"})]_orgVars
  BY AssetSteps
<1>3. OrgInv /\ [RegistersNext]_allVars =>
        [\A x \in Assets : asset'[x] # asset[x] =>
            \/ asset'[x].version = asset[x].version + 1
            \/ asset'[x] = [asset[x] EXCEPT !.status = "retired"]]_orgVars
  BY AssetSteps
<1>. QED  BY <1>1, <1>2, <1>3, RegistersInvariant, PTL
          DEF RegistersSpec, AssetsKept, OnlyARaceStrandsAssets, OnlyARaceRevives, AssetEditsNotLost

-----------------------------------------------------------------------------
(* The registers are kept.                                                 *)

LEMMA WhoMovesRegisters ==
  ASSUME OrgInv, [RegistersNext]_allVars, register' # register
  PROVE  \E s \in Sessions, op \in {"create", "amend", "remove"}, k \in Kinds :
           Due(s, op, k) /\ \E i, row : Written(s, op, k, i, row)
<1>1. PICK s \in Sessions : RegisterRead(s) \/ RegisterStep(s)
  BY DEF RegistersNext, allVars
<1>2. ~RegisterRead(s)
  <2>1. ASSUME NEW op, NEW k, NEW i, NEW change, NEW v, Open(s, op, k, i, change, v)
        PROVE  FALSE
    BY <2>1 DEF Open
  <2>2. RegisterRead(s) => \E op, k, i, change, v : Open(s, op, k, i, change, v)
    BY DEF RegisterRead, CreateSupplier, EditSupplier, RemoveSupplier, CreateSoftware, EditSoftware,
       RemoveSoftware, CreateHoliday, EditHoliday, RemoveHoliday, CreateBalance, RemoveBalance
  <2>. QED  BY <2>1, <2>2
<1>3. RegisterStep(s) /\ ~Drop(s)
  BY <1>1, <1>2 DEF Drop
<1>. QED  BY <1>3, RegisterWrites

LEMMA OneRowMoves ==
  ASSUME OrgInv, [RegistersNext]_allVars, register' # register
  PROVE  \E s \in Sessions, op \in {"create", "amend", "remove"}, k \in Kinds, i \in Entries,
            row \in {Missing} \cup KeptRow :
           /\ EndsCall(s) /\ calls[s].op = op /\ Args(s).kind = k /\ Args(s) = calls[s].args
           /\ CreateOk(calls[s]) /\ AmendOk(calls[s]) /\ Written(s, op, k, i, row)
           /\ \A l \in Kinds, j \in Entries :
                register'[l][j] = IF l = k /\ j = i THEN row ELSE register[l][j]
<1>1. PICK s \in Sessions, op \in {"create", "amend", "remove"}, k \in Kinds :
           Due(s, op, k) /\ \E i, row : Written(s, op, k, i, row)
  BY WhoMovesRegisters
<1>2. PICK i, row : Written(s, op, k, i, row)
  BY <1>1
<1>3. /\ calls[s] # AtRest /\ calls[s].op = op /\ Args(s).kind = k /\ Args(s) = calls[s].args
      /\ CreateOk(calls[s]) /\ AmendOk(calls[s])
  BY <1>1, DueCall
<1>4. Put(s, i, row) /\ i \in Entries /\ row \in {Missing} \cup KeptRow /\ Commit(s) /\ Kept
  BY <1>2 DEF Written, Put, OrgInv
<1>5. \A l \in Kinds, j \in Entries : register'[l][j] = IF l = k /\ j = i THEN row ELSE register[l][j]
  BY <1>3, <1>4, PutWritten
<1>6. EndsCall(s)
  BY <1>3, <1>4, Ending
<1>. QED  BY <1>2, <1>3, <1>4, <1>5, <1>6

LEMMA DoubledBoth == ASSUME NEW i, NEW j, Doubled(i, j) PROVE Doubled(j, i)
BY DEF Doubled

LEMMA DoublesStep ==
  ASSUME OrgInv, [RegistersNext]_allVars, NEW i \in Entries, NEW j \in Entries,
         register' # register, Doubled(i, j)', ~Doubled(i, j)
  PROVE  \E op \in {"create", "amend"} : EndsOvertaken(op, {"create", "amend"})
<1>1. PICK s \in Sessions, op \in {"create", "amend", "remove"}, k \in Kinds, n \in Entries,
           row \in {Missing} \cup KeptRow :
        /\ EndsCall(s) /\ calls[s].op = op /\ Args(s).kind = k /\ Args(s) = calls[s].args
        /\ CreateOk(calls[s]) /\ AmendOk(calls[s]) /\ Written(s, op, k, n, row)
        /\ \A l \in Kinds, m \in Entries :
             register'[l][m] = IF l = k /\ m = n THEN row ELSE register[l][m]
  BY OneRowMoves
<1>0. "supplier" \in Kinds
  BY DEF Kinds
<1> DEFINE Pair(x, y) == /\ x # y /\ register'["supplier"][x] # Missing /\ register'["supplier"][y] # Missing
                         /\ register'["supplier"][x].key \notin Padded /\ register'["supplier"][y].key \notin Padded
                         /\ Fold[register'["supplier"][x].key] = Fold[register'["supplier"][y].key]
<1>2. Pair(i, j) /\ Pair(j, i)
  BY DEF Doubled, In
<1>3. ASSUME NEW x \in Entries, NEW y \in Entries, Pair(x, y), n # x, n # y
      PROVE  Doubled(x, y)
  <2>1. register'["supplier"][x] = register["supplier"][x] /\ register'["supplier"][y] = register["supplier"][y]
    BY <1>0, <1>1, <1>3
  <2>. QED  BY <1>3, <2>1 DEF Doubled, In
<1>4. k = "supplier"
  <2>1. SUFFICES ASSUME k # "supplier" PROVE FALSE
    OBVIOUS
  <2>2. register'["supplier"][i] = register["supplier"][i] /\ register'["supplier"][j] = register["supplier"][j]
    BY <1>0, <1>1, <2>1
  <2>. QED  BY <1>2, <2>2 DEF Doubled, In
<1>5. \A m \in Entries : register'["supplier"][m] = IF m = n THEN row ELSE register["supplier"][m]
  BY <1>0, <1>1, <1>4
<1>6. SUFFICES ASSUME Untouched(calls[s], {"create", "amend"}), op \in {"create", "amend"}
               PROVE  FALSE
  <2>1. CASE op \in {"create", "amend"}
    <3>1. ~Untouched(calls[s], {"create", "amend"})
      BY <1>6, <2>1
    <3>. QED  BY <1>1, <2>1, <3>1 DEF EndsOvertaken, Untouched
  <2>2. CASE op = "remove"
    <3>1. PICK off : off = [register["supplier"][n] EXCEPT !.active = FALSE]
      OBVIOUS
    <3>2. n \in In("supplier") /\ row \in {register["supplier"][n], off}
      BY <1>1, <1>4, <2>2, <3>1 DEF Written
    <3>3. register["supplier"][n] \in KeptRow
      BY <1>0, <3>2 DEF OrgInv, Kept, In
    <3>4. row.key = register["supplier"][n].key
      BY <3>1, <3>2, <3>3, SwitchedOff
    <3>5. \A m \in Entries : /\ register'["supplier"][m].key = register["supplier"][m].key
                             /\ register'["supplier"][m] # Missing => m \in In("supplier")
      BY <1>5, <3>2, <3>4 DEF In
    <3>. QED  BY <1>2, <3>5 DEF Doubled
  <2>. QED  BY <2>1, <2>2
<1>7. ASSUME NEW y \in Entries, Pair(n, y), ~Doubled(n, y)
      PROVE  FALSE
  <2>1. /\ y # n /\ y \in In("supplier") /\ register["supplier"][y].key \notin Padded
        /\ Fold[register["supplier"][y].key] = Fold[row.key] /\ row # Missing /\ row.key \notin Padded
    BY <1>5, <1>7 DEF In
  <2>2. y \in SupplierMatches(row.key)
    BY <2>1 DEF SupplierMatches
  <2>3. CASE op = "create"
    <3>1. row.key = calls[s].args.change.key
      BY <1>1, <2>3 DEF Written
    <3>2. SupplierMatches(calls[s].args.change.key) = {}
      BY <1>1, <1>4, <1>6, <2>3 DEF CreateOk
    <3>. QED  BY <2>2, <3>1, <3>2
  <2>4. CASE op = "amend"
    <3>1. PICK change : change = calls[s].args.change
      OBVIOUS
    <3>2. /\ n = calls[s].args.e /\ n \in In("supplier")
          /\ row.key = IF "key" \in DOMAIN change THEN change.key ELSE register["supplier"][n].key
      BY <1>1, <1>4, <2>4, <3>1 DEF Written
    <3>3. MayRename(n, change)
      BY <1>1, <1>4, <1>6, <2>4, <3>1, <3>2 DEF AmendOk
    <3>4. CASE "key" \in DOMAIN change
      <4>1. n \in SupplierMatches(row.key)
        BY <2>2, <3>2, <3>3, <3>4 DEF MayRename
      <4>2. register["supplier"][n].key \notin Padded /\ Fold[register["supplier"][n].key] = Fold[row.key]
        BY <4>1 DEF SupplierMatches
      <4>. QED  BY <1>7, <2>1, <3>2, <4>2 DEF Doubled
    <3>5. CASE "key" \notin DOMAIN change
      <4>1. row.key = register["supplier"][n].key
        BY <3>2, <3>5
      <4>. QED  BY <1>7, <2>1, <3>2, <4>1 DEF Doubled
    <3>. QED  BY <3>4, <3>5
  <2>. QED  BY <1>6, <2>3, <2>4
<1>8. ~Doubled(i, j) /\ ~Doubled(j, i)
  BY DoubledBoth
<1> HIDE DEF Pair
<1>9. CASE n = i
  BY <1>2, <1>7, <1>8, <1>9
<1>10. CASE n = j
  BY <1>2, <1>7, <1>8, <1>10
<1>11. CASE n # i /\ n # j
  BY <1>2, <1>3, <1>8, <1>11
<1>. QED  BY <1>9, <1>10, <1>11

LEMMA SoftwareStep ==
  ASSUME OrgInv, [RegistersNext]_allVars, NEW i \in In("software"), register' # register
  PROVE  \/ register'["software"][i] = register["software"][i]
         \/ register'["software"][i].version = register["software"][i].version + 1
         \/ register'["software"][i] = [register["software"][i] EXCEPT !.active = FALSE]
<1>0. "software" \in Kinds /\ i \in Entries
  BY DEF Kinds, In
<1>1. PICK s \in Sessions, op \in {"create", "amend", "remove"}, k \in Kinds, n \in Entries,
           row \in {Missing} \cup KeptRow :
        /\ Written(s, op, k, n, row)
        /\ \A l \in Kinds, m \in Entries :
             register'[l][m] = IF l = k /\ m = n THEN row ELSE register[l][m]
  BY OneRowMoves
<1>2. CASE k = "software" /\ i = n
  <2>1. register'["software"][i] = row /\ op # "create"
    BY <1>0, <1>1, <1>2 DEF Written
  <2>2. CASE op = "amend"
    <3>1. row.version = register["software"][i].version + 1
      BY <1>1, <1>2, <2>2 DEF Written
    <3>. QED  BY <2>1, <3>1
  <2>3. CASE op = "remove"
    <3>1. row \in {register["software"][i], [register["software"][i] EXCEPT !.active = FALSE]}
      BY <1>1, <1>2, <2>3 DEF Written
    <3>. QED  BY <2>1, <3>1
  <2>. QED  BY <2>1, <2>2, <2>3
<1>3. CASE ~(k = "software" /\ i = n)
  BY <1>0, <1>1, <1>3
<1>. QED  BY <1>2, <1>3

LEMMA HolidayStep ==
  ASSUME OrgInv, [RegistersNext]_allVars, NEW i \in Entries, i \notin In("holiday"), i \in In("holiday")'
  PROVE  \E s \in Sessions : EndsCall(s) /\ calls[s].op = "create"
<1>0. "holiday" \in Kinds
  BY DEF Kinds
<1>1. register["holiday"][i] = Missing /\ register'["holiday"][i] # Missing
  BY DEF In
<1>2. PICK s \in Sessions, op \in {"create", "amend", "remove"}, k \in Kinds, n \in Entries,
           row \in {Missing} \cup KeptRow :
        /\ EndsCall(s) /\ calls[s].op = op /\ Written(s, op, k, n, row)
        /\ \A l \in Kinds, m \in Entries :
             register'[l][m] = IF l = k /\ m = n THEN row ELSE register[l][m]
  BY <1>1, OneRowMoves
<1>3. k = "holiday" /\ n = i /\ row # Missing
  BY <1>0, <1>1, <1>2
<1>4. op = "create"
  BY <1>1, <1>2, <1>3 DEF Written
<1>. QED  BY <1>2, <1>4

LEMMA WriterStep ==
  ASSUME OrgInv, NEW s \in Sessions, Registering(s), Args(s).by # Company,
         calls[s].since \cap {"edit", "assign", "deactivate", "confirm"} = {}
  PROVE  /\ staff[Args(s).by].account /\ staff[Args(s).by].role = "department_manager"
         /\ Args(s).kind \in Holds[staff[Args(s).by].dept]
<1>1. WriterOk(calls[s])
  BY DEF OrgInv, UnderWay, CallOk, CreateOk, AmendOk, RemoveOk, Registering
<1>2. Args(s).by \in Writers(Args(s).kind)
  BY <1>1 DEF WriterOk, Untouched, Args
<1>. QED  BY <1>2 DEF Writers

\* Suppliers are doubled only by calls that overlap, no edit of the catalogue is
\* lost, a removed holiday stays removed, and whoever writes a register still is
\* the company or the manager of its department unless his call had begun before.
THEOREM RegistersAreKept == RegistersSpec => RegistersKept
<1>1. OrgInv /\ [RegistersNext]_allVars =>
        [\A i, j \in Entries : (register' # register /\ Doubled(i, j)' /\ ~Doubled(i, j)) =>
            \E op \in {"create", "amend"} : EndsOvertaken(op, {"create", "amend"})]_allVars
  BY DoublesStep
<1>2. OrgInv /\ [RegistersNext]_allVars =>
        [\A i \in In("software") :
            LET old == register["software"][i]
                new == register'["software"][i]
            IN new = old \/ new.version = old.version + 1 \/ new = [old EXCEPT !.active = FALSE]]_allVars
  BY SoftwareStep
<1>3. OrgInv /\ [RegistersNext]_allVars =>
        [\A i \in Entries : (i \notin In("holiday") /\ i \in In("holiday")') =>
            \E s \in Sessions : EndsCall(s) /\ calls[s].op = "create"]_allVars
  BY HolidayStep
<1>4. OrgInv /\ [RegistersNext]_allVars =>
        [\A s \in Sessions :
        (/\ register' # register /\ EndsCall(s) /\ Registering(s) /\ Args(s).by # Company
         /\ calls[s].since \cap {"edit", "assign", "deactivate", "confirm"} = {})
        => LET p == staff[Args(s).by] IN
           p.account /\ p.role = "department_manager" /\ Args(s).kind \in Holds[p.dept]]_allVars
  BY WriterStep
<1>. QED  BY <1>1, <1>2, <1>3, <1>4, RegistersInvariant, PTL
          DEF RegistersSpec, RegistersKept, OnlyARaceDoublesASupplier, SoftwareEditsNotLost, RemovedStays,
              ManagersKeepTheirOwn

-----------------------------------------------------------------------------
(* The people are led.                                                     *)

\* Only the call that commits ends.
LEMMA OneEnds ==
  ASSUME OrgInv, NEW t \in Sessions, calls[t] # AtRest, Commit(t), NEW s \in Sessions, EndsCall(s)
  PROVE  s = t
<1>1. SUFFICES ASSUME s # t PROVE FALSE
  OBVIOUS
<1>2. calls[s] # AtRest /\ calls'[s] = AtRest
  BY DEF EndsCall
<1>3. calls'[s] = Overtaken(calls[s], calls[t].op)
  BY <1>1, <1>2 DEF Commit, Overtake, Overtaken
<1>4. CallShape(calls[s]) /\ CallShape(calls[t]) /\ calls[t].op \in Operations
  BY DEF OrgInv, UnderWay, CallOk, CallShape
<1>5. PICK c : c = calls[s]
  OBVIOUS
<1>6. PICK o \in Operations : o = calls[t].op
  BY <1>4
<1>7. Overtaken(c, o) # AtRest
  BY <1>2, <1>4, <1>5, OvertakenShape
<1>. QED  BY <1>2, <1>3, <1>5, <1>6, <1>7

LEMMA HireMoves ==
  ASSUME OrgInv, NEW s \in Sessions, HireWrite(s), staff' # staff
  PROVE  \E e \in Employees \ Present :
           /\ \A x \in Employees \ {e} : staff'[x] = staff[x]
           /\ staff'[e].status = "active" /\ staff'[e].manager \in Present \cup {Nil}
           /\ EndsCall(s) /\ Present' = Present \cup {e}
<1>1. At(s, "hire", "write")
  BY DEF HireWrite
<1>2. HireOk(calls[s]) /\ calls[s].op = "hire" /\ calls[s] # AtRest /\ Args(s) = calls[s].args /\ People
  BY <1>1, UnderWayAt DEF OrgInv, CallOk
<1>3. PICK e, d, m : e = Args(s).e /\ d = Args(s).dept /\ m = Args(s).manager
  OBVIOUS
<1>4. PICK row : row = Employee("active", d, m, "hire")
  OBVIOUS
<1>5. /\ e \notin Present /\ Commit(s) /\ staff' = [staff EXCEPT ![e] = row]
  BY <1>3, <1>4 DEF HireWrite, Refuse
<1>6. e \in Employees /\ m \in Present \cup {Nil}
  BY <1>2, <1>3 DEF HireOk
<1>7. row.status = "active" /\ row.manager = m
  BY <1>4 DEF Employee
<1>8. \A x \in Employees : staff'[x] = IF x = e THEN row ELSE staff[x]
  BY <1>2, <1>5 DEF People
<1>9. Present' = Present \cup {e}
  BY <1>6, <1>7, <1>8 DEF Present
<1>. QED  BY <1>2, <1>5, <1>6, <1>7, <1>8, <1>9, Ending

LEMMA EditMoves ==
  ASSUME OrgInv, NEW s \in Sessions, EditWrite(s)
  PROVE  \E e \in Present, change \in Changes :
           /\ change = Args(s).change /\ Present' = Present
           /\ \A x \in Employees \ {e} : staff'[x] = staff[x]
           /\ staff'[e].role = staff[e].role /\ staff'[e].account = staff[e].account
           /\ staff'[e].manager = IF "manager" \in DOMAIN change THEN change.manager ELSE staff[e].manager
           /\ staff'[e].dept = IF "dept" \in DOMAIN change THEN change.dept ELSE staff[e].dept
           /\ EndsCall(s) /\ calls[s].op = "edit" /\ At(s, "edit", "write")
           /\ "manager" \in DOMAIN change /\ calls[s].since \cap {"edit"} = {} =>
                \E U \in SUBSET Employees : Line(U, e, change.manager)
<1>1. At(s, "edit", "write") /\ Commit(s)
  BY DEF EditWrite
<1>2. EditOk(calls[s]) /\ calls[s].op = "edit" /\ calls[s] # AtRest /\ Args(s) = calls[s].args /\ People
  BY <1>1, UnderWayAt DEF OrgInv, CallOk
<1>3. PICK e, change : e = Args(s).e /\ change = Args(s).change
  OBVIOUS
<1>4. /\ e \in Present /\ change \in Changes
      /\ "manager" \in DOMAIN change /\ calls[s].since \cap {"edit"} = {} =>
           \E U \in SUBSET Employees : Line(U, e, change.manager)
  BY <1>2, <1>3 DEF EditOk, Untouched
<1>5. staff' = [staff EXCEPT ![e] = Apply(staff[e], change)]
  BY <1>3 DEF EditWrite
<1>6. /\ \A x \in Employees \ {e} : staff'[x] = staff[x]
      /\ staff'[e].role = staff[e].role /\ staff'[e].account = staff[e].account
      /\ staff'[e].manager = IF "manager" \in DOMAIN change THEN change.manager ELSE staff[e].manager
      /\ staff'[e].dept = IF "dept" \in DOMAIN change THEN change.dept ELSE staff[e].dept
      /\ Present' = Present
  BY <1>2, <1>4, <1>5, EditWritten
<1>7. EndsCall(s)
  BY <1>1, <1>2, Ending
<1>. QED  BY <1>1, <1>2, <1>3, <1>4, <1>6, <1>7

\* What an appointment of e writes, that demotes held.
Replaces(s, e, held) ==
  /\ e = Args(s).e /\ held = Args(s).held /\ staff[e].account = TRUE
  /\ \A x \in Employees :
       /\ staff'[x].dept = staff[x].dept /\ staff'[x].manager = staff[x].manager
       /\ staff'[x].account = staff[x].account
       /\ staff'[x].role = IF x = e THEN "department_manager"
                           ELSE IF x \in held THEN "employee" ELSE staff[x].role
  /\ Present' = Present /\ EndsCall(s) /\ calls[s].op = "assign"
  /\ calls[s].since \cap {"edit"} = {} => \A x \in {e} \cup held : staff[x].dept = Args(s).dept
  /\ calls[s].since \cap {"assign", "confirm", "edit"} = {} => held = Managers(Args(s).dept)

LEMMA PromoteMoves ==
  ASSUME OrgInv, NEW s \in Sessions, AppointPromote(s), staff' # staff
  PROVE  \E e \in Present, held \in SUBSET Present : Replaces(s, e, held)
<1>1. At(s, "assign", "promote")
  BY DEF AppointPromote
<1>2. AssignOk(calls[s]) /\ calls[s].op = "assign" /\ calls[s].at = "promote" /\ calls[s] # AtRest
      /\ Args(s) = calls[s].args /\ People
  BY <1>1, UnderWayAt DEF OrgInv, CallOk
<1>3. PICK e, held : e = Args(s).e /\ held = Args(s).held
  OBVIOUS
<1>4. /\ e \in Present /\ held \in SUBSET Present
      /\ calls[s].since \cap {"edit"} = {} => \A x \in {e} \cup held : staff[x].dept = Args(s).dept
      /\ calls[s].since \cap {"assign", "confirm", "edit"} = {} => held = Managers(Args(s).dept)
  BY <1>2, <1>3 DEF AssignOk, Untouched
<1>5. staff[e].account /\ Commit(s) /\ staff' = Promoted(e, held)
  BY <1>3 DEF AppointPromote, Promoted, Refuse
<1>6. staff[e].account = TRUE
  <2>1. staff[e].account \in BOOLEAN
    BY <1>2, <1>4 DEF People, StaffRow, Present
  <2>. QED  BY <1>5, <2>1
<1>7. /\ \A x \in Employees :
              /\ staff'[x].dept = staff[x].dept
              /\ staff'[x].manager = staff[x].manager /\ staff'[x].account = staff[x].account
              /\ staff'[x].role = IF x = e THEN "department_manager"
                                  ELSE IF x \in held THEN "employee" ELSE staff[x].role
      /\ Present' = Present
  BY <1>2, <1>4, <1>5, PromoteWritten
<1>8. EndsCall(s)
  BY <1>2, <1>5, Ending
<1>9. Replaces(s, e, held)
  BY <1>2, <1>3, <1>4, <1>6, <1>7, <1>8 DEF Replaces
<1>. QED  BY <1>4, <1>9

LEMMA ImportMoves ==
  ASSUME OrgInv, NEW s \in Sessions, ConfirmRows(s), staff' # staff
  PROVE  /\ FileRows \cap Present = {} /\ Present' = Present \cup FileRows
         /\ EndsCall(s) /\ At(s, "confirm", "rows")
         /\ \A x \in Present :
              /\ staff'[x].dept = staff[x].dept /\ staff'[x].manager = staff[x].manager
              /\ staff'[x].account = staff[x].account
              /\ staff[x].role = "department_manager" => staff'[x].role = "department_manager"
         /\ \A x \in FileRows : staff'[x].manager = IF File[x].manager = x THEN Nil ELSE File[x].manager
<1>1. At(s, "confirm", "rows") /\ Commit(s) /\ RowsFree /\ staff' = Imported
  BY DEF ConfirmRows
<1>2. ManagersKnown /\ People /\ calls[s] # AtRest
  BY <1>1, UnderWayAt DEF OrgInv, CallOk, ConfirmOk
<1>3. EndsCall(s)
  BY <1>1, <1>2, Ending
<1>4. FileRows \cap Present = {} /\ Present \subseteq Employees
  BY <1>1 DEF RowsFree, Present
<1>5. /\ \A x \in Employees \ FileRows :
              /\ staff'[x].dept = staff[x].dept
              /\ staff'[x].manager = staff[x].manager /\ staff'[x].account = staff[x].account
              /\ staff'[x].role = IF x \in Named THEN "department_manager" ELSE staff[x].role
      /\ \A x \in FileRows : staff'[x].manager = IF File[x].manager = x THEN Nil ELSE File[x].manager
      /\ Present' = Present \cup FileRows
  BY <1>1, <1>2, ImportWritten
<1>. QED  BY <1>1, <1>3, <1>4, <1>5

\* The appointment.
LEMMA ReplacesStep ==
  ASSUME OrgInv, [RegistersNext]_allVars, NEW s \in Sessions, At(s, "assign", "promote"), EndsCall(s),
         staff' # staff, calls[s].since \cap {"assign", "confirm", "edit"} = {},
         NEW d \in Departments, Args(s).dept = d
  PROVE  Managers(d)' = {Args(s).e}
<1>1. PICK t \in Sessions : RowsWritten(t)
  BY WhoMovesRows
<1>2. Commit(t) /\ \E op, step : At(t, op, step) /\ op # "none"
  BY <1>1 DEF RowsWritten, HireWrite, EditWrite, DeactivateWrite, AssetWrite, RetireWrite, AppointPromote,
     ConfirmRows, Refuse
<1>3. calls[t] # AtRest
  BY <1>2, UnderWayAt DEF OrgInv
<1>4. t = s
  BY <1>2, <1>3, OneEnds
<1>5. AppointPromote(s)
  BY <1>1, <1>4 DEF RowsWritten, At, HireWrite, EditWrite, DeactivateWrite, AssetWrite, RetireWrite, ConfirmRows
<1>6. PICK e \in Present, held \in SUBSET Present : Replaces(s, e, held)
  BY <1>5, PromoteMoves
<1>7. held = Managers(d) /\ staff[e].dept = d /\ Present \subseteq Employees
  BY <1>6 DEF Present, Replaces
<1>8. /\ e = Args(s).e /\ Present' = Present
      /\ \A x \in Employees :
           /\ staff'[x].dept = staff[x].dept
           /\ staff'[x].role = IF x = e THEN "department_manager"
                               ELSE IF x \in held THEN "employee" ELSE staff[x].role
  BY <1>6 DEF Replaces
<1>9. ASSUME NEW x \in Present, staff'[x].dept = d, staff'[x].role = "department_manager"
      PROVE  x = e
  <2>1. SUFFICES ASSUME x # e PROVE FALSE
    OBVIOUS
  <2>2. x \notin held /\ staff[x].role = "department_manager" /\ staff[x].dept = d
    BY <1>7, <1>8, <1>9, <2>1
  <2>. QED  BY <1>7, <2>2 DEF Managers
<1>10. staff'[e].dept = d /\ staff'[e].role = "department_manager"
  BY <1>7, <1>8
<1>11. {x \in Present' : staff'[x].dept = d /\ staff'[x].role = "department_manager"} = {e}
  BY <1>8, <1>9, <1>10
<1>12. Managers(d)' = {x \in Present' : staff'[x].dept = d /\ staff'[x].role = "department_manager"}
  BY DEF Managers
<1>. QED  BY <1>8, <1>11, <1>12

\* The coverage.
LEMMA CoverageStep ==
  ASSUME OrgInv, [RegistersNext]_allVars, NEW d \in Departments, staff' # staff,
         NEW p \in ActiveManagers(d), ActiveManagers(d)' = {}
  PROVE  \/ \E s \in Sessions : EndsCall(s) /\ At(s, "edit", "write") /\ "dept" \in DOMAIN Args(s).change
         \/ EndsOvertaken("deactivate", {"assign", "confirm"})
         \/ EndsOvertaken("assign", {"edit"})
<1>1. PICK s \in Sessions : RowsWritten(s)
  BY WhoMovesRows
<1>2. /\ p \in Present /\ p \in Employees /\ staff[p].dept = d /\ staff[p].role = "department_manager"
      /\ staff[p].account
  BY DEF ActiveManagers, Managers, Present
<1>3. ASSUME NEW x \in Present', staff'[x].dept = d, staff'[x].role = "department_manager", staff'[x].account
      PROVE  FALSE
  BY <1>3 DEF ActiveManagers, Managers
<1>4. CASE HireWrite(s)
  <2>1. PICK e \in Employees \ Present : /\ \A x \in Employees \ {e} : staff'[x] = staff[x]
                                         /\ Present' = Present \cup {e}
    BY <1>4, HireMoves
  <2>2. staff'[p] = staff[p] /\ p \in Present'
    BY <1>2, <2>1
  <2>. QED  BY <1>2, <1>3, <2>2
<1>5. CASE EditWrite(s)
  <2>1. PICK e \in Present, change \in Changes :
           /\ change = Args(s).change /\ Present' = Present
           /\ \A x \in Employees \ {e} : staff'[x] = staff[x]
           /\ staff'[e].role = staff[e].role /\ staff'[e].account = staff[e].account
           /\ staff'[e].dept = IF "dept" \in DOMAIN change THEN change.dept ELSE staff[e].dept
           /\ EndsCall(s) /\ At(s, "edit", "write")
    BY <1>5, EditMoves
  <2>2. SUFFICES ASSUME "dept" \notin DOMAIN change PROVE FALSE
    BY <2>1
  <2>3. /\ staff'[p].role = staff[p].role /\ staff'[p].account = staff[p].account
        /\ staff'[p].dept = staff[p].dept /\ p \in Present'
    BY <1>2, <2>1, <2>2
  <2>. QED  BY <1>2, <1>3, <2>3
<1>6. CASE DeactivateWrite(s)
  <2>1. PICK e \in Present :
           /\ \A x \in Employees : x # e => staff'[x] = staff[x]
           /\ Present' = Present /\ EndsCall(s) /\ calls[s].op = "deactivate"
           /\ calls[s].since \cap {"assign", "confirm"} = {} => staff[e].role # "department_manager"
    BY <1>6, DeactivateMoves
  <2>2. CASE p = e
    BY <1>2, <2>1, <2>2 DEF EndsOvertaken
  <2>3. CASE p # e
    <3>1. staff'[p] = staff[p] /\ p \in Present'
      BY <1>2, <2>1, <2>3
    <3>. QED  BY <1>2, <1>3, <3>1
  <2>. QED  BY <2>2, <2>3
<1>7. CASE AppointPromote(s)
  <2>0. PICK e \in Present, held \in SUBSET Present : Replaces(s, e, held)
    BY <1>7, PromoteMoves
  <2>1. /\ staff[e].account = TRUE
        /\ \A x \in Employees :
             /\ staff'[x].dept = staff[x].dept /\ staff'[x].account = staff[x].account
             /\ staff'[x].role = IF x = e THEN "department_manager"
                                 ELSE IF x \in held THEN "employee" ELSE staff[x].role
        /\ Present' = Present /\ EndsCall(s) /\ calls[s].op = "assign"
        /\ calls[s].since \cap {"edit"} = {} => \A x \in {e} \cup held : staff[x].dept = Args(s).dept
    BY <2>0 DEF Replaces
  <2>2. SUFFICES ASSUME calls[s].since \cap {"edit"} = {} PROVE FALSE
    BY <2>1 DEF EndsOvertaken
  <2>3. e \in Employees /\ e \in Present'
    BY <2>1 DEF Present
  <2>4. p \in held
    <3>1. SUFFICES ASSUME p \notin held PROVE FALSE
      OBVIOUS
    <3>2. staff'[p].role = "department_manager" /\ staff'[p].account = staff[p].account
          /\ staff'[p].dept = d /\ p \in Present'
      BY <1>2, <2>1, <3>1
    <3>. QED  BY <1>2, <1>3, <3>2
  <2>5. staff[e].dept = d
    BY <1>2, <2>1, <2>2, <2>4
  <2>6. staff'[e].role = "department_manager" /\ staff'[e].dept = d /\ staff'[e].account = TRUE
    BY <2>1, <2>3, <2>5
  <2>. QED  BY <1>3, <2>3, <2>6
<1>8. CASE ConfirmRows(s)
  <2>1. /\ Present' = Present \cup FileRows
        /\ staff'[p].dept = staff[p].dept /\ staff'[p].account = staff[p].account
        /\ staff'[p].role = "department_manager"
    BY <1>2, <1>8, ImportMoves
  <2>. QED  BY <1>2, <1>3, <2>1
<1>9. CASE AssetWrite(s) \/ RetireWrite(s)
  BY <1>9 DEF AssetWrite, RetireWrite, Refuse
<1>. QED  BY <1>1, <1>4, <1>5, <1>6, <1>7, <1>8, <1>9 DEF RowsWritten

\* The activation.
LEMMA ActivationStep ==
  ASSUME OrgInv, [RegistersNext]_allVars, ~active, active'
  PROVE  Ready \/ EndsOvertaken("activate", {"edit", "deactivate", "department", "assign"})
<1>1. PICK s \in Sessions : ActivateWrite(s)
  <2>1. CASE UNCHANGED allVars
    BY <2>1 DEF allVars, orgVars
  <2>2. CASE \E t \in Sessions : RegisterRead(t) \/ RegisterStep(t)
    BY <2>2, ReadsMoveNothing, RegisterWritesMoveNoRecord
  <2>3. CASE OrganizationNext
    <3>1. ASSUME NEW t \in Sessions, Read(t)
          PROVE  FALSE
      BY <3>1, ReadsMoveNothing
    <3>2. ASSUME NEW t \in Sessions, Step(t)
          PROVE  ActivateWrite(t)
      BY <3>2 DEF Step, HireWrite, EditWrite, DeactivateWrite, DepartmentWrite, AssetWrite, RetireWrite,
         AppointDemote, AppointLock, AppointPromote, ConfirmStart, ConfirmRows, AnswerWrite, Refuse
    <3>3. ASSUME Stop \/ CreateAction \/ (\E t \in Sessions : Rollback(t)) \/ (\E j \in Jobs : ValidateImport(j))
          PROVE  FALSE
      BY <3>3 DEF Stop, CreateAction, Rollback, ValidateImport
    <3>. QED  BY <2>3, <3>1, <3>2, <3>3 DEF OrganizationNext
  <2>. QED  BY <2>1, <2>2, <2>3 DEF RegistersNext
<1>2. At(s, "activate", "write") /\ Commit(s)
  BY <1>1 DEF ActivateWrite
<1>3. ActivateOk(calls[s]) /\ calls[s].op = "activate" /\ calls[s] # AtRest
  BY <1>2, UnderWayAt DEF OrgInv, CallOk
<1>4. EndsCall(s)
  BY <1>2, <1>3, Ending
<1>. QED  BY <1>3, <1>4 DEF ActivateOk, Untouched, EndsOvertaken

\* The cycles.
LEMMA CycleStep ==
  ASSUME OrgInv, [RegistersNext]_allVars, staff' # staff, NoCycle,
         NEW S \in SUBSET (Present'), InACircle(S)'
  PROVE  \/ EndsOvertaken("edit", {"edit"})
         \/ (FileHasCycle /\ \E s \in Sessions : At(s, "confirm", "rows") /\ EndsCall(s))
<1>1. PICK s \in Sessions : RowsWritten(s)
  BY WhoMovesRows
<1>2. S # {} /\ \A x \in S : staff'[x].manager \in S
  BY DEF InACircle
<1>3. ASSUME NEW C \in SUBSET Present, C # {}, \A x \in C : staff[x].manager \in C
      PROVE  FALSE
  BY <1>3 DEF NoCycle, InACircle
<1>4. S \subseteq Employees /\ Nil \notin S /\ Present \subseteq Employees
  BY OrganizationAssumption DEF Present
<1>5. \A x \in Present : staff[x].manager \in Present \cup {Nil}
  BY DEF OrgInv, People
<1>6. CASE HireWrite(s)
  <2>1. PICK e \in Employees \ Present :
           /\ \A x \in Employees \ {e} : staff'[x] = staff[x]
           /\ staff'[e].manager \in Present \cup {Nil} /\ Present' = Present \cup {e}
    BY <1>6, HireMoves
  <2>2. PICK C : C = S \ {e}
    OBVIOUS
  <2>3. C \in SUBSET Present
    BY <2>1, <2>2
  <2>4. \A x \in S : staff'[x].manager \in C
    <3>1. \A x \in S : staff'[x].manager \in Present \cup {Nil}
      BY <1>4, <1>5, <2>1
    <3>. QED  BY <1>2, <1>4, <2>1, <2>2, <3>1
  <2>5. C # {} /\ \A x \in C : staff[x].manager \in C
    BY <1>2, <1>4, <2>1, <2>2, <2>4
  <2>. QED  BY <1>3, <2>3, <2>5
<1>7. CASE EditWrite(s)
  <2>1. PICK e \in Present, change \in Changes :
           /\ Present' = Present
           /\ \A x \in Employees \ {e} : staff'[x] = staff[x]
           /\ staff'[e].manager = IF "manager" \in DOMAIN change THEN change.manager ELSE staff[e].manager
           /\ EndsCall(s) /\ calls[s].op = "edit"
           /\ "manager" \in DOMAIN change /\ calls[s].since \cap {"edit"} = {} =>
                \E U \in SUBSET Employees : Line(U, e, change.manager)
    BY <1>7, EditMoves
  <2>2. CASE "manager" \notin DOMAIN change
    <3>1. \A x \in S : staff[x].manager \in S
      BY <1>2, <1>4, <2>1, <2>2
    <3>. QED  BY <1>2, <1>3, <2>1, <3>1
  <2>3. CASE "manager" \in DOMAIN change /\ calls[s].since \cap {"edit"} = {}
    <3>1. PICK U \in SUBSET Employees : Line(U, e, change.manager)
      BY <2>1, <2>3
    <3>2. /\ U \subseteq Present /\ staff'[e].manager \in U /\ e \notin U
          /\ \A x \in U : staff[x].manager \in U \cup {Nil}
      BY <2>1, <2>3, <3>1 DEF Line
    <3>3. CASE S \cap U = {}
      <4>1. e \notin S
        BY <1>2, <3>2, <3>3
      <4>2. \A x \in S : staff[x].manager \in S
        BY <1>2, <1>4, <2>1, <4>1
      <4>. QED  BY <1>2, <1>3, <2>1, <4>2
    <3>4. CASE S \cap U # {}
      <4>1. PICK C : C = S \cap U
        OBVIOUS
      <4>2. \A x \in C : staff[x].manager \in C
        <5>1. \A x \in C : staff'[x] = staff[x] /\ staff'[x].manager \in S
          BY <1>2, <1>4, <2>1, <3>2, <4>1
        <5>. QED  BY <1>4, <3>2, <4>1, <5>1
      <4>3. C \in SUBSET Present /\ C # {}
        BY <3>2, <3>4, <4>1
      <4>. QED  BY <1>3, <4>2, <4>3
    <3>. QED  BY <3>3, <3>4
  <2>4. CASE calls[s].since \cap {"edit"} # {}
    BY <2>1, <2>4 DEF EndsOvertaken
  <2>. QED  BY <2>2, <2>3, <2>4
<1>8. CASE DeactivateWrite(s) \/ AppointPromote(s)
  <2>1. Present' = Present /\ \A x \in Employees : staff'[x].manager = staff[x].manager
    <3>1. CASE DeactivateWrite(s)
      BY <3>1, DeactivateMoves
    <3>2. CASE AppointPromote(s)
      BY <3>2, PromoteMoves DEF Replaces
    <3>. QED  BY <1>8, <3>1, <3>2
  <2>2. \A x \in S : staff[x].manager \in S
    BY <1>2, <1>4, <2>1
  <2>. QED  BY <1>2, <1>3, <2>1, <2>2
<1>9. CASE ConfirmRows(s)
  <2>1. /\ FileRows \cap Present = {} /\ Present' = Present \cup FileRows
        /\ EndsCall(s) /\ At(s, "confirm", "rows")
        /\ \A x \in Present : staff'[x].manager = staff[x].manager
        /\ \A x \in FileRows : staff'[x].manager = IF File[x].manager = x THEN Nil ELSE File[x].manager
    BY <1>9, ImportMoves
  <2>2. S \cap Present = {}
    <3>1. PICK C : C = S \cap Present
      OBVIOUS
    <3>2. \A x \in C : staff[x].manager \in C
      BY <1>2, <1>4, <1>5, <2>1, <3>1
    <3>. QED  BY <1>3, <3>1, <3>2
  <2>3. S \in (SUBSET FileRows) \ {{}}
    BY <1>2, <2>1, <2>2
  <2>4. \A x \in S : File[x].manager \in S \ {x}
    <3>1. \A x \in S : (IF File[x].manager = x THEN Nil ELSE File[x].manager) \in S
      BY <1>2, <2>1, <2>3
    <3>. QED  BY <1>4, <3>1
  <2>5. FileHasCycle
    BY <2>3, <2>4 DEF FileHasCycle
  <2>. QED  BY <2>1, <2>5
<1>10. CASE AssetWrite(s) \/ RetireWrite(s)
  BY <1>10 DEF AssetWrite, RetireWrite, Refuse
<1>. QED  BY <1>1, <1>6, <1>7, <1>8, <1>9, <1>10 DEF RowsWritten

\* The reporting lines form no cycle, an appointment leaves one manager, a
\* department that is enabled keeps one, and a company is activated with its
\* checklist fulfilled, but for the races and the file that the properties name.
THEOREM PeopleAreAlwaysLed == RegistersSpec => PeopleAreLed
<1>1. OrgInv /\ [RegistersNext]_allVars =>
        [(staff' # staff /\ NoCycle /\ ~NoCycle') =>
            EndsOvertaken("edit", {"edit"})
            \/ (FileHasCycle /\ \E s \in Sessions : At(s, "confirm", "rows") /\ EndsCall(s))]_orgVars
  <2>1. ~NoCycle' => \E S \in SUBSET (Present') : InACircle(S)'
    BY DEF NoCycle
  <2>. QED  BY <2>1, CycleStep
<1>2. OrgInv /\ [RegistersNext]_allVars =>
        [\A s \in Sessions, d \in Departments :
        (/\ At(s, "assign", "promote") /\ EndsCall(s) /\ staff' # staff
         /\ Args(s).dept = d
         /\ calls[s].since \cap {"assign", "confirm", "edit"} = {})
        => Managers(d)' = {Args(s).e}]_orgVars
  BY ReplacesStep
<1>3. OrgInv /\ [RegistersNext]_allVars =>
        [\A d \in Departments : (staff' # staff /\ enabled[d] /\ ActiveManagers(d) # {} /\ ActiveManagers(d)' = {}) =>
        \/ \E s \in Sessions : EndsCall(s) /\ At(s, "edit", "write") /\ "dept" \in DOMAIN Args(s).change
        \/ EndsOvertaken("deactivate", {"assign", "confirm"})
        \/ EndsOvertaken("assign", {"edit"})]_orgVars
  BY CoverageStep
<1>4. OrgInv /\ [RegistersNext]_allVars =>
        [(~active /\ active') =>
        Ready \/ EndsOvertaken("activate", {"edit", "deactivate", "department", "assign"})]_orgVars
  BY ActivationStep
<1>. QED  BY <1>1, <1>2, <1>3, <1>4, RegistersInvariant, PTL
          DEF RegistersSpec, PeopleAreLed, OnlyOverlappingEditsCloseACycle, AppointmentReplaces, CoverageIsKept,
              ActivatedWhenReady
===============================================================================
