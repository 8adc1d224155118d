------------------------------- MODULE Ranking -------------------------------
(***************************************************************************)
(* How ZZ judges an item (worklist/score.go) and orders a list             *)
(* (worklist/sort.go), as operators.  Axes and the rank are in thousandths *)
(* and time is in days: where the code divides floating point numbers, the *)
(* result is rounded down here.  The explanations a score carries are left *)
(* out.                                                                    *)
(***************************************************************************)
EXTENDS Integers, Sequences, FiniteSets, FiniteSetsExt

CONSTANTS NoProposal, \* no ranker has run
          NoResearch  \* the item's thread was never weighed

One == 1000

Between(x, low, high) == IF x < low THEN low ELSE IF x > high THEN high ELSE x

ClampUnit(x) == Between(x, 0, One)

\* A multiplier is in hundredths.
ClampMult(m) == Between(m, 0, 200)

-----------------------------------------------------------------------------
(***************************************************************************)
(* The four axes, from an item's signals                                   *)
(***************************************************************************)

ReasonWeight ==
    [review_requested |-> 1000, assignee |-> 900, codeowner |-> 800, author |-> 600,
     commented |-> 500, mentioned |-> 500, team_mentioned |-> 400]

\* The strongest reason, and a little for each further one.
RelevanceScore(s) ==
    IF s.reasons = <<>> THEN 0
    ELSE LET best == Max({ReasonWeight[s.reasons[i]] : i \in DOMAIN s.reasons})
         IN  ClampUnit(best + 50 * (Len(s.reasons) - 1))

\* mutant: the ramp runs the wrong way
DeadlineUrgencyDown(due, now) ==
    LET days == due - now
    IN  IF days <= 0 THEN 0 ELSE IF days >= 30 THEN One ELSE (One * days) \div 30

DeadlineUrgency(due, now) ==
    LET days == due - now
    IN  IF days <= 0 THEN One ELSE IF days >= 30 THEN 0 ELSE One - (One * days) \div 30

AskUrgency(since, now) ==
    LET u == 600 + 100 * (now - since) IN IF u > One THEN One ELSE u

ReviewRequested(s) == \E i \in DOMAIN s.reasons : s.reasons[i] = "review_requested"

\* The strongest of an outstanding ask, a review request and a deadline.
UrgencyScore(s, now) ==
    Max({0}
        \union (IF s.awaitingMe = 0 THEN {} ELSE {AskUrgency(s.awaitingMe, now)})
        \union (IF ReviewRequested(s) THEN {600} ELSE {})
        \union (IF s.deadline = 0 THEN {} ELSE {DeadlineUrgency(s.deadline, now)}))

Saturate(x, k) == IF x <= 0 THEN 0 ELSE (One * x) \div (x + k)

\* Nothing measures the velocity of a discussion yet; it is 0.
EngagementScore(s) ==
    ClampUnit((400 * Saturate(s.comments, 10) + 300 * Saturate(s.participants, 8)
               + 150 * Saturate(s.reactions, 20)) \div One)

LabelImpact ==
    [security |-> 1000, critical |-> 900, priority |-> 750, bug |-> 600, other |-> 0]

\* The strongest of the labels and the references to the item; nothing gives a
\* repository a tier yet.
ImpactScore(s) ==
    Max({0} \union {LabelImpact[l] : l \in s.labels}
            \union {Saturate(s.inboundRefs, 5)})

BaselineAxes(s, now) ==
    [relevance  |-> RelevanceScore(s), urgency |-> UrgencyScore(s, now),
     engagement |-> EngagementScore(s), impact |-> ImpactScore(s)]

-----------------------------------------------------------------------------
(***************************************************************************)
(* Score                                                                   *)
(***************************************************************************)
Axis == {"relevance", "urgency", "engagement", "impact"}

\* A proposal stands in for the baseline.
Foundation(s, now) ==
    IF s.proposed = NoProposal THEN BaselineAxes(s, now)
    ELSE [a \in Axis |-> ClampUnit(s.proposed[a])]

\* An axis under the multiplier of the research layer.
Reweighed(x, m) == ClampUnit((x * ClampMult(m)) \div 100)

Axes(s, now) ==
    LET found == Foundation(s, now)
    IN  IF s.research = NoResearch THEN found
        ELSE [a \in Axis |-> Reweighed(found[a], s.research[a])]

Rank(axes) ==
    (350 * axes.relevance + 300 * axes.urgency + 200 * axes.impact
       + 150 * axes.engagement) \div One

\* band and priorityWeight: none, low, medium, high.
Band(rank) ==
    IF rank >= 660 THEN 3 ELSE IF rank >= 330 THEN 2 ELSE IF rank > 0 THEN 1 ELSE 0

-----------------------------------------------------------------------------
(***************************************************************************)
(* Sort                                                                    *)
(***************************************************************************)
SortKey == {"rank", "priority", "updated"}

\* The comparators; those of the axes are like that of the rank.
Value(row, key) ==
    CASE key = "rank"     -> row.rank
      [] key = "priority" -> Band(row.rank)
      [] key = "updated"  -> row.updated

\* mutant: the direction turns the unread rows and the tie-breaks, too
BeforeReversed(a, b, key, desc) ==
    LET x == IF desc THEN a ELSE b
        y == IF desc THEN b ELSE a
    IN  \/ x.unread /\ ~y.unread
        \/ /\ x.unread = y.unread
           /\ \/ Value(x, key) > Value(y, key)
              \/ /\ Value(x, key) = Value(y, key)
                 /\ \/ x.updated > y.updated
                    \/ x.updated = y.updated /\ x.id < y.id

\* The comparison function of Sort says less.
Before(a, b, key, desc) ==
    LET x == Value(a, key)
        y == Value(b, key)
    IN  \/ a.unread /\ ~b.unread
        \/ /\ a.unread = b.unread
           /\ \/ IF desc THEN x > y ELSE x < y
              \/ /\ x = y
                 /\ \/ a.updated > b.updated
                    \/ a.updated = b.updated /\ a.id < b.id

\* Sort is stable: a row has its place behind those that come before it and
\* those that were before it and need not come after it.
Place(rows, i, key, desc) ==
    1 + Cardinality({j \in DOMAIN rows :
                       \/ Before(rows[j], rows[i], key, desc)
                       \/ j < i /\ ~Before(rows[i], rows[j], key, desc)})

\* The row with that place.
RowAt(rows, p, key, desc) ==
    CHOOSE i \in DOMAIN rows : Place(rows, i, key, desc) = p

Sorted(rows, key, desc) ==
    [p \in DOMAIN rows |-> rows[RowAt(rows, p, key, desc)]]
=============================================================================
