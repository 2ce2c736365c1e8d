------------------------------- MODULE Evidence -------------------------------
(****************************************************************************)
(* What the pages of the web application compute from the written evidence  *)
(* of a profile (state/evidence.ts, domain/ranks.ts and the pages that show *)
(* branch statistics): the latest attempt of each card, averages and        *)
(* coverage as the whole percentages that are shown, the branch to train    *)
(* next and the card to answer next.  Attempts are a sequence of            *)
(* [card, score, at] as the profile lists them, at being createdAt.         *)
(****************************************************************************)
EXTENDS Integers, Sequences, FiniteSets, FiniteSetsExt, SequencesExt

CONSTANTS
    Catalogue,   \* the cards, in the order of the catalogue
    Branches,    \* the branches, in their order
    BranchOf     \* card -> its branch

Cards == ToSet(Catalogue)

ASSUME EvidenceAssumption ==
    /\ Catalogue \in Seq(Cards)
    /\ IsInjective(Catalogue) /\ IsInjective(Branches)
    /\ BranchOf \in [Cards -> ToSet(Branches)]
    /\ \A b \in ToSet(Branches) : \E c \in Cards : BranchOf[c] = b

\* Of a card's attempts the newest counts, and the first listed of equals.
LatestAttempts(attempts) ==
    LET Of(c) == {i \in DOMAIN attempts : attempts[i].card = c}
        Newest(I) == {i \in I : \A j \in I : attempts[j].at <= attempts[i].at}
    IN [c \in {a.card : a \in ToSet(attempts)} |-> attempts[Min(Newest(Of(c)))]]

\* Math.round of a quotient of natural numbers.
Rounded(a, b) == (2 * a + b) \div (2 * b)

Average(latest) ==
    IF DOMAIN latest = {} THEN 0
    ELSE Rounded(SumFunction([c \in DOMAIN latest |-> latest[c].score]),
                 Cardinality(DOMAIN latest))

Strong(latest) == {c \in DOMAIN latest : latest[c].score >= 80}

CardsOf(b) == {c \in Cards : BranchOf[c] = b}

\* Of some cards the first in the order of the catalogue, and the first n.
FirstOf(cards) == Catalogue[Min({i \in DOMAIN Catalogue : Catalogue[i] \in cards})]

FirstOnes(n, cards) ==
    {Catalogue[i] : i \in {j \in DOMAIN Catalogue :
        /\ Catalogue[j] \in cards
        /\ Cardinality({k \in 1 .. j - 1 : Catalogue[k] \in cards}) < n}}

InBranch(latest, b) == [c \in {d \in DOMAIN latest : BranchOf[d] = b} |-> latest[c]]

Coverage(latest, b) ==
    Rounded(100 * Cardinality(DOMAIN InBranch(latest, b)), Cardinality(CardsOf(b)))

BranchStatus(latest, b) ==
    IF Coverage(latest, b) = 100 /\ Average(InBranch(latest, b)) >= 80 THEN "Mastered"
    ELSE IF DOMAIN InBranch(latest, b) # {} THEN "In progress" ELSE "Ready"

\* Coverage and average of the branches, each at the branch's place.
BranchStats(latest) ==
    [i \in DOMAIN Branches |->
        <<Coverage(latest, Branches[i]), Average(InBranch(latest, Branches[i]))>>]

\* Seeded fault: a branch without evidence has average 0, so it seems that the
\* average alone would do.
WeakerByAverage(stats, i, j) ==
    stats[i][2] < stats[j][2] \/ (stats[i][2] = stats[j][2] /\ i < j)

\* The order of the branches: the less covered first, of equal coverage the weaker.
Weaker(stats, i, j) ==
    \/ stats[i][1] < stats[j][1]
    \/ stats[i][1] = stats[j][1] /\ stats[i][2] < stats[j][2]
    \/ stats[i] = stats[j] /\ i < j

WeakestBranch(latest) ==
    LET stats == BranchStats(latest)
    IN Branches[CHOOSE i \in DOMAIN stats :
                    \A j \in DOMAIN stats \ {i} : Weaker(stats, i, j)]

\* The first n in this order.
WeakestBranches(latest, n) ==
    LET stats == BranchStats(latest)
        Before(i) == {j \in DOMAIN stats : Weaker(stats, j, i)}
    IN {Branches[i] : i \in {j \in DOMAIN stats : Cardinality(Before(j)) < n}}

\* Of some cards the first without evidence, or else the one of the weakest evidence.
NextOf(latest, cards) ==
    LET Score(c) == IF c \in DOMAIN latest THEN latest[c].score ELSE -1
    IN FirstOf({c \in cards : \A d \in cards : Score(c) <= Score(d)})

NextCard(latest, b) == NextOf(latest, CardsOf(b))

\* The cards of the newest n of the latest attempts, which differ in their times.
Recent(latest, n) ==
    {c \in DOMAIN latest :
        Cardinality({d \in DOMAIN latest : latest[d].at > latest[c].at}) < n}

Thresholds == <<0, 100, 250, 500, 900, 1400, 2200, 3200, 4500, 6000, 8000>>

RankProgress(xp) ==
    LET rank == Max({i \in DOMAIN Thresholds : xp >= Thresholds[i]})
        last == rank = Len(Thresholds)
        span == IF last THEN 0 ELSE Thresholds[rank + 1] - Thresholds[rank]
    IN [rankNumber |-> rank,
        xpToNext   |-> IF last THEN 0 ELSE Thresholds[rank + 1] - xp,
        progress   |-> IF last THEN 100 ELSE Rounded(100 * (xp - Thresholds[rank]), span)]

\* The rank is the highest one reached, what is left to the next one is exact, and the
\* percentage is the nearest whole one, 100 from the last rank on (ranks.ts).
RankIsExact(xp) ==
    LET r    == RankProgress(xp)
        from == Thresholds[r.rankNumber]
    IN /\ r.rankNumber \in DOMAIN Thresholds /\ xp >= from
       /\ IF r.rankNumber = Len(Thresholds)
          THEN r.xpToNext = 0 /\ r.progress = 100
          ELSE LET next  == Thresholds[r.rankNumber + 1]
                   twice == 2 * (r.progress * (next - from) - 100 * (xp - from))
               IN /\ xp < next /\ xp + r.xpToNext = next
                  /\ -(next - from) <= twice /\ twice <= next - from
=============================================================================
