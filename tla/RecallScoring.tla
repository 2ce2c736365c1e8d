----------------------------- MODULE RecallScoring ----------------------------
(****************************************************************************)
(* How the C++ service scores a written answer (recall.cpp).                *)
(*                                                                          *)
(* A text is its length in characters and in bytes, its number of words,    *)
(* the tokens in it and whether it is punctuated; trimmed, as the page      *)
(* sends it.  A reference is the sequence of tokens of a card's answer and  *)
(* deep dive in the catalogue.  The vocabulary of the rubric is a constant, *)
(* its points and limits are the code's.                                    *)
(****************************************************************************)
EXTENDS Integers, Sequences, FiniteSets, FiniteSetsExt, SequencesExt

CONSTANTS
    Vocabulary,
    Minor,         \* tokens that are short or stop words
    Synonyms,      \* groups of tokens that count as one
    Connectives,   \* "because", "verify" ...
    Scoping,       \* "compare", "confirm" ...
    Topics,        \* the five groups of specific terms
    MaxConcepts    \* 8

ASSUME RubricAssumption ==
    /\ \A tokens \in {Minor, Connectives, Scoping} \cup Synonyms \cup Topics :
          tokens \subseteq Vocabulary
    /\ \A g, h \in Synonyms : g = h \/ g \cap h = {}
    /\ IsFiniteSet(Topics) /\ Cardinality(Topics) <= 5
    /\ MaxConcepts \in 1 .. 8

IsText(text) ==
    /\ text.units \in Nat /\ text.bytes \in text.units .. 3 * text.units
    /\ text.words \in Nat /\ text.punctuated \in BOOLEAN
    /\ text.tokens \subseteq Vocabulary

First(n, seq) == SubSeq(seq, 1, Min({n, Len(seq)}))

\* The elements of a sequence that are in a set, in their order.
Keep(seq, set) ==
    LET AppendKept(kept, x) == IF x \in set THEN Append(kept, x) ELSE kept
    IN FoldLeft(AppendKept, <<>>, seq)

\* Seeded fault: a token that occurs twice is a concept twice.
ConceptsAsListed(reference) == First(MaxConcepts, Keep(reference, Vocabulary \ Minor))

\* The first distinct tokens of the reference that carry meaning.
Concepts(reference) ==
    LET AppendNew(seen, t) == IF t \in Minor \cup ToSet(seen) THEN seen ELSE Append(seen, t)
    IN First(MaxConcepts, FoldLeft(AppendNew, <<>>, reference))

EquivalentToken(tokens, concept) ==
    \/ concept \in tokens
    \/ \E group \in Synonyms : concept \in group /\ group \cap tokens # {}

Covered(tokens) == {c \in Vocabulary : EquivalentToken(tokens, c)}

If(condition, points) == IF condition THEN points ELSE 0

\* Seeded fault: the two lengths of an answer become alternatives.
StructureByLength(text) ==
    If(text.words \in 12 .. 23, 8) + If(text.words >= 24, 4)
    + If(text.tokens \cap Connectives # {}, 7)
    + If(text.punctuated, 3)
    + If(text.tokens \cap Scoping # {}, 3)

Structure(text) ==
    If(text.words >= 12, 8) + If(text.words >= 24, 4)
    + If(text.tokens \cap Connectives # {}, 7)
    + If(text.punctuated, 3)
    + If(text.tokens \cap Scoping # {}, 3)

Specificity(text) == 3 * Cardinality({g \in Topics : g \cap text.tokens # {}})

\* lround of 60 times the ratio, which is exact where it ends in one half.
CoverageScore(matched, concepts) ==
    (120 * Len(matched) + Len(concepts)) \div (2 * Len(concepts))

Verdict(score) ==
    IF score >= 80 THEN "strong" ELSE IF score >= 60 THEN "developing" ELSE "needs-work"

Resolved(score) == score >= 75

Scorable(text) == text.bytes \in 20 .. 1200 /\ text.words \in 4 .. 500

Result(card, reference, text) ==
    LET concepts == Concepts(reference)
        matched  == Keep(concepts, Covered(text.tokens))
        coverage == CoverageScore(matched, concepts)
        score    == Min({100, coverage + Structure(text) + Specificity(text)})
    IN [card |-> card, text |-> text, rubric |-> 2, words |-> text.words,
        coverage |-> coverage, structure |-> Structure(text),
        specificity |-> Specificity(text), score |-> score,
        verdict |-> Verdict(score), resolved |-> Resolved(score),
        matched |-> matched,
        missing |-> Keep(concepts, Vocabulary \ Covered(text.tokens))]
=============================================================================
