---------------------------- MODULE RecallEvidence ----------------------------
(****************************************************************************)
(* The recall evidence in a profile's document: what the deck page adds to  *)
(* it from the service's scores (FlashcardsPage.tsx), and what the service  *)
(* checks of a document before it stores it (state_validator.cpp), which    *)
(* includes scoring every retained attempt again.                           *)
(*                                                                          *)
(* One writer: RecallDeck has the steps between a click and its save, and   *)
(* ProfileSync the writers that race.                                       *)
(****************************************************************************)
EXTENDS RecallScoring

CONSTANTS
    CardIds, NoCard,
    Texts,          \* what is written
    Catalogues,     \* the editions of the catalogue: card -> reference
    MaxAttempts,    \* 200
    MaxClaims,      \* 1000
    MaxRecent,      \* 6
    Imported,       \* an attempt of rubric 1
    MaxWrites, MaxDay   \* bounds

ASSUME DocumentAssumption ==
    /\ NoCard \notin CardIds
    /\ \A text \in Texts : IsText(text) /\ text.units <= 1200
    /\ Catalogues \in Seq([CardIds -> Seq(Vocabulary)]) /\ Catalogues # <<>>
    /\ \A i \in DOMAIN Catalogues, c \in CardIds : Concepts(Catalogues[i][c]) # <<>>
    /\ {MaxAttempts, MaxRecent, MaxClaims, MaxDay} \subseteq Nat \ {0}
    /\ IsFiniteSet(CardIds) /\ Cardinality(CardIds) <= MaxClaims   \* 150 cards, 1000 claims
    /\ Imported.result.rubric = 1 /\ Imported.id = 0
    /\ MaxWrites \in Nat

VARIABLES
    doc,       \* the stored document: drafts, attempts, selected, active,
               \* recent, claims (of a card on a day) and xp
    edition,   \* the catalogue the service has loaded
    day,
    outcome,   \* how the last write ended, and the text it was about
    writes,    \* counter of the bound
    accepted   \* every attempt ever stored, with its day and edition

documentVars == <<doc, edition, day, outcome, writes, accepted>>

Newest(n, seq) == SubSeq(seq, Max({1, Len(seq) - n + 1}), Len(seq))

NoText == [units |-> 0, bytes |-> 0, words |-> 0, tokens |-> {}, punctuated |-> FALSE]

Blank ==
    [drafts |-> [c \in CardIds |-> NoText], attempts |-> <<>>, selected |-> 0,
     active |-> NoCard, recent |-> <<>>, claims |-> <<>>, xp |-> 0]

\* A document that has been in use: imported, and with as many claims as are kept.
Used ==
    LET claims == SetToSeq({<<c, 0>> : c \in CardIds})
    IN [Blank EXCEPT !.attempts = <<Imported>>, !.selected = Imported.id,
                     !.claims = Newest(MaxClaims, claims)]

DocumentInit ==
    /\ doc \in {Blank, Used}
    /\ edition = 1 /\ day = 1
    /\ outcome = [kind |-> "none", text |-> NoText]
    /\ writes = 0
    /\ accepted = <<>>

-----------------------------------------------------------------------------
(* What the service accepts.                                                *)

\* An attempt is its id and the result it was given.
ValidAttempt(a) ==
    LET r == a.result
    IN /\ r.card \in CardIds
       /\ r.text.bytes \in 20 .. 1200
       /\ r.words \in 4 .. 500 /\ r.words = r.text.words
       /\ r.coverage \in 0 .. 60 /\ r.structure \in 0 .. 25 /\ r.specificity \in 0 .. 15
       /\ r.score = r.coverage + r.structure + r.specificity
       /\ r.verdict = Verdict(r.score) /\ r.resolved = Resolved(r.score)
       /\ \A seq \in {r.matched, r.missing} : Len(seq) <= 8 /\ IsInjective(seq)
       /\ ToSet(r.matched) \cap ToSet(r.missing) = {}

\* The service validated it when it was imported.
ASSUME ImportedAssumption == ValidAttempt(Imported)

Valid(d) ==
    /\ \A c \in CardIds : d.drafts[c].bytes <= 1200
    /\ Len(d.attempts) <= MaxAttempts
    /\ \A a \in ToSet(d.attempts) : ValidAttempt(a)
    /\ IsInjective([i \in DOMAIN d.attempts |-> d.attempts[i].id])
    /\ Len(d.recent) <= MaxRecent /\ IsInjective(d.recent)
    /\ Len(d.claims) <= MaxClaims /\ IsInjective(d.claims)

\* Every attempt of rubric 2 is what the scorer says of its text today.
Authoritative(d) ==
    \A a \in ToSet(d.attempts) :
        LET r == a.result
        IN r.rubric = 2 =>
              Scorable(r.text) /\ r = Result(r.card, Catalogues[edition][r.card], r.text)

-----------------------------------------------------------------------------
(* What the page writes.  The schema it parses a document with before it     *)
(* sends it (contracts) asks for less than the service does.                *)

Outcome(kind, text) == outcome' = [kind |-> kind, text |-> text]

Put(d, text) ==
    IF Valid(d) /\ Authoritative(d)
    THEN doc' = d /\ Outcome("saved", text)
    ELSE UNCHANGED doc /\ Outcome("refused", text)

Write == writes < MaxWrites /\ writes' = writes + 1

RecallReward(score) == IF score >= 80 THEN 10 ELSE IF score >= 60 THEN 5 ELSE 0

\* Seeded fault: a full list of claims takes no more.
OldestClaims(claims, key) == First(MaxClaims, Append(claims, key))

Claim(claims, key) == Newest(MaxClaims, Append(claims, key))

Retained(attempts, a) == First(MaxAttempts, <<a>> \o attempts)

AddAttempt(a) ==
    LET key    == <<a.result.card, day>>
        reward == IF key \in ToSet(doc.claims) THEN 0 ELSE RecallReward(a.result.score)
    IN [doc EXCEPT !.xp = @ + reward,
                   !.attempts = Retained(@, a),
                   !.selected = a.id,
                   !.active = a.result.card,
                   !.claims = IF reward > 0 THEN Claim(@, key) ELSE @]

\* The page offers this from 20 characters on; the service may not score the text.
Validate(card, text) ==
    LET result  == Result(card, Catalogues[edition][card], text)
        attempt == [id |-> Len(accepted) + 1, result |-> result]
        with    == [day |-> day, edition |-> edition, result |-> result]
    IN /\ Write
       /\ text.units >= 20
       /\ IF Scorable(text)
          THEN Put(AddAttempt(attempt), text)
          ELSE UNCHANGED doc /\ Outcome("unscored", text)
       /\ accepted' = IF outcome'.kind = "saved" THEN Append(accepted, with) ELSE accepted
       /\ UNCHANGED <<edition, day>>

SaveDraft(card, text) ==
    /\ Write
    /\ Put([doc EXCEPT !.drafts[card] = text], text)
    /\ UNCHANGED <<edition, day, accepted>>

Shuffle(card) ==
    /\ Write
    /\ Put([doc EXCEPT !.recent =
               First(MaxRecent, <<card>> \o Keep(@, CardIds \ {card}))], NoText)
    /\ UNCHANGED <<edition, day, accepted>>

NewDay ==
    /\ day < MaxDay /\ day' = day + 1
    /\ UNCHANGED <<doc, edition, outcome, writes, accepted>>

\* The service is started again with an edited catalogue.
EditCatalogue ==
    /\ edition < Len(Catalogues) /\ edition' = edition + 1
    /\ UNCHANGED <<doc, day, outcome, writes, accepted>>

DocumentNext ==
    \/ \E card \in CardIds, text \in Texts : Validate(card, text) \/ SaveDraft(card, text)
    \/ \E card \in CardIds : Shuffle(card)
    \/ NewDay
    \/ EditCatalogue

DocumentSpec == DocumentInit /\ [][DocumentNext]_documentVars

-----------------------------------------------------------------------------
(* Properties.                                                              *)

\* What the page makes of a stored document and the service's own score is a
\* document the service accepts, at every limit of the document: no sequence of
\* legal writes makes a profile unwritable.  Texts with characters of several
\* bytes and edited catalogues are the exceptions (state_validator.cpp:121, :170).
PageWritesAreAccepted ==
    outcome.kind = "refused" =>
        edition > 1 \/ outcome.text.bytes > outcome.text.units

\* XP counts, for each card and day, the first attempt that was worth any, by its
\* verdict, however many attempts and claims have been cut off since
\* (docs/typed-recall.md:32; FlashcardsPage.tsx:204, :212).
XpIsEarned ==
    LET Of(i) == accepted[i].result
        worth == {i \in DOMAIN accepted : Of(i).verdict # "needs-work"}
        Same(i, j) == Of(i).card = Of(j).card /\ accepted[i].day = accepted[j].day
        first == {i \in worth : \A j \in worth : Same(i, j) => i <= j}
    IN doc.xp = SumFunction([i \in first |-> IF Of(i).verdict = "strong" THEN 10 ELSE 5])

\* Writing more never scores less: a longer answer with the same and further
\* terms is worth at least as much (recall.cpp:203).
MoreNeverScoresLess ==
    LET Extends(long, short) ==
            /\ short.words <= long.words
            /\ short.tokens \subseteq long.tokens
            /\ short.punctuated => long.punctuated
        Of(i) == accepted[i].result
    IN \A i, j \in DOMAIN accepted :
          /\ Of(i).card = Of(j).card /\ accepted[i].edition = accepted[j].edition
          /\ Extends(Of(j).text, Of(i).text)
          => Of(i).score <= Of(j).score

\* What the writes rely on: every attempt but the imported one is the scorer's
\* result for its text; ids were given in order; the claims are in the order of
\* their days, and those of today are the cards answered well enough today.
ScorableTexts == {text \in Texts : Scorable(text)}

Stored ==
    {[id |-> n, result |-> Result(card, Catalogues[e][card], text)] :
        n \in 1 .. MaxWrites, e \in DOMAIN Catalogues, card \in CardIds, text \in ScorableTexts}

Entries ==
    {[day |-> d, edition |-> e, result |-> Result(card, Catalogues[e][card], text)] :
        d \in 1 .. MaxDay, e \in DOMAIN Catalogues, card \in CardIds, text \in ScorableTexts}

Document ==
    [drafts : [CardIds -> Texts \cup {NoText}], attempts : Seq(Stored \cup {Imported}),
     selected : Nat, active : CardIds \cup {NoCard}, recent : Seq(CardIds),
     claims : Seq(CardIds \X (0 .. MaxDay)), xp : Nat]

DocumentTyped ==
    /\ doc \in Document
    /\ edition \in DOMAIN Catalogues /\ day \in 1 .. MaxDay
    /\ accepted \in Seq(Entries)
    /\ Len(accepted) <= writes /\ writes \in 0 .. MaxWrites

AttemptsAreResults ==
    /\ Valid(doc)
    /\ edition = 1 => Authoritative(doc)
    /\ \A i \in DOMAIN doc.attempts : doc.attempts[i].id <= Len(accepted)

ClaimsOfToday ==
    /\ \A i \in DOMAIN doc.claims : doc.claims[i][2] <= day
    /\ \A i, j \in DOMAIN doc.claims : i < j => doc.claims[i][2] <= doc.claims[j][2]
    /\ \A i \in DOMAIN accepted : accepted[i].day <= day
    /\ \A card \in CardIds :
          <<card, day>> \in ToSet(doc.claims) <=>
              \E i \in DOMAIN accepted :
                  /\ accepted[i].result.card = card /\ accepted[i].day = day
                  /\ accepted[i].result.verdict # "needs-work"

DocumentInv ==
    /\ DocumentTyped /\ AttemptsAreResults /\ ClaimsOfToday
    /\ PageWritesAreAccepted /\ XpIsEarned

\* docs/typed-recall.md:76 "Edit the catalog in content/flashcards.json": a
\* profile is as writable afterwards as it was before.
EditsKeepProfilesWritable ==
    outcome.kind = "refused" => outcome.text.bytes > outcome.text.units
=============================================================================
