--------------------------- MODULE RecallDeckProofs ---------------------------
(****************************************************************************)
(* Why no text of the recall deck reaches another card and no answer is     *)
(* forgotten, for every catalogue, however the learner moves and in         *)
(* whatever order scores, saves and the updates of other tabs arrive.       *)
(* Neither property is inductive: both rest on the texts that are still     *)
(* under way, in the timer, in validations and in the queue (DeckInv).      *)
(****************************************************************************)
EXTENDS RecallDeck, FiniteSetTheorems, WellFoundedInduction, TLAPS

-----------------------------------------------------------------------------
(* The card shown.                                                          *)

\* A set of natural numbers has a least one: of the intervals up to its members
\* one is minimal.
LEMMA LeastNatural ==
    ASSUME NEW T, T \subseteq Nat, T # {}
    PROVE  \E x \in T : \A y \in T : x <= y
<1> DEFINE R == StrictSubsetOrdering(Nat)
           F == {0 .. n : n \in T}
<1>1. F \subseteq FiniteSubsetsOf(Nat) /\ F # {}
  <2>1. \A n \in T : 0 .. n \subseteq Nat /\ IsFiniteSet(0 .. n)
    BY FS_Interval
  <2> QED
    BY <2>1 DEF FiniteSubsetsOf
<1>2. IsWellFoundedOn(R, FiniteSubsetsOf(Nat))
  BY FS_StrictSubsetOrderingWellFounded
<1>3. PICK X \in F : \A Y \in F : ~ (<<Y, X>> \in R)
  <2> HIDE DEF R, F
  <2> QED
    BY <1>1, <1>2, WFMin
<1>4. PICK x \in T : X = 0 .. x
  OBVIOUS
<1>5. ASSUME NEW y \in T, y < x PROVE FALSE
  <2>1. 0 .. y \in F /\ 0 .. y \subseteq 0 .. x
    BY <1>5
  <2>2. x \in 0 .. x /\ x \notin 0 .. y
    BY <1>5
  <2>3. 0 .. y \subseteq Nat /\ 0 .. x \subseteq Nat
    OBVIOUS
  <2>4. <<0 .. y, 0 .. x>> \in R
    BY <2>1, <2>2, <2>3 DEF StrictSubsetOrdering
  <2> QED
    BY <1>3, <1>4, <2>1, <2>4
<1> QED
  BY <1>5

\* The first card of a set, in the order of the catalogue, is one of its cards.
LEMMA FirstOfCards ==
    ASSUME NEW S, S \subseteq Cards, S # {}
    PROVE  Catalogue[Min({i \in DOMAIN Catalogue : Catalogue[i] \in S})] \in Cards
<1> DEFINE I == {i \in DOMAIN Catalogue : Catalogue[i] \in S}
<1>1. Catalogue \in Seq(Cards) /\ DOMAIN Catalogue \subseteq Nat
  BY EvidenceAssumption
<1>2. I # {}
  BY DEF Cards, ToSet
<1>3. \E x \in I : \A y \in I : x <= y
  BY <1>1, <1>2, LeastNatural
<1>4. Min(I) \in I
  BY <1>3 DEF Min
<1> QED
  BY <1>1, <1>4

\* The page shows a card of the catalogue, or none.
LEMMA ActiveIsCard == ActiveCard \in AnyCard
<1>1. Shown \subseteq Cards
  BY DEF Shown
<1> QED
  BY <1>1, FirstOfCards DEF ActiveCard, FirstShown, FirstOf, AnyCard

\* The same of the next state.
LEMMA NextActiveIsCard == ActiveCard' \in AnyCard
<1>1. Shown' \subseteq Cards
  BY DEF Shown
<1> QED
  BY <1>1, FirstOfCards DEF ActiveCard, FirstShown, FirstOf, AnyCard

\* What the page shows depends on the address, the filters and the profile.
LEMMA SamePage ==
    ASSUME UNCHANGED <<page, profile>>
    PROVE  ActiveCard' = ActiveCard /\ SavedDraft' = SavedDraft
BY DEF page, ActiveCard, SavedDraft, Shown, FirstShown, FirstOf, PreferredId, Passes, Latest

\* The draft of the card shown is a text of that card.
LEMMA SavedDraftIsItsCards ==
    ASSUME IsProfile(profile)
    PROVE  SavedDraft \in Text /\ SavedDraft.card = ActiveCard
BY ActiveIsCard, DeckAssumption DEF SavedDraft, IsProfile, NoText, Text, AnyCard

\* The same of the next state.
LEMMA NextSavedDraftIsItsCards ==
    ASSUME IsProfile(profile')
    PROVE  SavedDraft' \in Text /\ SavedDraft'.card = ActiveCard'
BY NextActiveIsCard, DeckAssumption DEF SavedDraft, IsProfile, NoText, Text, AnyCard
-----------------------------------------------------------------------------
(* A render.                                                                *)

\* A queued draft stays in the queue or has become the card's saved draft.
DraftsStay ==
    \A i \in DOMAIN saves :
        saves[i].kind = "draft" =>
            \/ \E j \in DOMAIN saves' : saves'[j] = saves[i]
            \/ saves[i].text.card \in Cards
               => profile'.drafts[saves[i].text.card] = saves[i].text

\* What the rest of a step does, when its last part is a render with panel p.
Renders(p) ==
    /\ IsPanel(p) /\ p.revealed = panel.revealed
    /\ Render(p)
    /\ IsProfile(profile')
    /\ validations' \in Seq(Validation) /\ saves' \in Seq(Update)
    /\ edits' \in Nat /\ clock' \in Nat
    /\ DraftsStay
    /\ rejected \subseteq rejected'

\* The editor after a render: the same text of the same card, or the draft saved
\* for the other card.
LEMMA RenderShowsOwnText ==
    ASSUME DeckInv, NEW p, Renders(p)
    PROVE  /\ answer' \in Text /\ answer'.card = ActiveCard'
           /\ IsPanel(panel') /\ panel'.revealed \in {NoCard, ActiveCard'}
           /\ timer' \in Text
<1>1. SavedDraft' \in Text /\ SavedDraft'.card = ActiveCard'
  BY NextSavedDraftIsItsCards DEF Renders
<1>2. /\ answer \in Text /\ answer.card = ActiveCard /\ timer \in Text
      /\ panel.revealed \in {NoCard, ActiveCard}
  BY DEF DeckInv, DeckTyped, StaysWithItsCard
<1>3. answer' \in Text /\ answer'.card = ActiveCard'
  BY <1>1, <1>2 DEF Renders, Render, ShowCard
<1>4. IsPanel(panel') /\ panel'.revealed \in {NoCard, ActiveCard'}
  <2>1. CASE ActiveCard' = ActiveCard
    BY <1>2, <2>1 DEF Renders, Render, ShowCard
  <2>2. CASE ActiveCard' # ActiveCard
    <3>1. panel' = Closed
      BY <2>2 DEF Renders, Render, ShowCard
    <3> QED
      BY <3>1 DEF Closed, IsPanel
  <2> QED
    BY <2>1, <2>2
<1>5. timer' \in Text
  <2>1. NoText \in Text
    BY DEF NoText, Text, AnyCard
  <2> QED
    BY <1>2, <1>3, <2>1 DEF Renders, Render, ArmTimer
<1> QED
  BY <1>3, <1>4, <1>5

\* An answer that is not the saved draft after a render is the one before it, and
\* what was under way for it still is, or the timer is armed anew.
LEMMA RenderKeepsQueued ==
    ASSUME DeckInv, NEW p, Renders(p)
    PROVE  UnsavedIsQueued'
<1> SUFFICES ASSUME answer' # SavedDraft', timer' # answer'
             PROVE  \/ \E i \in DOMAIN saves' :
                          saves'[i].kind = "draft" /\ saves'[i].text = answer'
                    \/ answer' \in rejected'
  BY DEF UnsavedIsQueued
<1>1. /\ <<ActiveCard, SavedDraft, answer>>' = <<ActiveCard, SavedDraft, answer>>
      /\ timer' = timer
  BY DEF Renders, Render, ArmTimer
<1>2. answer # SavedDraft /\ timer # answer
  BY <1>1
<1>3. CASE answer \in rejected
  BY <1>1, <1>3 DEF Renders
<1>4. ASSUME NEW i \in DOMAIN saves, saves[i].kind = "draft", saves[i].text = answer
      PROVE  \E j \in DOMAIN saves' :
                 saves'[j].kind = "draft" /\ saves'[j].text = answer'
  <2>1. ~(answer.card \in Cards => profile'.drafts[answer.card] = answer)
    <3> SUFFICES ASSUME answer.card \in Cards => profile'.drafts[answer.card] = answer
                 PROVE  FALSE
      OBVIOUS
    <3>1. answer.card = ActiveCard /\ answer \in Text
      BY DEF DeckInv, StaysWithItsCard, DeckTyped
    <3>2. CASE ActiveCard = NoCard
      <4>1. SavedDraft = NoText
        BY <3>2 DEF SavedDraft
      <4>2. answer = NoText
        BY <3>1, <3>2 DEF Text, NoText
      <4> QED
        BY <1>2, <4>1, <4>2
    <3>3. CASE ActiveCard # NoCard
      <4>1. ActiveCard \in Cards
        BY <3>3, ActiveIsCard DEF AnyCard
      <4>2. SavedDraft' = profile'.drafts[ActiveCard]
        BY <1>1, <3>3 DEF SavedDraft
      <4> QED
        BY <1>1, <1>2, <3>1, <4>1, <4>2
    <3> QED
      BY <3>2, <3>3
  <2>2. \E j \in DOMAIN saves' : saves'[j] = saves[i]
    BY <1>4, <2>1 DEF Renders, DraftsStay
  <2> QED
    BY <1>1, <1>4, <2>2
<1> QED
  BY <1>2, <1>3, <1>4 DEF DeckInv, UnsavedIsQueued

\* A render keeps the invariant.
LEMMA RenderSafe ==
    ASSUME DeckInv, NEW p, Renders(p)
    PROVE  DeckInv'
<1>1. DeckTyped'
  BY RenderShowsOwnText DEF Renders, DeckTyped
<1>2. StaysWithItsCard'
  <2>1. \A c \in Cards : profile'.drafts[c].card = c
    BY DEF Renders, IsProfile
  <2>2. \A a \in ToSet(profile'.attempts) : a.text.card = a.card
    <3>1. profile'.attempts \in Seq(Attempt)
      BY DEF Renders, IsProfile
    <3> QED
      BY <3>1 DEF ToSet, Attempt
  <2> QED
    BY <2>1, <2>2, RenderShowsOwnText DEF StaysWithItsCard
<1> QED
  BY <1>1, <1>2, RenderKeepsQueued DEF DeckInv

\* A render that follows navigation: the profile is as it was, and the queue has
\* only grown.
LEMMA NavigationRenders ==
    ASSUME DeckInv, Render(panel),
           UNCHANGED <<profile, validations, rejected, edits, clock>>,
           saves' \in {saves, Append(saves, [kind |-> "recent", card |-> ActiveCard])}
    PROVE  DeckInv'
<1>1. /\ IsPanel(panel) /\ IsProfile(profile') /\ validations' \in Seq(Validation)
      /\ edits' \in Nat /\ clock' \in Nat /\ saves \in Seq(Update)
  BY DEF DeckInv, DeckTyped
<1> DEFINE u == [kind |-> "recent", card |-> ActiveCard]
<1>2. u \in Update
  BY ActiveIsCard DEF Update
<1> HIDE DEF u
<1>3. saves' = saves \/ saves' = Append(saves, u)
  BY DEF u
<1>4. saves' \in Seq(Update)
  BY <1>1, <1>2, <1>3
<1>5. \A i \in DOMAIN saves : i \in DOMAIN saves' /\ saves'[i] = saves[i]
  BY <1>1, <1>2, <1>3
<1>6. DraftsStay
  BY <1>5 DEF DraftsStay
<1>7. Renders(panel)
  BY <1>1, <1>4, <1>6 DEF Renders
<1> QED
  BY <1>7, RenderSafe

-----------------------------------------------------------------------------
(* Navigation.                                                              *)

\* Another address in the same mount.
LEMMA VisitSafe ==
    ASSUME DeckInv, NEW u, Visit(u)
    PROVE  DeckInv'
BY NavigationRenders DEF Visit

\* Shuffle also queues the card that is left.
LEMMA ShuffleSafe ==
    ASSUME DeckInv, ShuffleCard
    PROVE  DeckInv'
<1>1. saves' = Append(saves, [kind |-> "recent", card |-> ActiveCard])
  BY DEF ShuffleCard
<1>2. Render(panel) /\ UNCHANGED <<profile, validations, rejected, edits, clock>>
  BY DEF ShuffleCard
<1> QED
  BY <1>1, <1>2, NavigationRenders

\* Other filters may show another card.
LEMMA FiltersSafe ==
    ASSUME DeckInv, Reset \/ \E b, f, q : SetFilters(b, f, q)
    PROVE  DeckInv'
BY NavigationRenders DEF Reset, SetFilters

\* A new mount shows what is saved for its card; calls under way only lose their
\* page.
LEMMA RemountSafe ==
    ASSUME DeckInv, NEW u, Remount(u)
    PROVE  DeckInv'
<1>1. /\ IsProfile(profile') /\ saves' \in Seq(Update) /\ edits' \in Nat /\ clock' \in Nat
      /\ profile' = profile
  BY DEF DeckInv, DeckTyped, Remount
<1>2. SavedDraft' \in Text /\ SavedDraft'.card = ActiveCard' /\ answer' = SavedDraft'
  BY <1>1, NextSavedDraftIsItsCards DEF Remount
<1>3. validations' \in Seq(Validation)
  <2>1. validations \in Seq(Validation)
    BY DEF DeckInv, DeckTyped
  <2>2. \A i \in DOMAIN validations :
            [validations[i] EXCEPT !.mounted = FALSE] \in Validation
    <3>1. \A v \in Validation : [v EXCEPT !.mounted = FALSE] \in Validation
      BY DEF Validation
    <3> QED
      BY <2>1, <3>1
  <2>3. validations' = [i \in DOMAIN validations |-> [validations[i] EXCEPT !.mounted = FALSE]]
    BY DEF Remount
  <2>4. DOMAIN validations = 1 .. Len(validations) /\ Len(validations) \in Nat
    BY <2>1
  <2> QED
    BY <2>2, <2>3, <2>4
<1>4. timer' \in Text /\ IsPanel(panel') /\ panel'.revealed = NoCard
  BY DEF Remount, Closed, IsPanel, NoText, Text, AnyCard
<1>5. DeckTyped'
  BY <1>1, <1>2, <1>3, <1>4 DEF DeckTyped
<1>6. StaysWithItsCard'
  BY <1>1, <1>2, <1>4 DEF DeckInv, StaysWithItsCard
<1>7. UnsavedIsQueued'
  BY <1>2 DEF UnsavedIsQueued
<1> QED
  BY <1>5, <1>6, <1>7 DEF DeckInv

\* No navigation takes a text to another card.
LEMMA NavigateSafe ==
    ASSUME DeckInv, Navigate
    PROVE  DeckInv'
<1>1. ASSUME NEW u, Visit(u) PROVE DeckInv'
  BY <1>1, VisitSafe
<1>2. ASSUME NEW by, Step(by) PROVE DeckInv'
  BY <1>1, <1>2 DEF Step, Select
<1>3. CASE NextPriorityCard
  BY <1>1, <1>3 DEF NextPriorityCard, Select
<1>4. ASSUME NEW u, Remount(u) PROVE DeckInv'
  BY <1>4, RemountSafe
<1> QED
  BY <1>1, <1>2, <1>3, <1>4, ShuffleSafe, FiltersSafe DEF Navigate
-----------------------------------------------------------------------------
(* Writing and validating.                                                  *)

\* A step without a render: the page, the profile and what the editor holds are
\* as they were.
Quiet ==
    /\ UNCHANGED <<page, profile, answer>>
    /\ IsPanel(panel') /\ panel'.revealed \in {panel.revealed, ActiveCard}
    /\ timer' \in Text
    /\ validations' \in Seq(Validation) /\ saves' \in Seq(Update)
    /\ edits' \in Nat /\ clock' \in Nat

\* Such a step keeps the invariant if the answer stays under way.
LEMMA QuietSafe ==
    ASSUME DeckInv, Quiet,
           answer # SavedDraft =>
               \/ timer' = answer
               \/ \E i \in DOMAIN saves' : saves'[i].kind = "draft" /\ saves'[i].text = answer
               \/ answer \in rejected'
    PROVE  DeckInv'
<1>1. ActiveCard' = ActiveCard /\ SavedDraft' = SavedDraft
  BY SamePage DEF Quiet
<1>2. DeckTyped'
  BY DEF Quiet, DeckInv, DeckTyped
<1>3. StaysWithItsCard'
  BY <1>1 DEF Quiet, DeckInv, StaysWithItsCard
<1>4. UnsavedIsQueued'
  BY <1>1 DEF Quiet, UnsavedIsQueued
<1> QED
  BY <1>2, <1>3, <1>4 DEF DeckInv

\* A keystroke arms the timer with the text of the card shown.
LEMMA TypeSafe ==
    ASSUME DeckInv, Type
    PROVE  DeckInv'
<1>1. ActiveCard' = ActiveCard /\ SavedDraft' = SavedDraft
  BY SamePage DEF Type
<1>2. answer' \in Text /\ answer'.card = ActiveCard /\ timer' = answer'
  BY ActiveIsCard DEF Type, DeckInv, DeckTyped, Text
<1>3. DeckTyped'
  BY <1>2 DEF Type, DeckInv, DeckTyped
<1>4. StaysWithItsCard'
  BY <1>1, <1>2 DEF Type, DeckInv, StaysWithItsCard
<1>5. UnsavedIsQueued'
  BY <1>2 DEF UnsavedIsQueued
<1> QED
  BY <1>3, <1>4, <1>5 DEF DeckInv

\* The text of the timer goes into the queue.
LEMMA TimerSafe ==
    ASSUME DeckInv, TimerFires
    PROVE  DeckInv'
<1> DEFINE u == [kind |-> "draft", text |-> timer]
<1>1. u \in Update /\ u.kind = "draft" /\ u.text = timer
  BY DEF DeckInv, DeckTyped, Update
<1>2. saves' = Append(saves, u) /\ saves \in Seq(Update)
  BY DEF TimerFires, DeckInv, DeckTyped
<1> HIDE DEF u
<1>3. /\ saves' \in Seq(Update)
      /\ \A i \in DOMAIN saves : i \in DOMAIN saves' /\ saves'[i] = saves[i]
      /\ Len(saves) + 1 \in DOMAIN saves' /\ saves'[Len(saves) + 1] = u
  BY <1>1, <1>2
<1>4. Quiet
  <2>1. NoText \in Text
    BY DEF NoText, Text, AnyCard
  <2> QED
    BY <1>3, <2>1 DEF Quiet, TimerFires, DeckInv, DeckTyped
<1>5. answer # SavedDraft =>
          \/ \E i \in DOMAIN saves' : saves'[i].kind = "draft" /\ saves'[i].text = answer
          \/ answer \in rejected'
  BY <1>1, <1>3 DEF TimerFires, DeckInv, UnsavedIsQueued
<1> QED
  BY <1>4, <1>5, QuietSafe

\* Steps that leave timer, queue and rejected drafts alone.
LEMMA QueueUntouched ==
    ASSUME DeckInv, Quiet, UNCHANGED <<timer, saves, rejected>>
    PROVE  DeckInv'
BY QuietSafe DEF DeckInv, UnsavedIsQueued

\* The reference is revealed for the card shown.
LEMMA RevealSafe ==
    ASSUME DeckInv, Reveal
    PROVE  DeckInv'
<1>1. Quiet
  BY DEF Quiet, Reveal, DeckInv, DeckTyped, IsPanel, page
<1> QED
  BY <1>1, QueueUntouched DEF Reveal

\* A validation begins with the text and the card on screen.
LEMMA ValidateSafe ==
    ASSUME DeckInv, Validate
    PROVE  DeckInv'
<1> DEFINE v == [card |-> ActiveCard, text |-> answer, phase |-> "scoring", mounted |-> TRUE]
<1>1. v \in Validation
  BY ActiveIsCard DEF DeckInv, DeckTyped, StaysWithItsCard, Validation
<1>2. validations' = Append(validations, v) /\ validations \in Seq(Validation)
  BY DEF Validate, DeckInv, DeckTyped
<1> HIDE DEF v
<1>3. validations' \in Seq(Validation)
  BY <1>1, <1>2
<1>4. Quiet
  BY <1>3 DEF Quiet, Validate, DeckInv, DeckTyped, IsPanel, page
<1> QED
  BY <1>4, QueueUntouched DEF Validate

\* A validation goes on with the text and the card it was begun with.
LEMMA PhaseKeepsText ==
    ASSUME validations \in Seq(Validation), NEW i,
           NEW phase \in {"saving", "done"}
    PROVE  [validations EXCEPT ![i].phase = phase] \in Seq(Validation)
<1>1. \A v \in Validation : [v EXCEPT !.phase = phase] \in Validation
  BY DEF Validation
<1> DEFINE next == [validations EXCEPT ![i].phase = phase]
<1>2. DOMAIN next = 1 .. Len(validations) /\ Len(validations) \in Nat
  OBVIOUS
<1>3. \A j \in 1 .. Len(validations) : next[j] \in Validation
  BY <1>1
<1>4. next = [j \in 1 .. Len(validations) |-> next[j]]
  BY <1>2
<1> HIDE DEF next
<1>5. next \in Seq(Validation)
  BY <1>2, <1>3, <1>4
<1> QED
  BY <1>5 DEF next

\* An outcome opens nothing but itself.
LEMMA ToldPanel ==
    ASSUME IsPanel(panel), NEW i, NEW field \in {"result", "error"}
    PROVE  IsPanel(Told(i, field)) /\ Told(i, field).revealed = panel.revealed
<1>1. CASE field = "result"
  <2> DEFINE told == [panel EXCEPT !["result"] = validations[i].card]
  <2>1. IsPanel(told) /\ told.revealed = panel.revealed
    BY DEF IsPanel
  <2> QED
    BY <1>1, <2>1 DEF Told
<1>2. CASE field = "error"
  <2> DEFINE told == [panel EXCEPT !["error"] = validations[i].card]
  <2>1. IsPanel(told) /\ told.revealed = panel.revealed
    BY DEF IsPanel
  <2> QED
    BY <1>2, <2>1 DEF Told
<1> QED
  BY <1>1, <1>2

\* The attempt that is saved has the text and the card of its validation.
LEMMA ScoredSafe ==
    ASSUME DeckInv, NEW i \in DOMAIN validations, Scored(i)
    PROVE  DeckInv'
<1>1. /\ validations \in Seq(Validation) /\ validations[i] \in Validation
      /\ saves \in Seq(Update) /\ clock' \in Nat
      /\ i \in Nat \ {0}
  BY DEF DeckInv, DeckTyped, Scored
<1>2. PICK s \in Scores :
          saves' = Append(saves, [kind |-> "attempt", of |-> i,
                                  attempt |-> [card |-> validations[i].card, score |-> s,
                                               at |-> clock', text |-> validations[i].text]])
  BY DEF Scored
<1> DEFINE a == [card |-> validations[i].card, score |-> s,
                 at |-> clock', text |-> validations[i].text]
           u == [kind |-> "attempt", of |-> i, attempt |-> a]
<1>3. a \in Attempt
  BY <1>1 DEF Validation, Attempt
<1>4. saves' = Append(saves, u) /\ u \in Update
  BY <1>1, <1>2, <1>3 DEF Update
<1> HIDE DEF u
<1>5. /\ saves' \in Seq(Update)
      /\ \A j \in DOMAIN saves : j \in DOMAIN saves' /\ saves'[j] = saves[j]
  BY <1>1, <1>4
<1>6. validations' \in Seq(Validation)
  BY <1>1, PhaseKeepsText DEF Scored
<1>7. Quiet
  BY <1>1, <1>5, <1>6 DEF Quiet, Scored, DeckInv, DeckTyped, page
<1> QED
  BY <1>5, <1>7, QuietSafe DEF Scored, DeckInv, UnsavedIsQueued

\* A score that does not arrive is only reported.
LEMMA ScoreFailsSafe ==
    ASSUME DeckInv, NEW i \in DOMAIN validations, ScoreFails(i)
    PROVE  DeckInv'
<1>1. validations \in Seq(Validation) /\ IsPanel(panel)
  BY DEF DeckInv, DeckTyped
<1>2. validations' \in Seq(Validation)
  BY <1>1, PhaseKeepsText DEF ScoreFails
<1>3. IsPanel(panel') /\ panel'.revealed = panel.revealed
  BY <1>1, ToldPanel DEF ScoreFails
<1>4. Quiet
  BY <1>2, <1>3 DEF Quiet, ScoreFails, DeckInv, DeckTyped, page
<1> QED
  BY <1>4, QueueUntouched DEF ScoreFails

-----------------------------------------------------------------------------
(* The save queue and the other tabs.                                       *)

\* The end of a save leaves the validations their texts.
LEMMA EndCallTyped ==
    ASSUME validations \in Seq(Validation), NEW u, EndCall(u)
    PROVE  validations' \in Seq(Validation)
BY PhaseKeepsText DEF EndCall

\* An attempt in the profile keeps its text and card.
LEMMA AttemptAdded ==
    ASSUME NEW p, IsProfile(p), NEW a \in Attempt
    PROVE  IsProfile(AddAttempt(p, a))
<1>1. <<a>> \o p.attempts \in Seq(Attempt)
  BY DEF IsProfile
<1> DEFINE q == AddAttempt(p, a)
<1>2. q.attempts = <<a>> \o p.attempts /\ q.drafts = p.drafts
  BY DEF AddAttempt, IsProfile
<1>3. DOMAIN q = {"attempts", "drafts", "active", "recent"}
  BY DEF AddAttempt, IsProfile
<1> QED
  BY <1>1, <1>2, <1>3 DEF IsProfile

\* A draft is stored under the card it was typed for.
LEMMA DraftAdded ==
    ASSUME NEW p, IsProfile(p), NEW text \in Text
    PROVE  /\ IsProfile(AddDraft(p, text))
           /\ text.card \in Cards => AddDraft(p, text).drafts[text.card] = text
<1> DEFINE q == AddDraft(p, text)
           drafts == [p.drafts EXCEPT ![text.card] = text]
<1>1. q.attempts = p.attempts /\ q.drafts = drafts
      /\ DOMAIN q = {"attempts", "drafts", "active", "recent"}
  BY DEF AddDraft, IsProfile
<1>2. /\ drafts \in [Cards -> Text] /\ \A c \in Cards : drafts[c].card = c
      /\ text.card \in Cards => drafts[text.card] = text
  BY DEF IsProfile
<1> QED
  BY <1>1, <1>2 DEF IsProfile

\* The same of every update in the queue.
LEMMA PerformedProfile ==
    ASSUME NEW p, IsProfile(p), NEW u \in Update
    PROVE  /\ IsProfile(Perform(u, p))
           /\ (u.kind = "draft" /\ u.text.card \in Cards)
                  => Perform(u, p).drafts[u.text.card] = u.text
<1>1. CASE u.kind = "draft"
  <2>1. u.text \in Text /\ Perform(u, p) = AddDraft(p, u.text)
    BY <1>1 DEF Update, Perform
  <2> QED
    BY <2>1, DraftAdded
<1>2. CASE u.kind = "attempt"
  <2>1. u.attempt \in Attempt /\ Perform(u, p) = AddAttempt(p, u.attempt)
    BY <1>2 DEF Update, Perform
  <2> QED
    BY <1>2, <2>1, AttemptAdded
<1>3. CASE u.kind = "recent"
  <2> DEFINE recent == Shuffled(p.recent, u.card)
  <2>1. Perform(u, p) = [p EXCEPT !.recent = recent]
    BY <1>3 DEF Perform
  <2> HIDE DEF recent
  <2>2. IsProfile([p EXCEPT !.recent = recent])
    BY DEF IsProfile
  <2> QED
    BY <1>3, <2>1, <2>2
<1> QED
  BY <1>1, <1>2, <1>3 DEF Update

\* Of a queue without its head, every update is still there.
LEMMA TailKeeps ==
    ASSUME saves \in Seq(Update), saves # <<>>
    PROVE  /\ Head(saves) \in Update /\ Tail(saves) \in Seq(Update)
           /\ \A i \in DOMAIN saves :
                  \/ saves[i] = Head(saves)
                  \/ \E j \in DOMAIN Tail(saves) : Tail(saves)[j] = saves[i]
<1>1. Head(saves) \in Update /\ Tail(saves) \in Seq(Update) /\ Head(saves) = saves[1]
  OBVIOUS
<1>2. ASSUME NEW i \in DOMAIN saves, i # 1
      PROVE  i - 1 \in DOMAIN Tail(saves) /\ Tail(saves)[i - 1] = saves[i]
  BY <1>2
<1> QED
  BY <1>1, <1>2

\* A save that succeeds: a draft of the answer on screen is the saved draft now.
LEMMA SaveDoneSafe ==
    ASSUME DeckInv, SaveDone
    PROVE  DeckInv'
<1> DEFINE u == Head(saves)
           p == IF u.kind = "attempt" THEN Told(u.of, "result") ELSE panel
<1>1. /\ IsProfile(profile) /\ IsPanel(panel) /\ saves \in Seq(Update) /\ saves # <<>>
      /\ validations \in Seq(Validation) /\ edits' \in Nat /\ clock' \in Nat
      /\ rejected' = rejected
  BY DEF DeckInv, DeckTyped, SaveDone, IsSaving
<1>2. /\ saves' = Tail(saves) /\ profile' = Perform(u, profile) /\ EndCall(u)
      /\ Render(p)
  BY DEF SaveDone
<1>3. /\ u \in Update /\ saves' \in Seq(Update)
      /\ \A i \in DOMAIN saves :
             saves[i] = u \/ \E j \in DOMAIN saves' : saves'[j] = saves[i]
  BY <1>1, <1>2, TailKeeps
<1>4. IsPanel(p) /\ p.revealed = panel.revealed
  BY <1>1, ToldPanel
<1> HIDE DEF u, p
<1>5. validations' \in Seq(Validation)
  BY <1>1, <1>2, EndCallTyped
<1>6. IsProfile(profile')
  BY <1>1, <1>2, <1>3, PerformedProfile
<1>7. DraftsStay
  <2> SUFFICES ASSUME NEW i \in DOMAIN saves, saves[i].kind = "draft", saves[i] = u,
                      saves[i].text.card \in Cards
               PROVE  profile'.drafts[saves[i].text.card] = saves[i].text
    BY <1>3 DEF DraftsStay
  <2> QED
    BY <1>1, <1>2, <1>3, PerformedProfile
<1>8. Renders(p)
  BY <1>1, <1>2, <1>3, <1>4, <1>5, <1>6, <1>7 DEF Renders
<1> QED
  BY <1>8, RenderSafe

\* A rejected draft leaves the queue, and is known as rejected.
LEMMA SaveFailsSafe ==
    ASSUME DeckInv, SaveFails
    PROVE  DeckInv'
<1> DEFINE u == Head(saves)
<1>1. /\ IsPanel(panel) /\ saves \in Seq(Update) /\ saves # <<>>
      /\ validations \in Seq(Validation)
  BY DEF DeckInv, DeckTyped, SaveFails, IsSaving
<1>2. /\ saves' = Tail(saves) /\ EndCall(u)
      /\ rejected' = IF u.kind = "draft" THEN rejected \cup {u.text} ELSE rejected
      /\ panel' = IF u.kind = "attempt" THEN Told(u.of, "error") ELSE panel
  BY DEF SaveFails
<1>3. /\ saves' \in Seq(Update)
      /\ \A i \in DOMAIN saves :
             saves[i] = u \/ \E j \in DOMAIN saves' : saves'[j] = saves[i]
  BY <1>1, <1>2, TailKeeps
<1>4. IsPanel(panel') /\ panel'.revealed = panel.revealed
  BY <1>1, <1>2, ToldPanel
<1>5. validations' \in Seq(Validation)
  BY <1>1, <1>2, EndCallTyped
<1> HIDE DEF u
<1>6. Quiet
  BY <1>3, <1>4, <1>5 DEF Quiet, SaveFails, DeckInv, DeckTyped, page
<1>7. answer # SavedDraft =>
          \/ timer' = answer
          \/ \E i \in DOMAIN saves' : saves'[i].kind = "draft" /\ saves'[i].text = answer
          \/ answer \in rejected'
  <2>1. timer' = timer /\ rejected \subseteq rejected'
    BY <1>2 DEF SaveFails
  <2>2. ASSUME NEW i \in DOMAIN saves, saves[i].kind = "draft", saves[i].text = answer
        PROVE  \/ \E j \in DOMAIN saves' : saves'[j].kind = "draft" /\ saves'[j].text = answer
               \/ answer \in rejected'
    BY <1>2, <1>3, <2>2
  <2> QED
    BY <2>1, <2>2 DEF DeckInv, UnsavedIsQueued
<1> QED
  BY <1>6, <1>7, QuietSafe

\* What another tab writes for a card was typed under that card as well.
LEMMA OtherTabSafe ==
    ASSUME DeckInv, OtherTab
    PROVE  DeckInv'
<1>1. /\ IsProfile(profile) /\ IsPanel(panel)
      /\ validations' \in Seq(Validation) /\ saves' \in Seq(Update)
      /\ edits \in Nat /\ clock \in Nat /\ UNCHANGED <<saves, rejected>>
  BY DEF DeckInv, DeckTyped, OtherTab
<1>2. PICK c \in Cards :
          \/ /\ edits' = edits + 1 /\ clock' = clock
             /\ profile' = AddDraft(profile, [card |-> c, n |-> edits'])
          \/ /\ clock' = clock + 1 /\ edits' = edits
             /\ \E s \in Scores :
                   profile' = AddAttempt(profile, [card |-> c, score |-> s, at |-> clock',
                                                   text |-> Untyped(c)])
  BY DEF OtherTab
<1>3. edits' \in Nat /\ clock' \in Nat
  BY <1>1, <1>2
<1>4. IsProfile(profile')
  <2>1. [card |-> c, n |-> edits'] \in Text
    BY <1>3, DeckAssumption DEF Text, AnyCard
  <2>2. \A s \in Scores : [card |-> c, score |-> s, at |-> clock', text |-> Untyped(c)]
                              \in Attempt
    BY <1>3, DeckAssumption DEF Attempt, Text, Untyped, AnyCard
  <2> QED
    BY <1>1, <1>2, <2>1, <2>2, DraftAdded, AttemptAdded
<1>5. DraftsStay
  BY <1>1 DEF DraftsStay
<1>6. Renders(panel)
  BY <1>1, <1>3, <1>4, <1>5 DEF Renders, OtherTab
<1> QED
  BY <1>6, RenderSafe

-----------------------------------------------------------------------------
(* The theorems.                                                            *)

\* At first the saved draft is shown.
LEMMA InitDeck == Init => DeckInv
<1> SUFFICES ASSUME Init PROVE DeckInv
  OBVIOUS
<1>1. IsProfile(profile) /\ IsPanel(panel)
  BY DeckAssumption DEF Init, IsProfile, IsPanel, Closed, Untyped, Text, AnyCard
<1>2. /\ SavedDraft \in Text /\ SavedDraft.card = ActiveCard /\ answer = SavedDraft
      /\ NoText \in Text
  BY <1>1, SavedDraftIsItsCards DEF Init, NoText, Text, AnyCard
<1>3. DeckTyped
  BY <1>1, <1>2 DEF Init, DeckTyped
<1>4. StaysWithItsCard
  <2>1. \A c \in Cards : profile.drafts[c].card = c
    BY <1>1 DEF IsProfile
  <2>2. ToSet(profile.attempts) = {}
    BY DEF Init, ToSet
  <2> QED
    BY <1>2, <2>1, <2>2 DEF Init, Closed, StaysWithItsCard
<1>5. UnsavedIsQueued
  BY <1>2 DEF UnsavedIsQueued
<1> QED
  BY <1>3, <1>4, <1>5 DEF DeckInv

\* Every step keeps the invariant.
LEMMA NextDeck == DeckInv /\ [Next]_vars => DeckInv'
<1> SUFFICES ASSUME DeckInv, [Next]_vars PROVE DeckInv'
  OBVIOUS
<1>1. CASE Answers
  BY <1>1, ScoredSafe, ScoreFailsSafe DEF Answers
<1>2. CASE UNCHANGED vars
  <2>1. Quiet
    BY <1>2 DEF vars, page, Quiet, DeckInv, DeckTyped
  <2> QED
    BY <1>2, <2>1, QueueUntouched DEF vars
<1> QED
  BY <1>1, <1>2, NavigateSafe, TypeSafe, TimerSafe, RevealSafe, ValidateSafe,
     SaveDoneSafe, SaveFailsSafe, OtherTabSafe DEF Next, Settles

\* Every text of the deck, on screen, stored or under way, is with the card it was
\* typed under (FlashcardsPage.tsx:84-105, :184-214).
THEOREM DeckInvariant == Spec => []DeckInv
<1> QED
  BY InitDeck, NextDeck, PTL DEF Spec

\* A draft, the text of an attempt and the text on screen belong to their card,
\* however the learner moved between the keystroke, the timer and the save
\* (FlashcardsPage.tsx:84, :91).
THEOREM TextsStay == Spec => []StaysWithItsCard
<1>1. DeckInv => StaysWithItsCard
  BY DEF DeckInv
<1> QED
  BY <1>1, DeckInvariant, PTL

\* An answer that is not saved has its timer armed or its save queued, unless the
\* save was rejected (FlashcardsPage.tsx:91-109).
THEOREM NothingForgotten == Spec => []UnsavedIsQueued
<1>1. DeckInv => UnsavedIsQueued
  BY DEF DeckInv
<1> QED
  BY <1>1, DeckInvariant, PTL
=============================================================================
