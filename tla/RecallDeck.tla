------------------------------ MODULE RecallDeck ------------------------------
(****************************************************************************)
(* The recall deck (FlashcardsPage.tsx) of one browser tab: which card is   *)
(* shown, the answer being written, the draft saved 700 ms after the last   *)
(* keystroke, and the validations, over the save queue of the profile       *)
(* provider (ProfileSync) and with other tabs writing the same profile.     *)
(*                                                                          *)
(* A text is the card it was typed under and a number that grows with each  *)
(* edit; the empty text of a card has number 0 and every other text is long *)
(* enough to be validated.  An update of the query cache, the render that   *)
(* follows and the effects of that render are one step.                     *)
(****************************************************************************)
EXTENDS Evidence

CONSTANTS
    NoCard,
    EvidenceFilters,   \* "all" and some of the other settings of the filter
    Queries,           \* sets of cards that a search text matches
    Scores,
    RecentLimit,       \* 6
    MaxSaves,          \* bound of the queue
    MaxWork,           \* bounds edits and validations together
    MaxMoves           \* bounds navigation and writes of other tabs together

ASSUME DeckAssumption ==
    /\ NoCard \notin Cards
    /\ "all" \in EvidenceFilters
    /\ EvidenceFilters \subseteq
          {"all", "unvalidated", "validated", "needs-review", "strong"}
    /\ Cards \in Queries /\ Queries \subseteq SUBSET Cards
    /\ Scores \subseteq 0 .. 100
    /\ {RecentLimit, MaxSaves, MaxWork, MaxMoves} \subseteq Nat

VARIABLES
    url,            \* the branch and card parameters of the address
    filter, query,  \* evidenceFilter and the cards that the search text matches
    profile,        \* the profile in the query cache
    answer,         \* the text in the editor
    panel,          \* what is open below it, each for the card it was opened for
    timer,          \* the armed draft timer: a text, or NoText
    validations,    \* the validate() calls, in the order of their clicks
    saves,          \* updates given to save() and not settled, in order
    rejected,       \* drafts whose save was rejected
    edits, clock, moves   \* counters of the bounds; clock stamps attempts

vars == <<url, filter, query, profile, answer, panel, timer, validations, saves,
          rejected, edits, clock, moves>>

page == <<url, filter, query>>

NoText == [card |-> NoCard, n |-> 0]

Untyped(c) == [card |-> c, n |-> 0]

LongEnough(text) == text.n > 0

Closed == [revealed |-> NoCard, result |-> NoCard, error |-> NoCard]

Latest == LatestAttempts(profile.attempts)

Passes(c) ==
    LET seen == c \in DOMAIN Latest
    IN CASE filter = "unvalidated"  -> ~seen
         [] filter = "validated"    -> seen
         [] filter = "needs-review" -> seen /\ c \notin Strong(Latest)
         [] filter = "strong"       -> c \in Strong(Latest)
         [] OTHER                   -> TRUE

Shown == {c \in Cards : url.branch \in {"all", BranchOf[c]} /\ c \in query /\ Passes(c)}

Filtered == SelectSeq(Catalogue, LAMBDA c : c \in Shown)

FirstShown == FirstOf(Shown)

PreferredId == IF url.card # NoCard THEN url.card ELSE profile.active

ActiveCard ==
    IF Shown = {} THEN NoCard ELSE IF PreferredId \in Shown THEN PreferredId ELSE FirstShown

ActiveIndex == CHOOSE i \in DOMAIN Filtered : Filtered[i] = ActiveCard

SavedDraft == IF ActiveCard = NoCard THEN NoText ELSE profile.drafts[ActiveCard]

IsSaving == saves # <<>>

\* The call whose button is disabled: that of this mount, if it has not ended.
Pending(v) == v.phase \in {"scoring", "saving"}

IsValidating == \E i \in DOMAIN validations : validations[i].mounted /\ Pending(validations[i])

Init ==
    /\ url = [branch |-> "all", card |-> NoCard]
    /\ filter = "all" /\ query = Cards
    /\ profile = [attempts |-> <<>>, drafts |-> [c \in Cards |-> Untyped(c)],
                  active |-> NoCard, recent |-> <<>>]
    /\ answer = SavedDraft
    /\ panel = Closed
    /\ timer = NoText
    /\ validations = <<>> /\ saves = <<>> /\ rejected = {}
    /\ edits = 0 /\ clock = 0 /\ moves = 0

-----------------------------------------------------------------------------
(* Effects of a render.                                                     *)

\* Seeded faults: the effect forgets the editor, or what is open below it.
ShowCardKeepsAnswer(p) ==
    panel' = (IF ActiveCard' = ActiveCard THEN p ELSE Closed) /\ UNCHANGED answer

\* Another card: its draft is shown and the panel p of the render is dropped.
ShowCard(p) ==
    IF ActiveCard' = ActiveCard
    THEN panel' = p /\ UNCHANGED answer
    ELSE panel' = Closed /\ answer' = SavedDraft'

\* Seeded fault: the saved draft is left out of the effect's dependencies.
ArmTimerOnEdit ==
    timer' = IF <<ActiveCard, answer>>' = <<ActiveCard, answer>> THEN timer
             ELSE IF answer' = SavedDraft' THEN NoText ELSE answer'

\* The timer is armed again when the card, its saved draft or the answer changes.
ArmTimer ==
    timer' = IF <<ActiveCard, SavedDraft, answer>>' = <<ActiveCard, SavedDraft, answer>>
             THEN timer
             ELSE IF answer' = SavedDraft' THEN NoText ELSE answer'

Render(p) == ShowCard(p) /\ ArmTimer

-----------------------------------------------------------------------------
(* Navigation.                                                              *)

MayWork == edits + Len(validations) < MaxWork

Move == moves < MaxMoves /\ moves' = moves + 1

\* Another address in the same mount: palette, Back, a link of the shell.
Visit(u) ==
    /\ Move
    /\ url' = u
    /\ UNCHANGED <<filter, query, profile, validations, saves, rejected, edits, clock>>
    /\ Render(panel)

Select(c) == Visit([url EXCEPT !.card = c])

\* nextCard, previousCard
Step(by) ==
    /\ Len(Filtered) >= 2 /\ ~IsValidating
    /\ Select(Filtered[((ActiveIndex - 1 + by + Len(Filtered)) % Len(Filtered)) + 1])

\* The button of the result, which stays open during the next validation.
NextPriorityCard ==
    LET remaining == Shown \ {ActiveCard}
    IN /\ panel.result # NoCard
       /\ remaining # {}
       /\ Select(NextOf(Latest, remaining))

\* One of the filtered cards not seen recently, or of all others if there is none.
ShuffleCard ==
    LET recent == {ActiveCard} \cup ToSet(profile.recent)
        candidates == ToSet(Filtered) \ recent
        pool == IF candidates # {} THEN candidates ELSE ToSet(Filtered) \ {ActiveCard}
    IN /\ Len(Filtered) >= 2 /\ ~IsValidating
       /\ Move /\ Len(saves) < MaxSaves
       /\ saves' = Append(saves, [kind |-> "recent", card |-> ActiveCard])
       /\ \E c \in pool : url' = [url EXCEPT !.card = c]
       /\ UNCHANGED <<filter, query, profile, validations, rejected, edits, clock>>
       /\ Render(panel)

\* The branch filter drops the card from the address.
SetFilters(b, f, q) ==
    /\ ~IsValidating
    /\ Move
    /\ url' = IF b = url.branch THEN url ELSE [branch |-> b, card |-> NoCard]
    /\ filter' = f /\ query' = q
    /\ UNCHANGED <<profile, validations, saves, rejected, edits, clock>>
    /\ Render(panel)

\* The Reset button, also the one of the page without cards.
Reset ==
    /\ ~IsValidating \/ ActiveCard = NoCard
    /\ Move
    /\ url' = [branch |-> "all", card |-> NoCard]
    /\ filter' = "all" /\ query' = Cards
    /\ UNCHANGED <<profile, validations, saves, rejected, edits, clock>>
    /\ Render(panel)

\* The page is left and opened again: its state is new, calls under way are not
\* stopped, and the timer is cleared.
Remount(u) ==
    /\ Move
    /\ url' = u
    /\ filter' = "all" /\ query' = Cards
    /\ validations' = [i \in DOMAIN validations |-> [validations[i] EXCEPT !.mounted = FALSE]]
    /\ timer' = NoText
    /\ panel' = Closed
    /\ UNCHANGED <<profile, saves, rejected, edits, clock>>
    /\ answer' = SavedDraft'

Urls == [branch : ToSet(Branches) \cup {"all"}, card : Cards \cup {NoCard}]

Navigate ==
    \/ \E u \in Urls : Visit(u) \/ Remount(u)
    \/ \E by \in {1, -1} : Step(by)
    \/ NextPriorityCard
    \/ ShuffleCard
    \/ \E b \in ToSet(Branches) \cup {"all"}, f \in EvidenceFilters, q \in Queries :
          SetFilters(b, f, q)
    \/ Reset

-----------------------------------------------------------------------------
(* Writing and validating.                                                  *)

Type ==
    /\ ActiveCard # NoCard /\ ~IsValidating
    /\ MayWork /\ edits' = edits + 1
    /\ answer' = [card |-> ActiveCard, n |-> edits']
    /\ timer' = answer'
    /\ UNCHANGED <<page, profile, panel, validations, saves, rejected, clock, moves>>

TimerFires ==
    /\ timer # NoText
    /\ Len(saves) < MaxSaves
    /\ timer' = NoText
    /\ saves' = Append(saves, [kind |-> "draft", text |-> timer])
    /\ UNCHANGED <<page, profile, answer, panel, validations, rejected, edits, clock, moves>>

Reveal ==
    /\ LongEnough(answer) /\ panel.revealed = NoCard /\ ~IsValidating
    /\ panel' = [panel EXCEPT !.revealed = ActiveCard]
    /\ UNCHANGED <<page, profile, answer, timer, validations, saves, rejected, edits, clock, moves>>

Validate ==
    /\ LongEnough(answer) /\ ~IsSaving /\ ~IsValidating
    /\ MayWork
    /\ panel' = [panel EXCEPT !.error = NoCard]
    /\ validations' = Append(validations, [card |-> ActiveCard, text |-> answer,
                                           phase |-> "scoring", mounted |-> TRUE])
    /\ UNCHANGED <<page, profile, answer, timer, saves, rejected, edits, clock, moves>>

\* The score arrives, and the attempt with it is given to save().
Scored(i) ==
    /\ validations[i].phase = "scoring"
    /\ validations' = [validations EXCEPT ![i].phase = "saving"]
    /\ clock' = clock + 1
    /\ \E s \in Scores :
          saves' = Append(saves, [kind |-> "attempt", of |-> i,
                                  attempt |-> [card |-> validations[i].card, score |-> s,
                                               at |-> clock', text |-> validations[i].text]])
    /\ UNCHANGED <<page, profile, answer, panel, timer, rejected, edits, moves>>

\* The outcome of a validation reaches the page if that is still mounted.
Told(i, field) ==
    IF validations[i].mounted THEN [panel EXCEPT ![field] = validations[i].card] ELSE panel

ScoreFails(i) ==
    /\ validations[i].phase = "scoring"
    /\ validations' = [validations EXCEPT ![i].phase = "done"]
    /\ panel' = Told(i, "error")
    /\ UNCHANGED <<page, profile, answer, timer, saves, rejected, edits, clock, moves>>

-----------------------------------------------------------------------------
(* The save queue and the other tabs.                                       *)

Shuffled(recent, c) ==
    LET all == <<c>> \o SelectSeq(recent, LAMBDA d : d # c)
    IN SubSeq(all, 1, Min({RecentLimit, Len(all)}))

AddAttempt(p, a) == [p EXCEPT !.attempts = <<a>> \o @, !.active = a.card]

AddDraft(p, text) == [p EXCEPT !.drafts[text.card] = text]

Perform(u, p) ==
    CASE u.kind = "draft"   -> AddDraft(p, u.text)
      [] u.kind = "attempt" -> AddAttempt(p, u.attempt)
      [] u.kind = "recent"  -> [p EXCEPT !.recent = Shuffled(@, u.card)]

\* Seeded fault: setIsValidating(false) only runs after a successful save.
LeavesValidating(u) == UNCHANGED validations

\* finally: however the save ended, the call does not wait any longer.
EndCall(u) ==
    validations' = IF u.kind = "attempt"
                   THEN [validations EXCEPT ![u.of].phase = "done"]
                   ELSE validations

SaveDone ==
    LET u == Head(saves)
    IN /\ IsSaving
       /\ saves' = Tail(saves)
       /\ profile' = Perform(u, profile)
       /\ EndCall(u)
       /\ UNCHANGED <<page, rejected, edits, clock, moves>>
       /\ Render(IF u.kind = "attempt" THEN Told(u.of, "result") ELSE panel)

SaveFails ==
    LET u == Head(saves)
    IN /\ IsSaving
       /\ saves' = Tail(saves)
       /\ EndCall(u)
       /\ rejected' = IF u.kind = "draft" THEN rejected \cup {u.text} ELSE rejected
       /\ panel' = IF u.kind = "attempt" THEN Told(u.of, "error") ELSE panel
       /\ UNCHANGED <<page, profile, answer, timer, edits, clock, moves>>

\* A refetch, or the reload of a save that raced, brings what another tab wrote.
OtherTab ==
    /\ Move
    /\ \E c \in Cards :
          \/ /\ MayWork /\ edits' = edits + 1
             /\ profile' = AddDraft(profile, [card |-> c, n |-> edits'])
             /\ UNCHANGED clock
          \/ /\ clock' = clock + 1
             /\ \E s \in Scores :
                   profile' = AddAttempt(profile, [card |-> c, score |-> s, at |-> clock',
                                                   text |-> Untyped(c)])
             /\ UNCHANGED edits
    /\ UNCHANGED <<page, validations, saves, rejected>>
    /\ Render(panel)

Answers == \E i \in DOMAIN validations : Scored(i) \/ ScoreFails(i)

Settles == SaveDone \/ SaveFails

Next ==
    \/ Navigate
    \/ Type \/ TimerFires \/ Reveal \/ Validate
    \/ Answers
    \/ Settles
    \/ OtherTab

\* Requests end, with an answer or after seven seconds (client.ts), and so do
\* saves (SavesSettle of ProfileSync); a timer fires if it is left armed.
Spec ==
    /\ Init /\ [][Next]_vars
    /\ WF_vars(Answers) /\ WF_vars(Settles) /\ WF_vars(TimerFires)

-----------------------------------------------------------------------------
(* Properties.                                                              *)

\* What belongs to one card never reaches another, however the learner moved
\* between the keystroke, the timer, the score and the save: a draft, the text of
\* an attempt and the text on screen are texts typed under their card, and the
\* reference shown is that of a card for which the learner asked
\* (FlashcardsPage.tsx:84, :91; docs/typed-recall.md:17).
StaysWithItsCard ==
    /\ \A c \in Cards : profile.drafts[c].card = c
    /\ \A a \in ToSet(profile.attempts) : a.text.card = a.card
    /\ answer.card = ActiveCard
    /\ panel.revealed \in {NoCard, ActiveCard}

\* An answer that differs from the saved draft is on its way to the profile: its
\* timer is armed or its save is queued, unless that save was rejected
\* (the label "Sync queued", FlashcardsPage.tsx:369).
UnsavedIsQueued ==
    answer # SavedDraft =>
        \/ timer = answer
        \/ \E i \in DOMAIN saves : saves[i].kind = "draft" /\ saves[i].text = answer
        \/ answer \in rejected

\* Every validation ends and gives the page back to the learner, whatever fails
\* (FlashcardsPage.tsx:222).
ValidationsEnd == IsValidating ~> ~IsValidating
-----------------------------------------------------------------------------
(* What every step keeps, from which the invariants above follow.           *)

AnyCard == Cards \cup {NoCard}

\* Nothing can be typed when no card is shown.
Text == {t \in [card : AnyCard, n : Nat] : t.card = NoCard => t.n = 0}

Attempt ==
    {a \in [card : AnyCard, score : Scores, at : Nat, text : Text] : a.text.card = a.card}

Validation ==
    {v \in [card : AnyCard, text : Text, phase : {"scoring", "saving", "done"},
            mounted : BOOLEAN] : v.text.card = v.card}

Update ==
    [kind : {"draft"}, text : Text]
    \cup [kind : {"recent"}, card : AnyCard]
    \cup [kind : {"attempt"}, of : Nat \ {0}, attempt : Attempt]

\* A profile as the updates make it: what is listed for a card was typed under it.
IsProfile(p) ==
    /\ DOMAIN p = {"attempts", "drafts", "active", "recent"}
    /\ p.attempts \in Seq(Attempt)
    /\ p.drafts \in [Cards -> Text]
    /\ \A c \in Cards : p.drafts[c].card = c

IsPanel(p) == DOMAIN p = {"revealed", "result", "error"}

\* The texts under way, in the editor, the timer, a validation or the queue, are
\* each with their own card.
DeckTyped ==
    /\ IsProfile(profile) /\ IsPanel(panel)
    /\ answer \in Text /\ timer \in Text
    /\ validations \in Seq(Validation) /\ saves \in Seq(Update)
    /\ edits \in Nat /\ clock \in Nat

DeckInv == DeckTyped /\ StaysWithItsCard /\ UnsavedIsQueued
=============================================================================
