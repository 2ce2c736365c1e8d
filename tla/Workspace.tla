------------------------------- MODULE Workspace ------------------------------
(****************************************************************************)
(* Moving about the web application (App.tsx, AppShell.tsx, the links of    *)
(* the pages) in one tab: the session history of the router, the links a    *)
(* page offers for the evidence the profile holds, and the command palette  *)
(* (CommandPalette.tsx, command-search.ts) with its keyboard focus, which   *)
(* it moves in animation frames.  Inside the deck: see RecallDeck.          *)
(*                                                                          *)
(* A location is a page, the branch and the card, scenario or view of its   *)
(* address.  What a search text matches of a command's words is a constant. *)
(****************************************************************************)
EXTENDS Evidence

CONSTANTS
    Nil,
    Unknown,         \* an identifier in an address that names nothing
    Scenarios,       \* the scenario briefings, in their order
    BranchOfScenario,
    SearchTexts,     \* what is searched for, other than the blank text ""
    Match,           \* search text -> command -> how it matches
    LabelRank,       \* command -> place of its label in the alphabet
    Limit,           \* 10 results
    Scores,
    MaxHistory, MaxValidations, MaxFrames   \* bounds

VARIABLES
    history, at,     \* the session history and the place in it
    attempts,        \* the flashAttempts of the cached profile
    palette,         \* open, query and activeIndex, from 1 on
    focus,           \* "trigger", "input", "dialog" (its other controls), "page",
                     \* or "blank" after a click beside the dialog's controls
    frames,          \* focus moves requested with requestAnimationFrame
    overflow,        \* body.style.overflow
    mounted          \* the provider renders the application, not its error

vars == <<history, at, attempts, palette, focus, frames, overflow, mounted>>

-----------------------------------------------------------------------------
(* Locations.                                                               *)

At(page, branch, item) == [page |-> page, branch |-> branch, item |-> item]

Page(page) == At(page, Nil, Nil)
Guide(b) == At("guide", b, Nil)
Deck(b, c) == At("deck", b, c)

Branch == ToSet(Branches)

Here == history[at]

\* The routes: an address the application does not have leads to one it has.
Settle(loc) ==
    CASE loc.page = "practice"                        -> Page("deck")
      [] loc.page = "missing"                         -> Page("today")
      [] loc.page = "guide" /\ loc.branch \notin Branch -> Page("learn")
      [] OTHER                                        -> loc

\* The card a newly opened deck shows without a search text or an evidence filter.
DeckCard(loc) ==
    LET shown == IF loc.branch \in Branch THEN CardsOf(loc.branch) ELSE Cards
    IN IF loc.item \in shown THEN loc.item ELSE FirstOf(shown)

ShownScenario(loc) == IF loc.item \in ToSet(Scenarios) THEN loc.item ELSE Scenarios[1]

Latest == LatestAttempts(attempts)

\* Seeded fault: the weakest card of all is linked under the weakest branch.
MissionOfAll == Deck(WeakestBranch(Latest), NextOf(Latest, Cards))

\* "Resume mission" of the Today page.
Mission ==
    LET weakest == WeakestBranch(Latest)
    IN Deck(weakest, NextCard(Latest, weakest))

Destinations == <<Page("today"), Page("learn"), Page("deck"), Page("simulate"),
                  Page("profile"), Page("lab")>>

TodayLinks ==
    LET mission == Mission
    IN {mission, Deck(mission.branch, Nil), Page("simulate"), Page("learn"), Page("profile")}
       \cup {Guide(b) : b \in WeakestBranches(Latest, 5)}
       \cup {Deck(BranchOf[c], c) : c \in Recent(Latest, 4)}

LearnLinks == {Guide(b) : b \in Branch} \cup {Deck(b, Nil) : b \in Branch}

GuideLinks(b) ==
    {Page("learn"), Deck(b, NextCard(Latest, b)), Deck(b, Nil)}
    \cup {Deck(b, c) : c \in FirstOnes(6, CardsOf(b))}

SimulateLinks(loc) ==
    {At("simulate", Nil, s) : s \in ToSet(Scenarios)}
    \cup {At("guide", BranchOfScenario[ShownScenario(loc)], "runbook")}

Links(loc) ==
    ToSet(Destinations) \cup
    CASE loc.page = "today"    -> TodayLinks
      [] loc.page = "learn"    -> LearnLinks
      [] loc.page = "guide"    -> GuideLinks(loc.branch)
      [] loc.page = "simulate" -> SimulateLinks(loc)
      [] loc.page = "profile"  -> {Page("deck")}
      [] loc.page = "deck"     -> {Guide(BranchOf[DeckCard(loc)])}
      [] OTHER                 -> {}

-----------------------------------------------------------------------------
(* Commands of the palette, each named by its location.                     *)

GuideCommands == [i \in DOMAIN Branches |-> Guide(Branches[i])]

RecallCommands == [i \in DOMAIN Catalogue |-> Deck(BranchOf[Catalogue[i]], Catalogue[i])]

ScenarioCommands == [i \in DOMAIN Scenarios |-> At("simulate", Nil, Scenarios[i])]

WorkspaceCommands == Destinations \o GuideCommands \o RecallCommands \o ScenarioCommands

Take(n, seq) == SubSeq(seq, 1, Min({n, Len(seq)}))

\* The query is the label, begins it, is part of it; its words are in the label;
\* it is part of the meta line; its words are in the other text.
MatchKinds == {"label", "start", "part", "words", "meta", "text", "none"}

CommandScore(match, command) ==
    CASE match = "label" -> 0
      [] match = "start" -> 5
      [] match = "part"  -> 10
      [] match = "words" -> 15
      [] match = "meta"  -> 20
      [] match = "text"  -> IF command \in ToSet(RecallCommands) THEN 32 ELSE 30

Found(query) == {c \in ToSet(WorkspaceCommands) : Match[query][c] # "none"}

\* The order of what was found: by score, then by label.
Before(query, c, d) ==
    LET Score(e) == CommandScore(Match[query][e], e)
    IN \/ Score(c) < Score(d)
       \/ Score(c) = Score(d) /\ LabelRank[c] < LabelRank[d]

Place(query, c) == Cardinality({d \in Found(query) : Before(query, d, c)}) + 1

\* Search text -> the sequence of results.
SearchWorkspaceCommands ==
    [query \in SearchTexts \cup {""} |->
        IF query = "" THEN Take(Limit, Destinations \o Take(4, GuideCommands))
        ELSE [k \in 1 .. Min({Limit, Cardinality(Found(query))}) |->
                 CHOOSE c \in Found(query) : Place(query, c) = k]]

Results == SearchWorkspaceCommands[palette.query]

ASSUME WorkspaceAssumption ==
    /\ Len(Catalogue) <= 150   \* the service loads no more (catalog.cpp:74)
    /\ Branches \in Seq(Branch) /\ Branches # <<>>
    /\ Scenarios \in Seq(ToSet(Scenarios))
    /\ IsInjective(Scenarios) /\ Scenarios # <<>>
    /\ BranchOfScenario \in [ToSet(Scenarios) -> Branch]
    /\ Unknown \notin Cards \cup Branch \cup ToSet(Scenarios)
    /\ "" \notin SearchTexts
    /\ Match \in [SearchTexts -> [ToSet(WorkspaceCommands) -> MatchKinds]]
    /\ LabelRank \in [ToSet(WorkspaceCommands) -> Nat] /\ IsInjective(LabelRank)
    /\ Scores \subseteq 0 .. 100
    /\ {Limit, MaxHistory, MaxValidations, MaxFrames} \subseteq Nat

Shut == [open |-> FALSE, query |-> "", index |-> 1]

-----------------------------------------------------------------------------
(* Addresses: what a learner may have in a bookmark.                        *)

Addresses ==
    ToSet(WorkspaceCommands) \cup
    {Page("practice"), Page("missing"), Guide(Unknown), Deck(Unknown, Unknown),
     At("simulate", Nil, Unknown)}

Init ==
    /\ \E a \in Addresses : history = <<Settle(a)>>
    /\ at = 1
    /\ attempts = <<>>
    /\ palette = Shut
    /\ focus = "page" /\ frames = <<>>
    /\ overflow = "visible" /\ mounted = TRUE

\* A new entry takes the place of those ahead.
Push(loc) ==
    /\ at < MaxHistory
    /\ history' = Append(SubSeq(history, 1, at), Settle(loc))
    /\ at' = at + 1

Replace(loc) ==
    /\ history' = [history EXCEPT ![at] = loc]
    /\ UNCHANGED at

-----------------------------------------------------------------------------
(* The pages, which the open palette covers.                                *)

OnPage == mounted /\ ~palette.open

Follow ==
    /\ OnPage
    /\ \E loc \in Links(Here) : Push(loc)
    /\ focus' = "page"
    /\ UNCHANGED <<attempts, palette, frames, overflow, mounted>>

\* A tab of a guide is not a page of its own to go back to.
SelectView(view) ==
    /\ OnPage /\ Here.page = "guide"
    /\ Replace([Here EXCEPT !.item = IF view = "models" THEN Nil ELSE view])
    /\ focus' = "page"
    /\ UNCHANGED <<attempts, palette, frames, overflow, mounted>>

\* Back and Forward also work under the palette, and when the error is shown.
Traverse(by) ==
    /\ at + by \in DOMAIN history
    /\ at' = at + by
    /\ UNCHANGED <<history, attempts, palette, focus, frames, overflow, mounted>>

Validated ==
    /\ OnPage /\ Here.page = "deck"
    /\ Len(attempts) < MaxValidations
    /\ \E s \in Scores :
          attempts' = <<[card |-> DeckCard(Here), score |-> s, at |-> Len(attempts)]>>
                      \o attempts
    /\ UNCHANGED <<history, at, palette, focus, frames, overflow, mounted>>

\* A refetch of the profile fails: the provider unmounts the application, and
\* with it goes the state of the palette.
ProviderFails ==
    /\ mounted /\ mounted' = FALSE
    /\ palette' = Shut /\ overflow' = "visible"
    /\ focus' = "page" /\ frames' = <<>>   \* they refer to what is gone
    /\ UNCHANGED <<history, at, attempts>>

ProviderRetries ==
    /\ ~mounted /\ mounted' = TRUE
    /\ UNCHANGED <<history, at, attempts, palette, focus, frames, overflow>>

-----------------------------------------------------------------------------
(* The palette.                                                             *)

\* Seeded fault: the latest request runs first.
RequestFirst(target) == Len(frames) < MaxFrames /\ frames' = <<target>> \o frames

\* requestAnimationFrame keeps the order of the requests.
Request(target) == Len(frames) < MaxFrames /\ frames' = Append(frames, target)

\* The trigger or Ctrl+K; the effect of the first render locks the body.
Open ==
    /\ OnPage
    /\ palette' = [palette EXCEPT !.open = TRUE]
    /\ overflow' = "hidden"
    /\ Request("input")
    /\ focus' \in {focus, "trigger"}
    /\ UNCHANGED <<history, at, attempts, mounted>>

\* What leaves the document takes the focus with it.
FocusLost == IF focus \in {"input", "dialog", "blank"} THEN "page" ELSE focus

\* Escape, the close button or the backdrop.
Dismiss ==
    /\ palette.open
    /\ palette' = Shut /\ overflow' = "visible"
    /\ Request("trigger")
    /\ focus' = FocusLost
    /\ UNCHANGED <<history, at, attempts, mounted>>

Choose(i) ==
    /\ palette.open /\ i \in DOMAIN Results
    /\ Push(Results[i])
    /\ palette' = Shut /\ overflow' = "visible"
    /\ focus' = FocusLost
    /\ UNCHANGED <<attempts, frames, mounted>>

\* Enter in the search field, or a click on the highlighted result.
Enter == Choose(palette.index)

\* Another text moves the highlight back to the first result.
Search(query) ==
    /\ palette.open /\ focus = "input" /\ query # palette.query
    /\ palette' = [palette EXCEPT !.query = query, !.index = 1]
    /\ UNCHANGED <<history, at, attempts, focus, frames, overflow, mounted>>

\* The arrow keys stop at the ends.
Arrow(by) ==
    /\ palette.open /\ focus = "input" /\ Results # <<>>
    /\ palette' = [palette EXCEPT !.index = Max({1, Min({@ + by, Len(Results)})})]
    /\ UNCHANGED <<history, at, attempts, focus, frames, overflow, mounted>>

\* The pointer over a result.
Hover(i) ==
    /\ palette.open /\ i \in DOMAIN Results
    /\ palette' = [palette EXCEPT !.index = i]
    /\ UNCHANGED <<history, at, attempts, focus, frames, overflow, mounted>>

\* Tab goes round inside the dialog.
Tab ==
    /\ palette.open /\ focus \in {"input", "dialog"}
    /\ focus' \in {"input", "dialog"}
    /\ UNCHANGED <<history, at, attempts, palette, frames, overflow, mounted>>

Click(target) ==
    /\ palette.open
    /\ focus' = target
    /\ UNCHANGED <<history, at, attempts, palette, frames, overflow, mounted>>

\* The next frame runs what was requested, in order, on what is mounted then.
Frame ==
    LET done == {i \in DOMAIN frames : frames[i] = "trigger" \/ palette.open}
    IN /\ frames # <<>> /\ frames' = <<>>
       /\ focus' = IF done = {} THEN focus ELSE frames[Max(done)]
       /\ UNCHANGED <<history, at, attempts, palette, overflow, mounted>>

Next ==
    \/ Follow
    \/ \E view \in {"models", "runbook", "drills"} : SelectView(view)
    \/ \E by \in {1, -1} : Traverse(by)
    \/ Validated
    \/ ProviderFails \/ ProviderRetries
    \/ Open \/ Dismiss \/ Enter
    \/ \E query \in SearchTexts \cup {""} : Search(query)
    \/ \E by \in {1, -1} : Arrow(by)
    \/ \E i \in 1 .. Limit : Hover(i)
    \/ Tab
    \/ \E target \in {"input", "blank"} : Click(target)
    \/ Frame

Spec == Init /\ [][Next]_vars

-----------------------------------------------------------------------------
(* Properties.                                                              *)

\* While a card has no evidence, the mission leads to one without, and the
\* learning path does not call its branch mastered: the whole percentages that
\* both go by hide no gap (TodayPage.tsx:52, :56, LearnPage.tsx:117).
GapsAreNotHidden ==
    LET mission == Mission
    IN \A c \in Cards \ DOMAIN Latest :
          /\ mission.item \notin DOMAIN Latest
          /\ BranchStatus(Latest, BranchOf[c]) # "Mastered"

\* Every link and command that names a card opens the deck on that card: its
\* branch, taken from the same evidence or not, does not filter it out
\* (FlashcardsPage.tsx:73 falls back to another card without a word).
LinksOpenTheirCard ==
    \A loc \in Links(Here) \cup ToSet(Results) :
        loc.page = "deck" /\ loc.item # Nil => DeckCard(loc) = loc.item

\* Once the frames have run, the focus is inside the open palette, unless the
\* learner clicked beside its controls, however fast it was opened and closed
\* before; the body is locked just as long; and Enter, the arrows and the pointer
\* have left the highlight on a result, if there is one (CommandPalette.tsx:37,
\* :54, :64).
PaletteTakesKeys ==
    /\ palette.open /\ frames = <<>> => focus \in {"input", "dialog", "blank"}
    /\ (overflow = "hidden") = palette.open
    /\ palette.open /\ Results # <<>> => palette.index \in DOMAIN Results

\* What the pages rely on: the history holds addresses the application has, each
\* with its branch; the attempts are of its cards, the newest first; a closed
\* palette has forgotten its query; and of the focus moves still to come, the last one
\* is the open palette's.
Pages == {"today", "learn", "deck", "simulate", "profile", "lab", "guide"}

Location == [page : Pages, branch : Branch \cup {Nil, Unknown},
             item : Cards \cup ToSet(Scenarios) \cup {Nil, Unknown, "runbook", "drills"}]

HistoryInv ==
    /\ history \in Seq(Location) /\ at \in DOMAIN history
    /\ \A i \in DOMAIN history : history[i].page = "guide" => history[i].branch \in Branch

AttemptsInv ==
    /\ attempts \in Seq([card : Cards, score : Scores, at : Nat])
    /\ \A i \in DOMAIN attempts : attempts[i].at = Len(attempts) - i

FocusInv ==
    /\ palette \in [open : BOOLEAN, query : SearchTexts \cup {""}, index : Nat]
    /\ palette.open \/ palette = Shut
    /\ frames \in Seq({"input", "trigger"})
    /\ palette.open /\ frames # <<>> => frames[Len(frames)] = "input"

WorkspaceInv == HistoryInv /\ AttemptsInv /\ FocusInv /\ PaletteTakesKeys
=============================================================================
