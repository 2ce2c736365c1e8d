# getOPS: a TLA+ model of the training workspace

getOPS is a single-learner training application: a React client, an Nginx edge,
a C++ API and PostgreSQL, with a legacy page and a legacy Python/SQLite server
kept beside them. Almost everything the learner produces is one JSON document
per profile, and the core of the system is how that document is saved: by
several browser tabs, through calls that time out, into a database that several
API workers write concurrently and that may restart. This directory models that
core, the pages through which the learner works on the document and the
supervisor that previews the application, checks them with TLC and proves with
TLAPS most of their safety properties, and that the database layer implements the
store the other layers build on.

To repeat it, in this directory: `tlc -config X.cfg M` for each row of the table
in section 5, and `tlapm M.tla` for each module of the table in section 7.
`PROJECT.json` lists the runs, the source lines behind every definition, and for
each property a seeded fault under which its run must fail.

## 1. Inventory

| Component | State it keeps | Operations | Interacts with |
|---|---|---|---|
| **Profile repository** (`services/api/src/profile_repository.cpp`, `db/migrations`) | `profile_states` (one row per profile), `profile_state_history` (newest 200 revisions), advisory and row locks, open transactions | `save`, `load`, `import_empty`; the reads `ready`, `history_count`, `diagnostics` | called by the API workers, one connection per call; PostgreSQL executes its statements |
| **HTTP API server** (`api_server.cpp`, `main.cpp`) | a fixed pool of workers; no profile state of its own | GET/PUT profile, export, import, recall, catalogue, health, diagnostics; the compatibility routes `/api/state` | the edge and both browser clients over HTTP; the repository, the validator, the recall scorer |
| **Validator** (`state_validator.cpp`) | none | `validate`, score totals | API and repository, before a write |
| **Recall scorer, catalogue** (`recall.cpp`, `catalog.cpp`) | the loaded flashcards | `evaluate` | the API's recall route; its score decides what the React client pays |
| **React profile synchronisation** (`profile-state.tsx`, `client.ts`) | per tab: query cache, save queue, the running save, drafts and attempts in the document | `save`, query fetch, reload-and-reapply | the API by fetch calls with a seven-second timeout; other tabs only through the server |
| **Recall deck page** (`features/flashcards`) | the address, the filters, the editor, what is open below it, the armed draft timer, validations under way | navigation, filters, typing, draft timer, reveal, validate, shuffle | the recall route; the profile's cache and save queue; the shell by the address |
| **Application shell and command palette** (`app/`, `App.tsx`) | the router's history; the palette's query, highlight and focus, requested animation frames; a health poll | routes, links, search, arrows, Enter, open and dismiss | the pages by the address, the document's focus and scrolling |
| **Legacy browser persistence** (`persistence.js`, save path of `source.fragment.html`) | per tab: page state, revision, ETag, cached state, timer, status label; per browser: `localStorage` | `loadState`, `hydratePersistence`, `saveState`, `persistNow`, `mergeProgressStates` | the compatibility routes; other tabs through `localStorage` and the server |
| **Galton laboratory** (`galton-playback.ts`, `GaltonCanvas.tsx`, `GaltonLabPage.tsx`, engine, session) | simulation, playback (cohorts, bins, traces, carry), page controls, settings in `localStorage` | `advance` per animation frame, reports, play/pause, replay, speed, motion preference | the browser's frames; the page by callbacks |
| **Learning pages, domain content** (`features/today`, `learn`, `simulate`, `profile`, `domain`, `state/evidence.ts`) | none beyond the address | latest attempts, averages, coverage, ranks, links | read the profile; write it only through `save` |
| **Preview supervisor and gateway** (`scripts/preview.mjs`, `scripts/preview/`) | `state.json`, child processes, tunnel restarts | start, stop, status, proxying | operating system processes |
| **Legacy Python API** (`legacy/api/server.py`) | SQLite rows and history | initialise, load, save, import, backup | not run by the Compose stack |
| **Import, backup, migration scripts** (`scripts/*.sh`) | files | export and import of a profile, `pg_dump`, migrations | the legacy server, the API's import route, PostgreSQL |
| **Contracts** (`packages/contracts`) | none | zod schemas, `stateEtag` | both ends of the API |
| **Edge, deployment, styles, legacy page features** | configuration and assets | - | - |

What is hard about each, and what makes it correct:

* **Repository.** Transactions of several workers interleave statement by
  statement; `FOR UPDATE` locks nothing when the row does not exist yet; a
  COMMIT may be lost on the wire in either direction; processes and the database
  die with locks held. Correct means: no update is overwritten unseen, row and
  history change together, the caller is told the truth or "failed", and every
  lock comes free again.
* **API server.** Three sources name a revision (body, If-Match, stored row) and
  statuses are what clients decide retries from. Correct means: an ETag
  identifies one document, a write replaces exactly the document it names,
  an import never replaces one, and the status does not lie.
* **React synchronisation.** Saves are computed from a cached document and may
  time out in the browser and still take effect later. Correct means: one
  recall answer is recorded and paid once, evidence of a save that resolved stays
  saved, drafts do not go back, the cache is a document the server really held,
  and every save settles.
* **Recall deck.** Which card is shown is computed from address, filters, cache and
  catalogue at every render, so a validation, a refetch or a filter may change it
  between a keystroke and the timer, the score or the save that follows. Correct
  means: every text stays with the card it was typed under, the reference is open
  only where it was asked for, an unsaved text is on its way, and the page never
  stays disabled.
* **Shell, palette, pages.** Percentages are rounded and branches are chosen by
  them; links are made from evidence that another page filters by; the palette
  moves the focus in frames that run later than what they were requested for.
  Correct means: no gap is hidden by rounding, a link opens what it names, an open
  palette has the keyboard.
* **Legacy persistence.** Saves overlap, merge on conflict, and share
  `localStorage` between tabs. Correct means: nothing earned is forgotten or
  paid twice, the ETag, the cached state and the revision belong together, and
  the label does not lie or hang.
* **Galton laboratory.** A change of speed lets newer cohorts land before older
  ones. Correct means: every trial is counted once in its own bin, and the run
  ends and is shown to have ended.
* **Validator, recall scorer.** Sequential and pure; the risks are rounding,
  thresholds that four places repeat, limits that page and service both apply, and
  scores stored under one catalogue and checked under the next. Correct means: what
  the page makes of the service's own scores is accepted, and pays what it earned.
* **Preview supervisor.** Unordered writes of `state.json`, two starts at once,
  restarts racing a stop. Correct means: no tunnel without the gateway it leads to,
  a lost tunnel comes back, a stop ends everything.
* **Legacy Python API.** `executescript` commits the transaction it runs in, and
  workers share one SQLite file.

`PROJECT.json` lists these hazards one by one at the line where they bite, with
the properties that cover each; the few without one say why.

## 2. Modules and plan

```
ProfileStore            what a conditional store promises, one step per request
   ^ implemented by        ^ used by                 ^ used by        ^ used by
ProfileRepository        ProfileApi (HTTP)        ProfileSync       LegacySync
                                                  (React tabs)      (legacy tabs)

Evidence                what the pages compute from a profile's attempts
   ^ extended by                    ^ extended by
RecallDeck (one tab's deck)      Workspace (shell, links, palette)

RecallScoring <- RecallEvidence   (a text's score, and the document that keeps it)

GaltonPlayback, PreviewSupervisor   (each on its own)
```

Inductive invariants too long for the module they are about have one of their own:
`ProfileRepositoryInv`, `ProfileSyncInv` and `LegacySyncInv`; the others end their
module. The theorems are in the modules `...Proofs`: one for each component, and
`EvidenceProofs` for the four modules about written evidence, which share the lemmas on
sums, folds and least elements.

The `MC...` modules instantiate each for TLC. The layers compose through
`ProfileStore`: the repository is shown to implement it, and the API and both
clients are modelled over it, so none of them needs the statements of a
transaction. `RecallDeck` takes from `ProfileSync` what it promises about a save:
it settles, in the order of the queue, and a resolved one is in the cache.

Planned, in this order:

1. `LegacyStore`: the SQLite store, its initialisation by two processes, saves
   under `BEGIN IMMEDIATE`, trimming and backup, implementing `ProfileStore`;
   `LegacyImport` over it and `ProfileApi`.
2. The checks of JSON shape in `StateValidator` and those of the catalogue's load.

## 3. What each module models

### ProfileStore

The abstract specification: per profile a document with a revision; `Apply` is
the conditional write (it needs the revision the caller named, and may happen
after the caller was told "failed"); the `Tell...` actions say which answers are
possible when. Documents are named by the request that carried them.

### ProfileRepository

One request is one call of `save` (or `import_empty`, which is `save` with
expected revision 0) or `load` by an API worker with a connection of its own.
`pc` is where the worker is in the function: `connect`, `begin`, `lock`
(`pg_advisory_xact_lock`), `select` (`SELECT ... FOR UPDATE` and the
comparison), `write` (INSERT or UPDATE), `history`, `trim`, `commit`,
`rollback` (the `Transaction` destructor), `done` or `crashed`. `txn` is the
state of its PostgreSQL backend; the two are separate because either may die
alone. `staged` and `locked` are what the transaction has written and read,
`advisory` who holds the profile's lock, `rows` and `history` what is committed,
`answer` what the caller was told.

Failures: any statement may fail (`StatementFails`); the connection may break
before, at or after any statement, COMMIT included (`LoseConnection`,
`LoseRollback`); the API process dies (`ApiCrash`) and the database restarts
(`DatabaseRestart`), crashes and restarts within the budget `MaxFailures`. A backend without a
client settles on its own (`ServerCommit`, `ServerAbort`).

Not told apart or left out: document contents and the validator's verdict, which
is an input; `ready`, `history_count` and `diagnostics`, which change nothing;
a backend whose client is gone while it still waits for the advisory lock (it
could only acquire the lock and abort).

### ProfileApi

A request carries a route (`get`, `export`, `put`, `import`), a profile, the
revision of its body, an If-Match or If-None-Match tag and at most one defect.
`Refuse` is every check that comes before the repository is called; `Call`
computes the expected revision from body, If-Match or import; then one store
step and the mapping of its outcome to status, ETag and document. What a worker
does locally is merged with the repository's answer. `save_profile` validates
everything before it calls the repository, so only an import's profile id is
left to be rejected inside it. The compatibility routes share the handlers.

### ProfileSync

Several tabs, each with the `saveQueue` promise chain (`queue`, `task`), the
react-query cache (`cache`, `fetch`) and the updates the flashcard page makes:
`Validate` (records an attempt, pays a reward key once) and `Draft`. A save sends
a PUT computed from the cache; on a revision race it reloads, applies the update
again and sends once more; on a second race it invalidates the query and fails.
Every call may fail or time out at any time while the server still works on it
(`ServerStep` serves calls that nobody waits for). One modelled fetch stands for
react-query's up to three tries. The recall RPC before `validate` is folded into
`Validate` (`RecallDeck` has it, with the flag `isValidating`, which leaving the page
and coming back resets). The model's tabs cannot observe the
store's "unavailable" and "rejected" apart from any other failed call.

### LegacySync

Tabs of one browser: `Open` (`loadState` and the first GET), `Hydrated` and
`HydratedEmpty`, `Earn` (`award` and `saveState`: `localStorage` is overwritten
and the 550 ms timer restarted), `TimerFires`, and the runs of `persistNow` as
`flow`: `save`, on 409 `reload` with `mergeProgressStates`, then `resave`.
Nothing in the code keeps two runs apart, so a page has several flows. The ETag,
the cached state of the 304 path and the revision are separate variables, as in
the code. States are reduced to awards and XP, the two fields of the merge that
must agree with each other. The GET's retries are one call; the promise
callbacks between `persistence.js` and `persistNow` run in one step; a save that
`ensureTransferReviewSchedule` may start, and the server's verdict on legacy
documents, are left out. How often each tab may earn and load and how many calls
may be lost is one of a set of bounds, chosen at the start and counted down.

### GaltonPlayback

`Advance` is `GaltonPlayback.advance` in its order: clip the frame, age what
falls, carry fractions of balls, release a cohort, sample traces, land cohorts.
`Frame`, `PausedFrame`, `StartRun`, `Toggle`, `SetSpeed` and `MotionPreference`
are the canvas's loop and the page's controls. Carried fractions are exact
integers of 1/`Unit`; the code's floating-point error is not modelled. When the
page is told between frames is a choice (every 100 ms in the code), except at
the end of a run. React applies updates at once.

### Evidence

The functions of `state/evidence.ts` and of the pages: the latest attempt of each
card, averages and coverage as the whole percentages `Math.round` makes of them,
the status and the order of the branches, the next card, recent attempts, and
`RankProgress` of `domain/ranks.ts`. It has no state. Attempts are a sequence of
card, score and time; the catalogue, the branches and their order are constants.

### RecallDeck

`FlashcardsPage.tsx` in one tab. `ActiveCard` is the derivation of the page (address, or
else the profile's active card, among the cards that pass the filters, or else the
first). `Render` is what each action ends with that may change it: `ShowCard` (the
effect that loads the card's draft and closes what was open) and `ArmTimer` (the
effect that arms the 700 ms timer). Actions are the navigation (`Visit`, `Step`,
`NextPriorityCard`, `ShuffleCard`, `SetFilters`, `Reset`, and `Remount` for leaving
and coming back), `Type`, `TimerFires`, `Reveal`, `Validate`, its answer (`Scored`,
`ScoreFails`), the settlement of the oldest save (`SaveDone`, `SaveFails`) and what
another tab writes (`OtherTab`). Every answer and save may fail.

Abstracted: a text is its card and a number, and every text but the empty one is
long enough to be validated; a cache update, the render after it and its effects
are one step; what a search text matches is a set of cards; a score is an input; XP
and reward keys are `ProfileSync`'s; the focus mode and the elapsed time are left
out, since nothing else depends on them.

### RecallScoring and RecallEvidence

`RecallScoring` is `recall.cpp`: the concepts of a card's reference, which of them a text
has, and the points, verdict and resolution it gets. `RecallEvidence` is the document
between page and service: `Validate`, `SaveDraft` and `Shuffle` make the next document
as the page does, with its limits on attempts, claims and recent cards; `Put` stores it
if `Valid` and `Authoritative` (the validator, which scores every retained attempt
again) allow; `NewDay` renews the claims and `EditCatalogue` starts the service with
another catalogue. An attempt is its id and the result it was given; `accepted` is a
history of all attempts ever stored, with day and edition. The specification is
`DocumentSpec`.

Abstracted: a text is its length in characters and bytes, its words, its set of tokens
and whether it is punctuated, a reference a sequence of tokens, the rubric's vocabulary
a constant; points, thresholds and the limits of texts are the code's. A click and its
save are one step and there is one writer (`RecallDeck` and `ProfileSync` have the
rest). The nesting, size and patterns the validator checks are left out.

### Workspace

The router's history (`Follow`, `SelectView`, `Traverse`, with the routes'
redirections in `Settle`), the links each page makes from the evidence (`Links`), and the
command palette: `SearchWorkspaceCommands` with its ranking and limit, the highlight
(`Arrow`, `Hover`, `Search`), and the focus, which `Open` and `Dismiss` move by
frames that run later (`Frame`). `Validated` adds evidence between two navigations;
`ProviderFails` unmounts everything when a refetch of the profile fails.

Abstracted: how a command's words match a search text (`Match`, for each of the
constant `SearchTexts`) and the alphabetical order of labels are constants, the scores
the code's; a result's place is the number of commands before it; effects of the
palette run with their render; the focus is `"blank"` after a click beside the
dialog's controls; pages that only display (health, error boundary) are left out.

### PreviewSupervisor

`scripts/preview.mjs`: the commands (`Issue`, `ReadState`, `Probe`, then `Signal` for
a stop, and `Ready`, `WriteAccess`, `Spawn` for a start) and the supervisors (`Boot`,
`Listen`, `Connect`, `Registered`, `Exits`, `LateOutput`, `Shutdown`, `RemoveState`,
`Exit`). `writeFile` truncates (`OpenState`) and later writes (`WriteState`), so
writes that the code starts without waiting overlap. A connector may exit, fail to
start, or be read from after its exit.

Abstracted: one workspace; the gateway answers only its status route, in time or
not; the 60 looks of `start` at the status report and change nothing.

## 4. Properties

Stated above their definitions in the modules. The main ones:

* `NoLostUpdate`, `HistoryIsNewestWindow`, `AnswersAreTrue`, `AnswersAreFresh`,
  `AdvisoryLockSerialises`, `RevisionsOnlyAdvance`, `CallsEnd`,
  `LocksAreReleased`, `ImplementsStore` (repository);
* `EtagIdentifiesDocument`, `WritesReplaceWhatTheyName`, `ImportsOnlyCreate`,
  `StatusTellsTheOutcome` (API);
* `PaidAndRecordedOnce`, `ResolvedEvidenceKept`, `OwnDraftsNeverRevert`,
  `CacheIsCommitted`, `SavesSettle` (React client);
* `ServerKeepsAwards`, `PageKeepsAwards`, `XpNeverInflated`,
  `EtagFollowsRevision`, `StatusSettles` (legacy page);
* `StaysWithItsCard`, `UnsavedIsQueued`, `ValidationsEnd` (recall deck);
* `PageWritesAreAccepted`, `XpIsEarned`, `MoreNeverScoresLess`,
  `EditsKeepProfilesWritable` (recall evidence; the last one fails, section 6);
* `GapsAreNotHidden`, `LinksOpenTheirCard`, `PaletteTakesKeys` (pages and shell);
* `ConnectorsAreOwned`, `ConnectorComesBack`, `StopEnds` (preview);
* `TrialsCountedOnce`, `FinishedIsShown`, `RunCompletes` (Galton laboratory).

`RankIsExact` (module `Evidence`) says what `RankProgress` must give for an XP. TLC
evaluates it in the run `workspace` for every XP from 0 to beyond the last rank
(`RankAssumption`), and `RanksAreExact` proves it for all.

## 5. Runs

| Run | Configuration | Bounds | Distinct states | What it shows |
|---|---|---|---|---|
| `repository` | `ProfileRepository.cfg` | 3 calls, 1 profile, history of 2, 3 workers, 1 crash or restart | 655,355 | the safety properties, the inductive invariant of the proofs, and that the statements implement the one-step store |
| `repository_liveness` | `ProfileRepositoryLiveness.cfg` | 2 calls, 2 profiles, 2 workers, 1 failure | 39,630 | every call ends, locks are released, profiles do not touch each other's history |
| `api` | `ProfileApi.cfg` | 3 requests, 2 profiles, revisions 0 and 1 named | 367,683 | ETags, conditional writes, imports, statuses |
| `sync` | `ProfileSync.cfg` | 2 tabs with 2 updates and 1 fetch each | 2,161,556 | paid once, recorded once, kept, drafts in order |
| `sync_liveness` | `ProfileSyncLiveness.cfg` | 1 tab with 3 updates and 2 fetches | 566,288 | every save settles; the cache is a committed document |
| `legacy` | `LegacySync.cfg` | one tab with 2 awards, 2 loads and 6 lost calls; or two tabs with 3 loads, 2 awards and 1 lost call, or 2 loads, 3 awards and none lost | 571,387 | nothing earned is forgotten, inflated or taken off the server, overlapping saves included; no label hangs |
| `galton` | `GaltonPlayback.cfg` | runs of 4 and 5 balls, 2 speeds, 2 traces | 18,768 | counted once; runs end and are seen to |
| `deck` | `RecallDeck.cfg` | 2 cards of 2 branches, 3 edits and validations, 2 moves, 2 queued saves | 268,360 | texts and references stay with their card, unsaved texts are queued, validations end |
| `evidence` | `RecallEvidence.cfg` | 4 writes, 2 cards, 6 texts, 2 days, 2 catalogues, 2 attempts and 2 claims kept | 1,153,365 | the service accepts what the page writes, XP is earned, longer answers score no less |
| `workspace` | `Workspace.cfg` | 3 cards, 2 branches, 1 scenario, 2 attempts of score 50 or 90, 2 history entries, 2 frames, 3 search texts, 2 results | 1,147,548 | rounding hides no gap, links open their card, the palette has the keyboard |
| `preview` | `PreviewSupervisor.cfg` | two starts and a stop, 2 supervisors, 1 unforced exit | 168,088 | connectors are owned, come back, and end |

One more run, `evidence_edits`, has the bounds of `evidence` and is expected to fail:
it shows the code contradicting the documentation (section 6).

**Why the bounds are enough to be interesting.** Two saves of one profile and a
third call are what it takes for a first save to race another first save, for an
update to race an update, for the history (of 2) to be trimmed, and for a load to
observe either. One crash or restart, at any moment, meets every combination of
transactions under way; statement failures and broken connections are not limited
at all. In `sync`, two updates per tab make both a race lost
once and a race lost twice, with late writes of calls given up; `sync_liveness`
reaches the second race through the tab's own late writes and lets a fetch be
overtaken by a save. Attempts are cut at 2 so that the cut happens. In `legacy`, a
second load of a tab is what meets a `localStorage` another tab has written; its
three bounds are one tab whose calls may all be lost, and two tabs that lose one
call or none. In `deck`, two cards in two branches under the filter "unvalidated" are
what lets a validation remove the very card it was for; three pieces of work are a
text, its validation and a later text or another tab's; two moves leave the card and
return to it. In `evidence`, a document that starts
in use has its claims full and is cut by the next one, and attempts are cut by the
second; the six texts score below and above every threshold and extend one another. In
`workspace`, a branch of two cards and one of one make a coverage of
50 that is neither empty nor full, and averages of 70, which rank the branches
differently from their coverage; more results than the limit, one and none occur;
two frames meet in one animation frame when the palette is opened and dismissed at
once. In `preview`, a stop meets either of two starts at every step of theirs, with
one exit of a connector between.
Every action fires in some passing run, and each property fails under a seeded
fault in the code it speaks of. Calls are finite: `MaxCalls` is the number that the
other bounds allow (`4 * updates + fetches` per React tab, `3 * edits + 4 * loads`
per legacy tab). Deadlock is checked in the other runs; where their bounds end, a
`Finished` step says so (the Galton laboratory has no end: a run can be replayed).
It is not checked in `deck`, `evidence`, `workspace` and `preview`, where the learner
or the operator may just stop: every move, edit and command is a choice within a bound, and
what must still happen then is stated by `ValidationsEnd`, `ConnectorComesBack` and
`StopEnds`.

**Symmetry** is used only in `repository`, `api` and `sync`, which have no liveness
properties, over requests, profiles and tabs, none of which the specifications order.

**Fairness.** Only what the code's environment owes:

* repository: a free worker takes up a call and proceeds when its libpq call can
  return (`Progress`), an aborted transaction answers its next statement with an
  error, and PostgreSQL decides a COMMIT it received and clears up after a client
  that is gone (`Settle`). No fairness on failures.
* React and legacy clients: promise callbacks and timers run. The server owes
  nothing; what ends a save is the timeout that the code sets on every call.
* recall deck: an answer or its timeout arrives, a save settles (which is
  `SavesSettle`), an armed timer fires if it stays armed. The learner owes nothing.
* preview: started writes, timers, signals and exits of processes make progress; a
  connector that is left running registers. A connector need not keep running.
* evidence, workspace: none; they have no liveness property.
* Galton: the browser draws frames of a visible page. A hidden page is one with
  no frames.

## 6. Where the code contradicts itself

`EditsKeepProfilesWritable` (run `evidence_edits`): the documentation calls an edit of
the catalogue maintenance. If it changes how a retained attempt is scored, every later
save of that profile is refused, since each one is scored again as a whole.

Noticed while modelling; the models contain these behaviours, and no property of a
passing run states their opposite:

* Recall deck (`FlashcardsPage.tsx`): `docs/typed-recall.md` says that a validation
  never advances the card. Under the filter "unvalidated" it does: the validated card
  no longer passes the filter (64), and the page shows another one (73, 84). The
  document also calls the saving of drafts revision-safe. The page does not load a
  draft that another tab has saved for the card on screen: its own, older text differs
  from the saved draft, the timer is armed again, and the newer text is overwritten
  (91, 109).
* Limits: the contract, the API's description and the service's own message limit texts
  to 1200 characters (`recall.cpp:163`); the service counts bytes (162, and
  `state_validator.cpp:42`), and refuses shorter answers and drafts that have characters
  of several bytes. `PageWritesAreAccepted` excepts such texts.
* React client: after the second race it awaits `invalidateQueries`, which does not
  reject, and says "The latest version is loaded" although the refetch may have
  failed (`profile-state.tsx:116`).
* Legacy page (`source.fragment.html`): a slow save that succeeds after a newer one
  failed turns the label from "Offline backup" to "Saved" (8105, 8331); the merge
  unites the awards of two tabs and takes the larger XP, so points are lost for good
  while the page reports a safe merge (8127, 8343); what it labelled "Offline backup" is
  replaced by the server's state when the page is loaded again (8108, 8379).
* Preview (`preview.mjs`): of two starts at once, the one that loses the port removes
  the winner's `state.json` on its way out, so `status` and `stop` no longer find the
  running preview; overlapping writes may leave `state.json` unreadable, with the
  same effect; output read after a connector's exit marks a dead tunnel as connected
  until the next exit or registration.
* Validator: it does not look at `selectedFlashAttempt`, which `docs/typed-recall.md:47`
  says must reference retained evidence; the page keeps it so.
* Ranks: the bar can round to 100% just below the next rank.

Found in single statements:
`docs/production-flow.md` promises the latest ETag with a 409, and
`protected_handler` sends none; the same document and `docs/typed-recall.md`
say that the learner is asked to reapply a change, and `saveProfileUpdate` does
so once by itself; `docs/production-flow.md` says a save sends If-Match, and a
legacy page whose first load failed has none to send, so the C++ API refuses its
saves until it is loaded again and that load succeeds.

## 7. Proofs

Each theorem holds for every value of the constants that satisfies the module's
`ASSUME`s: any number of requests, tabs, cards, balls or commands, any pool, history
limit, budget of failures and bound on calls, any vocabulary, catalogue and search
texts. Nothing else is assumed; what the `ASSUME`s say of the constants is what the
code has, such as the 150 cards the service loads (`catalog.cpp:74`) or a rubric of
five topics. But for `TypeOK`, `RankIsExact` and the inductive invariants, every
property listed is one that a run of section 5 checks on a small instance.

| Module | Theorem | States |
|---|---|---|
| `ProfileRepositoryProofs` | `SafetyInvariant` | `Spec => []SafetyInv` |
| | `TypeCorrect` | `[]TypeOK`, a conjunct of it |
| | `LostUpdateFree` | `[]NoLostUpdate` |
| | `AnswersTrue` | `[]AnswersAreTrue` |
| | `LockSerialises` | `[]AdvisoryLockSerialises` |
| | `RevisionsAdvance` | `RevisionsOnlyAdvance` |
| | `RepositoryInvariant` | `Spec => []RepositoryInv` |
| | `FreshAnswers` | `[]AnswersAreFresh` |
| | `HistoryWindow` | `[]HistoryIsNewestWindow` |
| | `StoreImplemented` | `Spec => ImplementsStore`, the refinement of `ProfileStore` |
| `ProfileApiProofs` | `ApiInvariant` | `Spec => []ApiInv` |
| | `EtagsIdentify` | `[]EtagIdentifiesDocument` |
| | `WritesReplace` | `[]WritesReplaceWhatTheyName` |
| | `ImportsCreate` | `[]ImportsOnlyCreate` |
| | `StatusTells` | `[]StatusTellsTheOutcome` |
| `ProfileSyncProofs` | `SyncInvariant` | `Spec => []SyncInv` |
| | `CacheCommitted` | `[]CacheIsCommitted` |
| | `PaidOnce` | `[]PaidAndRecordedOnce` |
| | `EvidenceKept` | `[]ResolvedEvidenceKept` |
| | `DraftsNeverRevert` | `OwnDraftsNeverRevert`, an action property |
| `LegacySyncProofs` | `LegacyInvariant` | `Spec => []LegacyInv` |
| | `EtagsFollow` | `[]EtagFollowsRevision` |
| | `NeverInflated` | `[]XpNeverInflated` |
| | `ServerKeeps` | `ServerKeepsAwards`, an action property |
| | `PageKeeps` | `PageKeepsAwards`, an action property |
| `RecallDeckProofs` | `DeckInvariant` | `Spec => []DeckInv` |
| | `TextsStay` | `[]StaysWithItsCard` |
| | `NothingForgotten` | `[]UnsavedIsQueued` |
| `GaltonPlaybackProofs` | `GaltonInvariant` | `Spec => []GaltonInv` |
| | `CountedOnce` | `[]TrialsCountedOnce` |
| | `CompletionShown` | `[]FinishedIsShown` |
| `PreviewSupervisorProofs` | `SupervisorInvariant` | `Spec => []SupervisorInv` |
| | `ConnectorsOwned` | `[]ConnectorsAreOwned` |
| `EvidenceProofs` | `WorkspaceInvariant` | `Spec => []WorkspaceInv` |
| | `GapsNotHidden` | `[]GapsAreNotHidden` |
| | `LinksOpen` | `[]LinksOpenTheirCard` |
| | `PaletteKeys` | `[]PaletteTakesKeys` |
| | `RanksAreExact` | `RankIsExact` of every natural number |
| | `DocumentInvariant` | `DocumentSpec => []DocumentInv` |
| | `WritesAccepted` | `[]PageWritesAreAccepted` |
| | `XpEarned` | `[]XpIsEarned` |
| | `MoreNeverLess` | `[]MoreNeverScoresLess` |

Each module follows one plan: the inductive invariant holds initially; there is one
lemma per action (or group of actions that differ in nothing the invariant reads)
that it is preserved, with one step per conjunct the action can disturb; the
properties follow from it, or, for action properties, from it and a step. The run
`repository` checks `RepositoryInv`, which contains `SafetyInv`. To check another
of these invariants on its run's instance, add its name to the `INVARIANTS` of the
configuration: the `MC` modules extend the modules that define them.

**Repository.** `NoLostUpdate` is not inductive: that a save may commit its staged
row depends on nobody having committed since it read. So `SafetyInv` says who holds
the advisory lock (`LockHeld`: from the read to the end of the transaction, also
when the client has died), hence that what was read is still current at the write
and at the commit (`ReadIsCurrent`); that a transaction stages one row, its own
document at the expected revision plus one (`StagedRows`); that where the worker is
and how far its backend is agree (`PhasesAgree`), which excludes commits of what was
never written; and how committed rows, history and answers relate to transactions
(`CommitsAreBelowRow`, `HistoryIsCommitted`, `AnswersInFlight`). The lemma with
content is `ServerCommitSafe`, which rests on `CommitAdvances`: the row a commit
replaces is the one its transaction read.

`RepositoryInv` adds what the other two invariants and the refinement need: no
answer exceeds its row (`AnswersAreBelowRow`); what was answered before a call began
is below what the call writes and at most what it reports (`BeginsAreAfter`), of
which `AnswersAreFresh` is the last case; and a transaction's trim is still exact
when it commits (`TrimIsExact`), so that a window of the newest revisions stays one.
For the refinement, commits map to `Apply`, the replies to the `Tell...` actions of
the store, and everything else to a stutter.

**API.** That an ETag identifies a document says something of all responses at
once; `ApiInv` reduces it to the store: every save that took effect wrote the
revision after the one it named, no two of a profile named the same one
(`SavesAreChained`), and a document in an answer is the empty one or that of such a
save (`DocumentsAreApplied`). `CallsAreChecked` carries what `Refuse` lets through,
the agreement of If-Match, body and profile, to the moment of the answer.

**React synchronisation.** The difficulty is that a call a tab has given up may
commit at any later time. `SyncInv` separates what the tab knows (`TasksRun`,
`UpdatesInOrder`, `QueueIsLater`) from what is still possible on the server: every
save carries a document that follows from the one it expects to replace
(`BodiesFollow`), so the documents form a chain in which nothing is paid twice. A
validation is in no document that may still be committed except by a save of its own
update or one after it (`AttemptsHaveOrigin`); in particular not when the update is
about to be applied again. This is what makes the second try of
`saveProfileUpdate` safe. `AttemptsAreKept` and `DraftsInOrder` are the same chain
seen from one attempt and one tab's drafts.

**Legacy persistence.** The order is `Below`, of the awards and the XP of a state. Every
body contains what the server held under the revision it names (`BodiesFollow`), and
every page contains both that and the bodies of its saves under way (`PagesFollow`);
without the second part a response adopted while another save runs would let the
page forget. XP is never inflated because every state there is, page, body, snapshot
or row, holds no more than its awards are worth (`IsEarned`), which the merge
preserves.

**Recall deck.** The invariant says of every place a text can be (`DeckTyped`: the
editor, the timer, the validations, the queue, the profile) that it is there with the
card it was typed under. The work is in `Render`: `ActiveCard` is a function of the
address, filters, profile and catalogue, and each action that may change one of them
must reload the text. That it is a card when there is one to show, for every
catalogue, needs that a nonempty set of positions has a least one, which
`WellFoundedInduction` gives.

**Galton laboratory.** `TrialsCountedOnce` is inductive with the types: cohorts
tile the released trials, and landing moves a set of them from flight to
`Settled`. It is proved by cardinalities, not sums: a bin grows by as many trials of
the landed cohorts as have its outcome.

**Preview.** `ConnectorsAreOwned` rests on the port: only one supervisor serves, and
exactly while it holds the port (`PortIsServed`); a connector that was not told to
stop belongs to it (`ConnectorIsServed`); and no second connector is started over a
living one, since whatever makes `connect` due has seen the first one exit
(`OneConnector`).

**Workspace.** `GapsAreNotHidden` and `LinksOpenTheirCard` are about the evidence and
the location of one state; `WorkspaceInv` supplies that the attempts are of cards,
with scores, newest first (so that `LatestAttempts` finds one), and that a guide in
the history has a branch. The first then rests on `CoverageFacts`: of at most 150
cards, the whole percentage is 100 only when all have evidence. The bound matters: with
200 cards in a branch, 199 of them answered, `Rounded(19900, 200)` is 100, the branch is
called mastered and the mission may go elsewhere. `WeakestExists` and `NextOfFacts` give
the branch and the card that are chosen, by least elements of sets of naturals. The
second needs that a list of results is a list of commands: `EveryPlaceIsTaken` shows,
for any finite set in strict order, that each place is some element's, so that the
`CHOOSE` of a result always chooses a command. `PaletteTakesKeys` needs that the palette's
own focus move comes last while it is open (`FocusInv`), since the frame of an earlier
dismissal may still be to come, and that a closed palette is blank, so that opening it
puts the highlight on a result.

**Recall evidence.** No conjunct of `DocumentInv` is inductive alone. That the service
accepts a write needs that every retained attempt is the scorer's result of its text
(`AttemptsAreResults`), that ids grow with `accepted` and so are distinct, and that the
scorer's results pass the service's checks (`ResultIsValid`: the parts add up within
their limits for any vocabulary, matched and missing concepts are distinct and
disjoint). `XpIsEarned` compares a sum over all attempts ever accepted with a list of
claims that is cut: `ClaimsOfToday` says that the claims are in the order of their days
and those of today are exactly the cards that earned something today, and
`ClaimKeepsToday` that the cut never reaches them, because there are no more cards than
claims kept. Then `RewardsAdd` is the step of the sum.

Sums and folds (`SumFunction`, `FoldLeft`) are recursive functions, and the library's
induction theorems cannot be applied to them. The lemmas go by least counterexamples
instead: `LeastNatural` takes a least element from `WellFoundedInduction`,
`SetRecursion` shows that a recursion on the subsets of a finite set has a function,
and from them follow what a sum gains with one more element (`SumGrows`) and what
filtering a sequence keeps (`KeepFacts`, `ConceptFacts`). `MoreNeverScoresLess` is then
monotonicity part by part: a superset of tokens matches a superset of concepts
(`KeepGrows`), and the coverage of up to eight concepts is monotone after rounding.

Only model-checked is everything under fairness (`CallsEnd`, `LocksAreReleased`,
`SavesSettle`, `StatusSettles`, `ValidationsEnd`, `RunCompletes`,
`ConnectorComesBack`, `StopEnds`), which involves ENABLED, outside what the prover supports.

## 8. Not modelled

* Splitting a text into words, the validator's checks of JSON nesting, size and
  patterns, and the catalogue's checks at start-up (planned).
* The Python/SQLite server, which the Compose stack does not run (planned).
* What the preview gateway forwards and refuses: only its status route matters to
  the commands.
* The health indicator and the error boundary, which display; the identity form of
  the profile page (name and objective), two fields written through `save`; the texts
  of guides and scenarios, which are data.
* The Galton engine's floating-point draws; drawing; settings form; CSV export.
* Catalogue, health and diagnostics routes, `main.cpp`'s start and stop: they
  read, or happen before and after everything modelled.
* Edge, containers, styles, curriculum content and the other features of the
  legacy page: configuration and rendering. What the edge can do to a request,
  lose or delay it, the client models allow.
