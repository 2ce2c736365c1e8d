----------------------------- MODULE ProfileSync ------------------------------
(****************************************************************************)
(* The React client's profile synchronisation (state/profile-state.tsx over *)
(* api/client.ts) in several browser tabs of one profile, against the       *)
(* conditional store the API promises (ProfileStore).                       *)
(*                                                                          *)
(* A tab queues its updates, runs one at a time against its query cache,    *)
(* and on a revision race reloads and applies the update once more.  Any    *)
(* call may time out in the browser while the server still works on it.     *)
(****************************************************************************)
EXTENDS Naturals, Sequences, FiniteSets

CONSTANTS
    Tabs,
    RewardKeys,      \* "card:day" keys of flashRewardClaims
    Rewarded,        \* whether recallReward(score) is positive: a subset of BOOLEAN
    AttemptLimit,    \* flashAttempts.slice(0, 200)
    MaxUpdates,      \* bound: save() calls of each tab
    MaxFetches,      \* bound: query fetches of each tab
    NoCall

Profile == "local"

\* An update needs at most four calls: PUT, GET, PUT, and the refetch.
MaxCalls(t) == 4 * MaxUpdates[t] + MaxFetches[t]
Calls == UNION {{t} \X (1 .. MaxCalls(t)) : t \in Tabs}
Updates == UNION {{t} \X (1 .. MaxUpdates[t]) : t \in Tabs}

ASSUME BoundsAssumption ==
    MaxUpdates \in [Tabs -> Nat \ {0}] /\ MaxFetches \in [Tabs -> Nat \ {0}]
ASSUME RewardedAssumption == Rewarded \in SUBSET BOOLEAN
ASSUME AttemptLimitAssumption == AttemptLimit \in Nat \ {0}
ASSUME NoCallAssumption == NoCall \notin Calls

VARIABLES
    rows, history, args, applied, answer,  \* the server: see ProfileStore
    body,       \* the document each call carries
    calls,      \* calls made so far, per tab
    cache,      \* the tab's query cache: [status, revision, doc]
    fetch,      \* the query's own call in flight, or NoCall
    fetches,    \* query fetches begun so far (bounded)
    queue,      \* updates waiting in saveQueue
    task,       \* the update being saved and how far it is
    update,     \* what each update does: its kind and reward key
    outcome     \* how each update's promise stands

serverVars == <<rows, history, args, applied, answer>>
clientVars == <<body, calls, cache, fetch, fetches,
                queue, task, update, outcome>>
vars == <<serverVars, clientVars>>

Store == INSTANCE ProfileStore WITH
            Requests <- Calls, Profiles <- {Profile},
            HistoryLimit <- 1, NoRequest <- NoCall

-----------------------------------------------------------------------------
(* Documents and updates.                                                   *)

\* What the updates touch of ProgressState.  A draft is the number of the
\* update that wrote it, in a card of the tab's own.
EmptyDoc == [attempts |-> <<>>, claims |-> {}, xp |-> 0, drafts |-> [t \in Tabs |-> 0]]

\* flashAttempts.slice(0, n)
Slice(s, n) == IF Len(s) <= n THEN s ELSE SubSeq(s, 1, n)

\* A good enough score pays unless its key was claimed.
Pays(doc, u) == update[u].reward /\ update[u].key \notin doc.claims

\* validate(): the attempt is recorded, and pays once per reward key.
RecordAttempt(doc, u) ==
    LET paid == IF Pays(doc, u) THEN {update[u].key} ELSE {}
    IN  [doc EXCEPT !.xp = @ + Cardinality(paid),
                    !.attempts = Slice(<<u>> \o @, AttemptLimit),
                    !.claims = @ \cup paid]

\* The draft effect: the card's text is replaced.
SaveDraft(doc, u) == [doc EXCEPT !.drafts[u[1]] = u[2]]

Perform(doc, u) ==
    IF update[u].kind = "validate" THEN RecordAttempt(doc, u) ELSE SaveDraft(doc, u)

\* The document the server holds under a revision.
DocumentAt(revision) ==
    IF revision = 0 THEN EmptyDoc
    ELSE body[CHOOSE c \in applied : args[c].expected + 1 = revision]

ServerDocument == DocumentAt(rows[Profile].revision)

-----------------------------------------------------------------------------

NoUpdate == <<>>
Idle == [phase |-> "idle", update |-> NoUpdate, attempt |-> 0, call |-> NoCall]
Unsent == [op |-> "none", profile |-> Profile, expected |-> 0, valid |-> TRUE]
Unloaded == [status |-> "pending", revision |-> 0, doc |-> EmptyDoc]
Loaded(revision, doc) == [status |-> "success", revision |-> revision, doc |-> doc]

Docs == [attempts : Seq(Updates), claims : SUBSET RewardKeys,
         xp : Nat, drafts : [Tabs -> Nat]]
Rows == [revision : Nat, state : Calls \cup {NoCall}]
Kinds == {[kind |-> k] : k \in {"none", "draft"}}
            \cup [kind : {"validate"}, key : RewardKeys, reward : BOOLEAN]

TypeOK ==
    /\ rows \in [{Profile} -> Rows]
    /\ history \in [{Profile} -> SUBSET Rows]
    /\ args \in [Calls -> [op : {"none", "save", "load"}, profile : {Profile},
                           expected : Nat, valid : BOOLEAN]]
    /\ applied \in SUBSET Calls
    /\ answer \in [Calls -> [revision : Nat,
                     kind : {"none", "saved", "conflict", "loaded", "failed"}]]
    /\ body \in [Calls -> Docs]
    /\ calls \in [Tabs -> Nat]
    /\ cache \in [Tabs -> [status : {"pending", "success", "error"},
                           revision : Nat, doc : Docs]]
    /\ fetch \in [Tabs -> Calls \cup {NoCall}]
    /\ fetches \in [Tabs -> Nat]
    /\ queue \in [Tabs -> Seq(Updates)]
    /\ task \in [Tabs -> [phase : {"idle", "putting", "reloading", "refetching"},
                          update : Updates \cup {NoUpdate}, attempt : {0, 1},
                          call : Calls \cup {NoCall}]]
    /\ \A t \in Tabs : task[t].phase = "idle" <=> task[t] = Idle
    /\ update \in [Updates -> Kinds]
    /\ outcome \in [Updates -> {"unused", "queued", "running", "resolved",
                                "failed", "raced"}]

Init ==
    /\ Store!StoreInit
    /\ args = [c \in Calls |-> Unsent]
    /\ body = [c \in Calls |-> EmptyDoc]
    /\ calls = [t \in Tabs |-> 0]
    /\ cache = [t \in Tabs |-> Unloaded]
    /\ fetch = [t \in Tabs |-> NoCall]
    /\ fetches = [t \in Tabs |-> 0]
    /\ queue = [t \in Tabs |-> <<>>]
    /\ task = [t \in Tabs |-> Idle]
    /\ update = [u \in Updates |-> [kind |-> "none"]]
    /\ outcome = [u \in Updates |-> "unused"]

-----------------------------------------------------------------------------
(* Calls.                                                                   *)

NextCall(t) == <<t, calls[t] + 1>>

SendCall(t, request, doc) ==
    /\ calls' = [calls EXCEPT ![t] = @ + 1]
    /\ args' = [args EXCEPT ![NextCall(t)] = request]
    /\ body' = [body EXCEPT ![NextCall(t)] = doc]
    /\ UNCHANGED <<rows, history, applied, answer>>

SendGet(t) == SendCall(t, [Unsent EXCEPT !.op = "load"], EmptyDoc)

\* If-Match and the body name the same revision.
SendPut(t, revision, doc) ==
    SendCall(t, [Unsent EXCEPT !.op = "save", !.expected = revision], doc)

NoSend == UNCHANGED <<serverVars, body, calls>>

\* Seeded fault: every answered error is taken for a revision race.
IsAnyError(c) == answer[c].kind \in {"conflict", "failed", "unavailable"}

\* 409 revision_conflict; a lost or late answer is not one.
IsRevisionRace(c) == answer[c].kind = "conflict"

-----------------------------------------------------------------------------
(* The query: first load, reconnect, Retry button, invalidation.            *)

StartFetch(t) ==
    /\ fetch[t] = NoCall
    /\ fetches[t] < MaxFetches[t]
    /\ fetches' = [fetches EXCEPT ![t] = @ + 1]
    /\ SendGet(t)
    /\ fetch' = [fetch EXCEPT ![t] = NextCall(t)]
    /\ UNCHANGED <<cache, queue, task, update, outcome>>

\* The promise of the running update settles.
EndTask(t, result) ==
    LET u == task[t].update IN
    /\ task' = [task EXCEPT ![t] = Idle]
    /\ outcome' = [outcome EXCEPT ![u] = result]
    /\ UNCHANGED <<queue, update, fetches>>

\* invalidateQueries never rejects: the raced save ends when the fetch does.
AfterFetch(t) ==
    IF task[t].phase = "refetching" THEN EndTask(t, "raced")
    ELSE UNCHANGED <<fetches, queue, task, update, outcome>>

\* The response replaces the cache, whatever was saved since it was read.
FetchDone(t) ==
    /\ fetch[t] # NoCall /\ answer[fetch[t]].kind = "loaded"
    /\ LET revision == answer[fetch[t]].revision
       IN  cache' = [cache EXCEPT ![t] = Loaded(revision, DocumentAt(revision))]
    /\ fetch' = [fetch EXCEPT ![t] = NoCall]
    /\ AfterFetch(t)
    /\ NoSend

\* The fetch and its two retries failed; cached data stays, the screen does not.
FetchFails(t) ==
    /\ fetch[t] # NoCall
    /\ cache' = [cache EXCEPT ![t].status = "error"]
    /\ fetch' = [fetch EXCEPT ![t] = NoCall]
    /\ AfterFetch(t)
    /\ NoSend

-----------------------------------------------------------------------------
(* save(): the queue, one task at a time.                                   *)

UsedUpdates(t) == Cardinality({n \in 1 .. MaxUpdates[t] : outcome[<<t, n>>] # "unused"})

\* Seeded fault: the newest update is saved first.
Stacked(q, u) == <<u>> \o q

\* saveQueue.current = saveQueue.current.then(...)
Queued(q, u) == Append(q, u)

\* The page is on screen only while the query is in its success state.
Enqueue(t, what) ==
    LET u == <<t, UsedUpdates(t) + 1>> IN
    /\ cache[t].status = "success"
    /\ UsedUpdates(t) < MaxUpdates[t]
    /\ update' = [update EXCEPT ![u] = what]
    /\ outcome' = [outcome EXCEPT ![u] = "queued"]
    /\ queue' = [queue EXCEPT ![t] = Queued(@, u)]
    /\ UNCHANGED <<cache, fetch, fetches, task>>
    /\ NoSend

\* The recall answer was scored.  The page's isValidating does not keep a second
\* one away: leaving the page and coming back resets it.
Validate(t, key, reward) ==
    Enqueue(t, [kind |-> "validate", key |-> key, reward |-> reward])

\* The 700 ms draft timer fires, also while another save runs.
Draft(t) == Enqueue(t, [kind |-> "draft"])

\* saveQueue.current.catch(() => undefined): a failed save does not stop the next.
StartTask(t) ==
    LET u == Head(queue[t]) IN
    /\ task[t] = Idle /\ queue[t] # <<>>
    /\ SendPut(t, cache[t].revision, Perform(cache[t].doc, u))
    /\ task' = [task EXCEPT ![t] =
          [phase |-> "putting", update |-> u, attempt |-> 0, call |-> NextCall(t)]]
    /\ queue' = [queue EXCEPT ![t] = Tail(@)]
    /\ outcome' = [outcome EXCEPT ![u] = "running"]
    /\ UNCHANGED <<cache, fetch, fetches, update>>

\* Seeded fault: the saved profile keeps the revision it was sent with.
SentRecord(c) == Loaded(args[c].expected, body[c])

SavedRecord(c) == Loaded(answer[c].revision, body[c])

PutSaved(t) ==
    LET c == task[t].call IN
    /\ task[t].phase = "putting" /\ answer[c].kind = "saved"
    /\ cache' = [cache EXCEPT ![t] = SavedRecord(c)]
    /\ EndTask(t, "resolved")
    /\ UNCHANGED fetch
    /\ NoSend

\* The first race: load the newer profile.
PutRaces(t) ==
    /\ task[t].phase = "putting" /\ task[t].attempt = 0
    /\ IsRevisionRace(task[t].call)
    /\ SendGet(t)
    /\ task' = [task EXCEPT ![t].phase = "reloading", ![t].call = NextCall(t)]
    /\ UNCHANGED <<cache, fetch, fetches, queue, update, outcome>>

\* Seeded fault: the update is applied to the cached profile again.
CachedDocument(t) == cache[t].doc

\* candidate.state after the reload.
ReloadedDocument(t) == DocumentAt(answer[task[t].call].revision)

\* ... apply the update to it, and save once more.
Reloaded(t) ==
    LET c == task[t].call IN
    /\ task[t].phase = "reloading" /\ answer[c].kind = "loaded"
    /\ SendPut(t, answer[c].revision, Perform(ReloadedDocument(t), task[t].update))
    /\ task' = [task EXCEPT ![t].phase = "putting", ![t].attempt = 1,
                            ![t].call = NextCall(t)]
    /\ UNCHANGED <<cache, fetch, fetches, queue, update, outcome>>

\* The second race: refetch the query (a fetch in flight is dropped), then give up.
PutRacesAgain(t) ==
    /\ task[t].phase = "putting" /\ task[t].attempt = 1
    /\ IsRevisionRace(task[t].call)
    /\ SendGet(t)
    /\ fetch' = [fetch EXCEPT ![t] = NextCall(t)]
    /\ task' = [task EXCEPT ![t].phase = "refetching"]
    /\ UNCHANGED <<cache, fetches, queue, update, outcome>>

\* Seeded fault: the calls have no timeout.
IsFailure(c) == answer[c].kind = "failed"

\* Any error but a race, or seven seconds without an answer: at any time.
MayFail(c) == TRUE

\* The save rejects.
CallFails(t) ==
    /\ task[t].phase \in {"putting", "reloading"}
    /\ MayFail(task[t].call)
    /\ EndTask(t, "failed")
    /\ UNCHANGED <<cache, fetch>>
    /\ NoSend

-----------------------------------------------------------------------------
(* The server works on whatever was sent, also for callers that gave up.    *)

\* Answers to them reach nobody.  Error answers to a load, and "unavailable",
\* are failures the tab cannot tell from FetchFails and CallFails.
Awaited(c) == \E t \in Tabs : fetch[t] = c \/ task[t].call = c

ServerStep(c) ==
    /\ args[c].op # "none"
    /\ \/ Store!Apply(c)
       \/ /\ Awaited(c)
          /\ \/ Store!TellSaved(c) \/ Store!TellConflict(c) \/ Store!TellLoaded(c)
             \/ args[c].op = "save" /\ Store!TellFailed(c)
    /\ UNCHANGED clientVars

SaveStep(t) ==
    StartTask(t) \/ PutSaved(t) \/ PutRaces(t) \/ Reloaded(t) \/ PutRacesAgain(t)
        \/ CallFails(t)

FetchStep(t) == FetchDone(t) \/ FetchFails(t)

UserStep(t) ==
    \/ StartFetch(t)
    \/ Draft(t)
    \/ \E key \in RewardKeys, reward \in Rewarded : Validate(t, key, reward)

\* Nothing is in flight or queued, and the bounds stop the user.
Finished ==
    /\ \A t \in Tabs : task[t] = Idle /\ queue[t] = <<>> /\ fetch[t] = NoCall
    /\ UNCHANGED vars

Next ==
    \/ \E t \in Tabs : SaveStep(t) \/ FetchStep(t) \/ UserStep(t)
    \/ \E c \in Calls : ServerStep(c)
    \/ Finished

\* Timeouts fire and promise callbacks run; the server owes nothing.
Fairness == \A t \in Tabs : WF_vars(SaveStep(t)) /\ WF_vars(FetchStep(t))

Spec == Init /\ [][Next]_vars
FairSpec == Spec /\ Fairness

-----------------------------------------------------------------------------
(* Properties.                                                              *)

\* Whatever tabs validated the card and however their saves raced, timed out,
\* committed late or were reapplied, XP is paid exactly once per reward key and
\* an attempt is recorded at most once (profile-state.tsx:58, :97).
PaidAndRecordedOnce ==
    /\ ServerDocument.xp = Cardinality(ServerDocument.claims)
    /\ \A i, j \in DOMAIN ServerDocument.attempts :
          i # j => ServerDocument.attempts[i] # ServerDocument.attempts[j]

\* An attempt whose save resolved stays in the profile until newer ones fill it.
ResolvedEvidenceKept ==
    \A u \in Updates :
        (outcome[u] = "resolved" /\ update[u].kind = "validate") =>
            \/ \E i \in DOMAIN ServerDocument.attempts : ServerDocument.attempts[i] = u
            \/ Len(ServerDocument.attempts) = AttemptLimit

\* What a tab shows was committed once, under the revision the tab sends next.
CacheIsCommitted ==
    \A t \in Tabs :
        /\ cache[t].revision <= rows[Profile].revision
        /\ cache[t].doc = DocumentAt(cache[t].revision)

\* A tab's later draft is never replaced by its own earlier one.
OwnDraftsNeverRevert ==
    [][\A t \in Tabs : ServerDocument'.drafts[t] >= ServerDocument.drafts[t]]_serverVars

\* Every save() settles: resolved, failed, or raced twice.
SavesSettle ==
    \A u \in Updates : outcome[u] = "queued" ~>
                           outcome[u] \in {"resolved", "failed", "raced"}
=============================================================================
