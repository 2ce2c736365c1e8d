------------------------------ MODULE LegacySync ------------------------------
(****************************************************************************)
(* The legacy page's persistence (persistence.js and the save path of       *)
(* source.fragment.html) in several tabs of one browser, against the C++    *)
(* API's compatibility routes: the conditional store with a compulsory      *)
(* If-Match (ProfileStore, ProfileApi).                                     *)
(*                                                                          *)
(* A page loads the server's state once, saves the whole state 550 ms after *)
(* an edit, and on a conflict merges its state with the server's and saves  *)
(* again.  Nothing keeps two saves of one page apart; every call may be     *)
(* aborted after five seconds while the server still works on it.           *)
(****************************************************************************)
EXTENDS Naturals, FiniteSets

CONSTANTS
    Tabs,
    Keys,         \* what can be awarded, once each
    Bounds,       \* a set of bounds, of which a behaviour keeps one: the awards
                  \* and the page loads of each tab, the calls that fail or time
                  \* out, of all tabs
    Flows,        \* bound: persistNow runs of one page at the same time
    NoCall, NoTag

ASSUME LegacyBoundsAssumption ==
    Bounds \subseteq [edits : [Tabs -> Nat], opens : [Tabs -> Nat], lost : Nat]
ASSUME FinitelyManyAssumption ==
    IsFiniteSet(Keys) /\ IsFiniteSet(Flows) /\ Flows # {}

Profile == "local"

\* A persistNow makes at most three calls, a page load one more.
MaxCalls(b, t) == 3 * b.edits[t] + 4 * b.opens[t]
Calls == UNION {{t} \X (1 .. MaxCalls(b, t)) : t \in Tabs, b \in Bounds}

ASSUME NoneAssumption == NoCall \notin Calls /\ NoTag \notin Nat

VARIABLES
    rows, history, args, applied, answer,  \* the server: see ProfileStore
    body,      \* the state each call carries
    calls, edits, opens, lost,  \* calls sent, and what the bounds leave
    local,     \* localStorage[STORAGE_KEY], shared by the tabs
    phase,     \* closed, hydrating or open
    state, revision, timer, status,  \* the page: state, persistenceRevision, ...
    tag, cached,  \* persistence.js: stateEtag and cachedState
    flow       \* what each persistNow or hydration of the page is waiting for

serverVars == <<rows, history, args, applied, answer>>
pageVars == <<phase, state, revision, timer, status, tag, cached, flow>>
counted == <<edits, opens, lost>>
vars == <<serverVars, body, calls, counted, local, pageVars>>

Store == INSTANCE ProfileStore WITH
            Requests <- Calls, Profiles <- {Profile},
            HistoryLimit <- 1, NoRequest <- NoCall

-----------------------------------------------------------------------------
(* States and their merge.                                                  *)

\* What award() touches: the keys already paid and the XP, one point each.
Empty == [awards |-> {}, xp |-> 0]
States == [awards : SUBSET Keys, xp : 0 .. Cardinality(Keys)]

Award(s, k) == [awards |-> s.awards \cup {k}, xp |-> s.xp + 1]

\* Seeded faults: one side's awards win.
MineOnly(mine, theirs) == mine
TheirsOnly(mine, theirs) == theirs

MergeAwards(mine, theirs) == theirs \cup mine

\* Seeded fault: both tabs' points are added up.
SumXp(a, b) == a + b

MergeXp(a, b) == IF a >= b THEN a ELSE b

\* mergeProgressStates, for the two fields.
Merge(theirs, mine) == [awards |-> MergeAwards(mine.awards, theirs.awards),
                        xp |-> MergeXp(mine.xp, theirs.xp)]

\* The state the server holds under a revision.
StateAt(k) ==
    IF k = 0 THEN Empty ELSE body[CHOOSE c \in applied : args[c].expected + 1 = k]

ServerState == StateAt(rows[Profile].revision)

Record(k) == [revision |-> k, state |-> StateAt(k)]

-----------------------------------------------------------------------------

Idle == [step |-> "idle", call |-> NoCall, tag |-> NoTag]
Unsent == [op |-> "none", profile |-> Profile, expected |-> 0, valid |-> TRUE]
Tags == Nat \cup {NoTag}
Rows == [revision : Nat, state : Calls \cup {NoCall}]

\* Types of the variables; XP is never more than there is to earn.
TypeOK ==
    /\ rows \in [{Profile} -> Rows]
    /\ history \in [{Profile} -> SUBSET Rows]
    /\ args \in [Calls -> [op : {"none", "save", "load"}, profile : {Profile},
                           expected : Nat, valid : BOOLEAN]]
    /\ applied \in SUBSET Calls
    /\ answer \in [Calls -> [kind : {"none", "saved", "conflict", "loaded"},
                         revision : Nat]]
    /\ body \in [Calls -> States]
    /\ calls \in [Tabs -> Nat] /\ edits \in [Tabs -> Nat] /\ opens \in [Tabs -> Nat]
    /\ lost \in Nat
    /\ local \in States
    /\ phase \in [Tabs -> {"closed", "hydrating", "open"}]
    /\ state \in [Tabs -> States]
    /\ revision \in [Tabs -> Nat]
    /\ timer \in [Tabs -> BOOLEAN]
    /\ status \in [Tabs -> {"connecting", "saving", "saved", "offline"}]
    /\ tag \in [Tabs -> Tags]
    /\ cached \in [Tabs -> [revision : Nat, state : States]]
    /\ flow \in [Tabs -> [Flows -> [step : {"idle", "hydrate", "save", "reload", "resave"},
                                    call : Calls \cup {NoCall}, tag : Tags]]]

Init ==
    /\ Store!StoreInit
    /\ args = [c \in Calls |-> Unsent]
    /\ body = [c \in Calls |-> Empty]
    /\ calls = [t \in Tabs |-> 0]
    /\ \E b \in Bounds : edits = b.edits /\ opens = b.opens /\ lost = b.lost
    /\ local = Empty
    /\ phase = [t \in Tabs |-> "closed"]
    /\ state = [t \in Tabs |-> Empty]
    /\ revision = [t \in Tabs |-> 0]
    /\ timer = [t \in Tabs |-> FALSE]
    /\ status = [t \in Tabs |-> "connecting"]
    /\ tag = [t \in Tabs |-> NoTag]
    /\ cached = [t \in Tabs |-> [revision |-> 0, state |-> Empty]]
    /\ flow = [t \in Tabs |-> [f \in Flows |-> Idle]]

-----------------------------------------------------------------------------
(* Calls.                                                                   *)

NextCall(t) == <<t, calls[t] + 1>>

SendCall(t, f, step, request, s) ==
    /\ calls' = [calls EXCEPT ![t] = @ + 1]
    /\ args' = [args EXCEPT ![NextCall(t)] = request]
    /\ body' = [body EXCEPT ![NextCall(t)] = s]
    /\ flow' = [flow EXCEPT ![t][f] =
                  [step |-> step, call |-> NextCall(t), tag |-> tag[t]]]
    /\ UNCHANGED <<rows, history, applied, answer>>

\* opsPersistence.load: If-None-Match is the ETag the page has, if any.
SendGet(t, f, step) == SendCall(t, f, step, [Unsent EXCEPT !.op = "load"], Empty)

\* opsPersistence.save: the body names `k`, If-Match is the ETag `e` if there is
\* one; the API refuses a save without it or with another revision.
SendPut(t, f, step, k, e, s) ==
    SendCall(t, f, step,
             [Unsent EXCEPT !.op = "save", !.expected = k, !.valid = (e = k)], s)

NoSend == UNCHANGED <<serverVars, body, calls>>

\* The flow is over; the first one is the hydration that boot() waits for.
EndFlow(t, f) ==
    /\ flow' = [flow EXCEPT ![t][f] = Idle]
    /\ phase' = [phase EXCEPT ![t] = "open"]
    /\ NoSend

\* Which of the free flows a new run is does not matter.
HasFree(t) == \E f \in Flows : flow[t][f] = Idle
Free(t) == CHOOSE f \in Flows : flow[t][f] = Idle

Waits(t, f, step, kind) ==
    flow[t][f].step = step /\ answer[flow[t][f].call].kind = kind

\* Seeded fault: the ETag of the first answer is kept.
FirstTag(t, k) == IF tag[t] = NoTag THEN k ELSE tag[t]

\* stateEtag = result.etag
NewTag(t, k) == k

\* What opsPersistence.load returns: on 304 the cached state, else the response.
LoadResult(t, f) ==
    LET k == answer[flow[t][f].call].revision
    IN  IF k = flow[t][f].tag THEN cached[t] ELSE Record(k)

\* load and save remember the record with its ETag, persistNow its revision.
Remember(t, record) ==
    /\ cached' = [cached EXCEPT ![t] = record]
    /\ tag' = [tag EXCEPT ![t] = NewTag(t, record.revision)]
    /\ revision' = [revision EXCEPT ![t] = record.revision]

Show(t, label) == status' = [status EXCEPT ![t] = label]

-----------------------------------------------------------------------------
(* boot() and hydratePersistence.                                           *)

\* loadState reads localStorage; everything else starts afresh.
Open(t) ==
    /\ phase[t] = "closed" /\ opens[t] > 0
    /\ opens' = [opens EXCEPT ![t] = @ - 1]
    /\ phase' = [phase EXCEPT ![t] = "hydrating"]
    /\ state' = [state EXCEPT ![t] = local]
    /\ SendGet(t, Free(t), "hydrate")
    /\ UNCHANGED <<edits, lost, local, revision, timer, status, tag, cached>>

\* The server's state replaces the page's ...
Hydrated(t, f) ==
    /\ Waits(t, f, "hydrate", "loaded")
    /\ LET record == LoadResult(t, f) IN
       /\ record.revision > 0
       /\ Remember(t, record)
       /\ state' = [state EXCEPT ![t] = record.state]
    /\ Show(t, "saved")
    /\ EndFlow(t, f)
    /\ UNCHANGED <<counted, local, timer>>

\* ... or, when it has none, is created from it.
HydratedEmpty(t, f) ==
    /\ Waits(t, f, "hydrate", "loaded")
    /\ LET record == LoadResult(t, f) IN
       /\ record.revision = 0
       /\ Remember(t, record)
    /\ Show(t, "saving")
    /\ SendPut(t, f, "save", 0, tag'[t], state[t])
    /\ UNCHANGED <<counted, local, phase, state, timer>>

-----------------------------------------------------------------------------
(* Edits, the debounce timer and persistNow.                                *)

\* award() and saveState(): localStorage is overwritten, the timer restarted.
Earn(t, k) ==
    /\ phase[t] = "open" /\ edits[t] > 0
    /\ k \notin state[t].awards
    /\ edits' = [edits EXCEPT ![t] = @ - 1]
    /\ state' = [state EXCEPT ![t] = Award(@, k)]
    /\ local' = state'[t]
    /\ timer' = [timer EXCEPT ![t] = TRUE]
    /\ Show(t, "saving")
    /\ NoSend
    /\ UNCHANGED <<opens, lost, phase, revision, tag, cached, flow>>

\* The timer starts a persistNow, also while others are under way.
TimerFires(t) ==
    /\ timer[t] /\ HasFree(t)
    /\ timer' = [timer EXCEPT ![t] = FALSE]
    /\ Show(t, "saving")
    /\ SendPut(t, Free(t), "save", revision[t], tag[t], state[t])
    /\ UNCHANGED <<counted, local, phase, state, revision, tag, cached>>

\* The page shows "Saved", whatever was edited since the call was sent.
SaveDone(t, f) ==
    /\ Waits(t, f, "save", "saved") \/ Waits(t, f, "resave", "saved")
    /\ LET c == flow[t][f].call IN
       Remember(t, [revision |-> answer[c].revision, state |-> body[c]])
    /\ Show(t, "saved")
    /\ EndFlow(t, f)
    /\ UNCHANGED <<counted, local, state, timer>>

\* 409: load the newer state ...
Conflicts(t, f) ==
    /\ Waits(t, f, "save", "conflict")
    /\ SendGet(t, f, "reload")
    /\ UNCHANGED <<counted, local, phase, state, revision, timer, status, tag, cached>>

\* ... merge it into the page's state as it is by now, and save once more.
Reloaded(t, f) ==
    /\ Waits(t, f, "reload", "loaded")
    /\ LET record == LoadResult(t, f) IN
       /\ Remember(t, record)
       /\ state' = [state EXCEPT ![t] = Merge(record.state, @)]
       /\ SendPut(t, f, "resave", record.revision, tag'[t], state'[t])
    /\ UNCHANGED <<counted, local, phase, timer, status>>

\* Seeded fault: the calls have no timeout.
IsConflict(c) == answer[c].kind = "conflict"

\* Any error but the first 409, or five seconds without an answer: at any time.
MayFail(c) == TRUE

\* "Offline backup".  After a failed hydration too the page is ready to save.
CallFails(t, f) ==
    /\ LET c == flow[t][f].call IN
       /\ flow[t][f] # Idle /\ MayFail(c)
       /\ \/ /\ ~args[c].valid \/ Waits(t, f, "resave", "conflict")
             /\ UNCHANGED lost
          \/ lost > 0 /\ lost' = lost - 1
    /\ Show(t, "offline")
    /\ EndFlow(t, f)
    /\ UNCHANGED <<edits, opens, local, state, revision, timer, tag, cached>>

\* The tab is closed or reloaded: timers and callbacks die with the page.
Close(t) ==
    /\ phase[t] = "open" /\ opens[t] > 0
    /\ phase' = [phase EXCEPT ![t] = "closed"]
    /\ state' = [state EXCEPT ![t] = Empty]
    /\ revision' = [revision EXCEPT ![t] = 0]
    /\ timer' = [timer EXCEPT ![t] = FALSE]
    /\ Show(t, "connecting")
    /\ tag' = [tag EXCEPT ![t] = NoTag]
    /\ cached' = [cached EXCEPT ![t] = [revision |-> 0, state |-> Empty]]
    /\ flow' = [flow EXCEPT ![t] = [f \in Flows |-> Idle]]
    /\ NoSend
    /\ UNCHANGED <<counted, local>>

-----------------------------------------------------------------------------
(* The server works on whatever was sent, also for callers that gave up.    *)

\* Answers to them reach nobody.  Any other error answer, the 400 to a save that
\* fails the If-Match check among them, is a failure like those of CallFails.
Awaited(c) == \E t \in Tabs, f \in Flows : flow[t][f].call = c

ServerStep(c) ==
    /\ args[c].op # "none"
    /\ \/ Store!Apply(c)
       \/ /\ Awaited(c)
          /\ \/ Store!TellSaved(c) \/ Store!TellLoaded(c)
             \/ args[c].valid /\ Store!TellConflict(c)
    /\ UNCHANGED <<body, calls, counted, local, pageVars>>

FlowStep(t) ==
    \E f \in Flows :
        \/ Hydrated(t, f) \/ HydratedEmpty(t, f) \/ SaveDone(t, f)
        \/ Conflicts(t, f) \/ Reloaded(t, f) \/ CallFails(t, f)

UserStep(t) == Open(t) \/ Close(t) \/ \E k \in Keys : Earn(t, k)

Finished ==
    /\ \A t \in Tabs : ~timer[t] /\ \A f \in Flows : flow[t][f] = Idle
    /\ UNCHANGED vars

Next ==
    \/ \E t \in Tabs : FlowStep(t) \/ TimerFires(t) \/ UserStep(t)
    \/ \E c \in Calls : ServerStep(c)
    \/ Finished

\* Timers fire and promise callbacks run; the server owes nothing.
Fairness == \A t \in Tabs : WF_vars(FlowStep(t)) /\ WF_vars(TimerFires(t))

Spec == Init /\ [][Next]_vars
FairSpec == Spec /\ Fairness

-----------------------------------------------------------------------------
(* Properties.                                                              *)

\* While a page is open nothing it has shown as earned disappears, whatever
\* conflicts it met and in whatever order answers arrived.
PageKeepsAwards ==
    [][\A t \in Tabs :
          (phase[t] = "open" /\ phase'[t] = "open") =>
              /\ state[t].awards \subseteq state'[t].awards
              /\ state[t].xp <= state'[t].xp]_pageVars

\* No save takes an award off the server, however stale its page was.
ServerKeepsAwards ==
    [][/\ ServerState.awards \subseteq ServerState'.awards
       /\ ServerState.xp <= ServerState'.xp]_serverVars

\* Merging pays nobody twice: there is never more XP than awards to show for it.
XpNeverInflated ==
    \A s \in {ServerState, local} \cup {state[t] : t \in Tabs} :
        s.xp <= Cardinality(s.awards)

\* The ETag in persistence.js, its cached state and the page's revision go
\* together, although overlapping saves set them in any order: once a page has
\* an ETag, no save of it is refused for its If-Match.
EtagFollowsRevision ==
    \A t \in Tabs :
        /\ tag[t] # NoTag => tag[t] = revision[t] /\ cached[t] = Record(tag[t])
        /\ tag[t] = NoTag => revision[t] = 0

\* A page does not say "Saving" or "Connecting" for ever, unless the bound of the
\* calls that may fail is used up and the server does not answer
\* (source.fragment.html:8323-8350).
StatusSettles ==
    \A t \in Tabs :
        (phase[t] # "closed" /\ status[t] \in {"saving", "connecting"}) ~>
            (phase[t] = "closed" \/ status[t] \in {"saved", "offline"} \/ lost = 0)
=============================================================================
