---------------------------- MODULE ProfileSyncInv ----------------------------
(****************************************************************************)
(* The inductive invariant behind the safety properties of ProfileSync, as  *)
(* a conjunction of named parts.                                            *)
(****************************************************************************)
EXTENDS ProfileSync

Current == rows[Profile].revision

IsSave(c) == args[c].op = "save"

\* Documents as the updates make them: each reward was paid once, each attempt
\* listed once.
IsProper(doc) ==
    /\ doc \in Docs
    /\ IsFiniteSet(doc.claims) /\ doc.xp = Cardinality(doc.claims)
    /\ Len(doc.attempts) <= AttemptLimit
    /\ \A i, j \in DOMAIN doc.attempts : i # j => doc.attempts[i] # doc.attempts[j]

Lists(doc, u) == \E i \in DOMAIN doc.attempts : doc.attempts[i] = u

Keeps(doc, u) == Lists(doc, u) \/ Len(doc.attempts) = AttemptLimit

\* What an update makes of the document it is applied to.
Follows(base, doc) ==
    /\ \A u \in Updates : Keeps(base, u) => Keeps(doc, u)
    /\ \A t \in Tabs : doc.drafts[t] >= base.drafts[t]

\* A call not yet made has left nothing behind.
CallsAreFresh ==
    \A c \in Calls : c[2] > calls[c[1]] =>
        /\ args[c] = Unsent /\ body[c] = EmptyDoc
        /\ answer[c] = Store!NoAnswer /\ c \notin applied

\* Updates that settled, and what the running one has spent of its four calls.
Settled(t) ==
    {n \in 1 .. MaxUpdates[t] : outcome[<<t, n>>] \in {"resolved", "failed", "raced"}}

Spent(t) == CASE task[t].phase = "idle" -> 0
              [] task[t].phase = "putting" /\ task[t].attempt = 0 -> 1
              [] task[t].phase = "reloading" -> 2
              [] task[t].phase = "putting" /\ task[t].attempt = 1 -> 3
              [] OTHER -> 4

CallsSuffice ==
    \A t \in Tabs :
        /\ fetches[t] <= MaxFetches[t]
        /\ calls[t] <= fetches[t] + 4 * Cardinality(Settled(t)) + Spent(t)

\* Updates are numbered as they come, and wait in that order.
UpdatesInOrder ==
    \A t \in Tabs :
        /\ \A n \in 1 .. MaxUpdates[t] :
              outcome[<<t, n>>] # "unused" <=> n <= UsedUpdates(t)
        /\ \A i \in 1 .. Len(queue[t]) :
              queue[t][i][1] = t /\ outcome[queue[t][i]] = "queued"
        /\ \A i, j \in 1 .. Len(queue[t]) :
              i < j => queue[t][i][2] < queue[t][j][2]

\* The update being saved and the call it waits for.
TasksRun ==
    \A t \in Tabs :
        LET k == task[t] IN
        k.phase # "idle" =>
            /\ k.update \in Updates /\ k.update[1] = t
            /\ outcome[k.update] = "running"
            /\ k.call \in Calls
            /\ k.phase = "putting" => IsSave(k.call)

\* The server's saves form one chain that ends at the current row.
SavesAreChained ==
    /\ \A c \in applied :
          /\ IsSave(c) /\ args[c].expected < Current
          /\ answer[c].kind \in {"none", "failed", "saved"}
    /\ \A c, d \in applied : c # d => args[c].expected # args[d].expected
    /\ \A k \in 1 .. Current : \E c \in applied : args[c].expected + 1 = k

AnswersAreTrue ==
    \A c \in Calls :
        /\ answer[c].kind = "loaded" => answer[c].revision <= Current
        /\ answer[c].kind = "saved" =>
              c \in applied /\ answer[c].revision = args[c].expected + 1

\* Every save carries a proper document made from the one it expects to replace.
BodiesFollow ==
    \A c \in Calls :
        /\ IsProper(body[c])
        /\ IsSave(c) => /\ args[c].expected <= Current
                        /\ Follows(DocumentAt(args[c].expected), body[c])

\* A call that may yet have an effect, or had it.
Live(c) == answer[c].kind # "conflict"

\* An attempt travels with its own update first: what waits, and what was refused
\* and will be applied again, is in no document of the server and will not be.
AttemptsHaveOrigin ==
    \A c \in Calls, u \in Updates :
        (Live(c) /\ Lists(body[c], u)) =>
            /\ outcome[u] \notin {"unused", "queued"}
            /\ LET k == task[u[1]] IN
               k.update = u =>
                  /\ k.phase # "reloading"
                  /\ k.phase = "putting" => c = k.call \/ k.call \in applied

\* A validation that is being saved is listed in the document it sends, and one
\* that the server took has been kept ever since.
AttemptsAreKept ==
    /\ \A t \in Tabs :
          (task[t].phase = "putting" /\ update[task[t].update].kind = "validate") =>
              Lists(body[task[t].call], task[t].update)
    /\ \A c \in applied, u \in Updates :
          Lists(body[c], u) => Keeps(ServerDocument, u)
    /\ ResolvedEvidenceKept

\* No document holds a draft of a tab that is newer than what the tab has sent.
DraftsInOrder ==
    \A c \in Calls, t \in Tabs :
        /\ body[c].drafts[t] <= UsedUpdates(t)
        /\ task[t].phase # "idle" => body[c].drafts[t] <= task[t].update[2]
        /\ \A i \in 1 .. Len(queue[t]) : body[c].drafts[t] < queue[t][i][2]

\* The running update is older than those that wait.
QueueIsLater ==
    \A t \in Tabs :
        task[t].phase # "idle" =>
            \A i \in 1 .. Len(queue[t]) : task[t].update[2] < queue[t][i][2]

SyncInv ==
    /\ TypeOK
    /\ CallsAreFresh /\ CallsSuffice
    /\ UpdatesInOrder /\ TasksRun /\ QueueIsLater
    /\ SavesAreChained /\ AnswersAreTrue /\ CacheIsCommitted
    /\ BodiesFollow /\ AttemptsHaveOrigin /\ AttemptsAreKept /\ DraftsInOrder
=============================================================================
