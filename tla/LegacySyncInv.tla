---------------------------- MODULE LegacySyncInv -----------------------------
(****************************************************************************)
(* The inductive invariant behind the safety properties of LegacySync, as a *)
(* conjunction of named parts.                                              *)
(****************************************************************************)
EXTENDS LegacySync

Current == rows[Profile].revision

\* XP that was earned, one point for each award.
IsEarned(s) == s \in States /\ s.xp <= Cardinality(s.awards)

\* Nothing of `a` is missing in `b`.
Below(a, b) == a.awards \subseteq b.awards /\ a.xp <= b.xp

\* A call not yet made has left nothing behind.
CallsAreFresh ==
    \A c \in Calls : c[2] > calls[c[1]] =>
        /\ args[c] = Unsent /\ body[c] = Empty
        /\ answer[c] = Store!NoAnswer /\ c \notin applied

Count(t, step) == Cardinality({f \in Flows : flow[t][f].step = step})

\* The calls that what is left, what waits and what runs may still make.
Cost(t) ==
    3 * edits[t] + 4 * opens[t] + (IF timer[t] THEN 3 ELSE 0)
        + 3 * Count(t, "hydrate") + 2 * Count(t, "save") + Count(t, "reload")

CallsSuffice ==
    \E b \in Bounds : \A t \in Tabs : calls[t] + Cost(t) <= MaxCalls(b, t)

\* A closed page runs nothing, a hydrating one its hydration alone, and what runs
\* has sent the call it waits for.
FlowsRun ==
    \A t \in Tabs, f \in Flows :
        LET k == flow[t][f] IN
        /\ k.step = "idle" <=> k = Idle
        /\ k # Idle => /\ phase[t] # "closed" /\ k.call \in Calls
                       /\ args[k.call].op = IF k.step \in {"save", "resave"} THEN "save"
                                                                            ELSE "load"
                       /\ phase[t] = "hydrating" =>
                             \A g \in Flows : flow[t][g] # Idle => g = f
        /\ k.step = "hydrate" => phase[t] = "hydrating"
        /\ k.tag # NoTag => tag[t] # NoTag
        /\ phase[t] # "open" => ~timer[t]
        /\ phase[t] = "closed" => tag[t] = NoTag

\* The server's saves form one chain that ends at the current row.
SavesAreChained ==
    /\ \A c \in applied :
          /\ args[c].op = "save" /\ args[c].expected < Current
          /\ answer[c].kind \in {"none", "saved"}
    /\ \A c, d \in applied : c # d => args[c].expected # args[d].expected
    /\ \A k \in 1 .. Current : \E c \in applied : args[c].expected + 1 = k

AnswersAreTrue ==
    \A c \in Calls :
        /\ answer[c].kind = "loaded" => answer[c].revision <= Current
        /\ answer[c].kind = "saved" =>
              c \in applied /\ answer[c].revision = args[c].expected + 1

\* Nothing the server held under the revision a save names is missing in it.
BodiesFollow ==
    \A c \in Calls :
        /\ IsEarned(body[c])
        /\ (args[c].op = "save" /\ args[c].valid) =>
              /\ args[c].expected <= Current
              /\ Below(StateAt(args[c].expected), body[c])

\* Nor is anything of it, or of the saves under way, missing in the page.
PagesFollow ==
    \A t \in Tabs :
        /\ IsEarned(state[t])
        /\ tag[t] # NoTag => /\ revision[t] <= Current
                            /\ Below(StateAt(revision[t]), state[t])
        /\ \A f \in Flows : flow[t][f].step \in {"save", "resave"} =>
              Below(body[flow[t][f].call], state[t])

LegacyInv ==
    /\ TypeOK
    /\ CallsAreFresh /\ CallsSuffice /\ FlowsRun
    /\ SavesAreChained /\ AnswersAreTrue /\ EtagFollowsRevision
    /\ BodiesFollow /\ PagesFollow /\ IsEarned(local)
=============================================================================
